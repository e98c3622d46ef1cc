# TLA+ specifications of the OAuth2 server and its web applications

This directory specifies, model-checks and proves properties of the OAuth2/OIDC
authorization server of this repository: `src/OAuth2Plugin` (the protocol, its
storage and its cache) and `src/OAuth2Server` (accounts, login, device grant,
administration), both C++ on the Drogon framework; and of its two single-page
applications in Vue: `src/OAuth2Frontend`, the pages of an account, and
`src/OAuth2Admin`, the administration console.

Drogon is asynchronous. A handler sends an SQL statement or a Redis command and
returns; a callback runs when the answer comes and sends the next one. Nothing
is held in between, and several server instances share one database and one
Redis. So the questions that a test hardly reaches are all of one kind: what
happens when another request, a failure, a restart or the clock comes between
two callbacks. In these modules **one SQL statement, one Redis command and one
deciding callback are one step each**, and everything interleaves there.

A browser is no different. A handler sends a request and awaits it; meanwhile the
user clicks on, other handlers run, other tabs and other people act, and answers
come in any order or not at all. In the modules of the applications **what a
function does between two awaits is one step**.

## 1. The system

Abbreviations: `Plugin` is `src/OAuth2Plugin/src`, `Server` is `src/OAuth2Server`.

| Component | State it keeps | Operations | Calls, shares |
|---|---|---|---|
| Token endpoint: `Plugin/services/TokenService.cc`, `controllers/OAuth2StandardController.cc` | none between callbacks | issue code, exchange, refresh, revoke, introspect, validate | `IOAuth2Storage` |
| PostgreSQL backend: `Plugin/storage/PostgresOAuth2Storage.cc` | `oauth2_codes`, `oauth2_access_tokens`, `oauth2_refresh_tokens`, clients, consents, subjects | conditional UPDATEs that consume a code or rotate a token, inserts, family revocation, cleanup | one database for all instances |
| Cache: `Plugin/storage/CachedOAuth2Storage.cc` | L1 (memory of the instance), L2 (Redis) | save, get, revoke, delegate the rest | wraps the PostgreSQL backend |
| Redis and memory backends: `Plugin/storage/{Redis,Memory}OAuth2Storage.cc` | the same data as keys, or as maps under one mutex | the same interface | alternatives to PostgreSQL |
| Cleanup: `Plugin/plugin/OAuth2CleanupService.cc` | a lock key in Redis | delete expired rows now and then | runs on every instance |
| Device grant: `Server/controllers/DeviceAuthController.cc` and the device branch of `/oauth2/token` | `oauth2_device_codes` | request codes, approve, poll | token endpoint |
| Login and lockout: `Server/AuthService.cc` | `users.password_hash`, `failed_login_count`, `locked_until` | validate a user, register | every login form |
| Self service: `Server/controllers/{UserSelfService,PasswordReset}Controller.cc` | `users`, `password_reset_tokens` | change or reset the password, delete the account | revokes rows of the token tables with SQL of its own |
| Administration: `Server/controllers/AdminController.cc` and others | the same tables | disable and enable users, revoke tokens, edit clients | bypasses the cache |
| Session, consent, authorize: `Server/controllers/SessionController.cc`, `Plugin/services/{Identity,Client}Service.cc` | session cookie, consents, subject mappings | log in, consent, issue a code | token endpoint, login |
| E-mail verification, MFA, WebAuthn, external providers | their tables | set up, verify, disable; sign in | accounts |
| Browser sessions: `stores/auth.ts`, `router/index.ts` of both applications, `services/{http,authService}.ts`, login and callback pages, layouts | per tab: access and refresh token, user, whether signed in, route; `localStorage` of the account application | log in, MFA step, code exchange, attach and refresh tokens, restore a session, guard routes, log out | the token endpoint; tabs share `localStorage` |
| Account pages: `OAuth2Frontend/src/pages` | per page: what it shows, its forms, flags and modals | profile, password, MFA, passkeys, authorized applications; register, reset, verify, consent, device code | Server, through `http.ts` |
| Console pages: `OAuth2Admin/src/pages` | the same | lists and details of users, roles, scopes, applications, tokens | `AdminController`, other administrators |
| Schema manager, signing keys, request filters and rules | migrations table; key; none | migrate at start; sign; accept or reject one request | start-up, every request |

What is hard, and what makes each part correct:

- **Token endpoint.** A code founds one token family; a family has one usable
  refresh token; rotation is a chain; reuse ends the family; a token stays with
  its client; nothing is minted from what has expired; every request is answered.
  Hard: the row is read by one statement and the decision taken later, the
  cascade is two UPDATEs, inserts may fail, the cleanup deletes under way.
- **Cache.** A revoked token is forgotten and stays so; cache trouble refuses no
  valid token. Hard: three copies, fills that are sent and not awaited, a
  revocation that evicts one after the other, restarts, Redis failing.
- **Device grant.** One pair per code, for the user who approved, in time; a
  refusal has a cause. Hard: polls and approvals race, the DELETE is not awaited.
- **Account.** The lockout follows its table; a disabled user stays out; the
  password in force is the one chosen last; what is reported revoked is revoked;
  a reset token works once. Hard: three UPDATEs are sent after the answer.

- **Browser sessions.** A token family is not ended for reuse without a cause;
  the stored refresh token is the usable one; the user shown is the one whose
  tokens are used; who is signed out holds nothing; the console is for
  administrators; retries end. Hard: refreshes of several requests, tabs and
  reloads share one token that each of them spends.
- **Pages.** What is shown is what the server holds; controls come back; nothing
  is submitted twice; a save keeps what others changed; a user has the roles last
  reported as given. Hard: answers out of order, forms filled long before, failures
  half way, and one flag or one modal for several handlers.

The complete list of hazards, each at its source line with the properties aimed
at it, is `hazards` in `PROJECT.json`.

## 2. The modules

    GrantLifecycle                 abstract: what a grant promises
        ^ implemented by (TokenServiceRefinement <- TokenServiceRefinementProofs)
    TokenService  <- TokenServiceProofs,        MCTokenService, MCTokenServiceRefinement
    CachedOAuth2Storage <- CachedOAuth2StorageProofs, MCCachedOAuth2Storage
    DeviceAuth    <- DeviceAuthProofs,          MCDeviceAuth
    UserAccount   <- UserAccountProofs,         MCUserAccount
    WebSession    <- WebSessionProofs
    WebPage       <- ListPages, RecordPages, TokensPage, SecurityPage, FormPages
                       <- WebPages <- WebPagesProofs <- WebPagesDataProofs,  MCWebPages

Each module is parameterised by sets of requests, tokens and parties and has one
action per statement or deciding callback, named after the function it models;
`map` in `PROJECT.json` gives its lines. Constants carry a named assumption.
Definitions marked *Mutant* are plausible mistakes. They are not part of any
specification; each property of a passing run is shown to fail when the mutant
takes the place of the definition it imitates.

### TokenService

The token endpoint over PostgreSQL. A request mints at most one pair and tokens
are fresh random strings, so the pair is named after the request: `ats[r]` and
`rts[r]` are its two rows, and the family that an exchange founds is named after
it too. `pc[r]` is the callback the request is in.

| Code | Actions |
|---|---|
| `generateAuthorizationCode` | `GenerateAuthorizationCode`: insert, or a lost insert that is answered all the same; the challenge columns are not written |
| `exchangeCodeForToken` | `ReceiveExchange`, `ConsumeAuthCode` (UPDATE ... RETURNING), `CheckAuthCode` |
| `saveTokenPair`, PostgreSQL's own | `InsertAccessToken`, `InsertRefreshToken`, `EndTransaction` (commit, failed commit, or rollback after a failed insert) |
| `saveTokenPair`, inherited by the cache wrapper | `SaveAccessToken`, `SaveRefreshToken` |
| `refreshAccessToken` | `ReceiveRefresh`, `AtomicRevokeRefreshToken` (the CAS), `RotateRefreshToken`, `GetRefreshToken`, `RevokeFamilyRefreshTokens`, `RevokeFamilyAccessTokens` |
| `/oauth2/revoke` | `ReceiveRevoke`, `IntrospectForRevoke`, `RevokeAccess` (retried once), `RevokeRefresh`; `pc` says whether it is acknowledged after a failure (`"ackedAnyway"`) |
| `deleteExpiredData` | `DeleteExpiredData`, made of its three DELETEs and `ArchiveExpiredTokens` |

The constant `Transactional` chooses the `saveTokenPair` in use. An open
transaction's row is `"uncommitted"`: stored, and seen by nobody else. Each INSERT
is a step and may fail alone. The answer goes out from inside the transaction, as
in the code; the commit comes later and may fail too.

`GrantLifecycle` states the promise in five actions: a grant is issued, redeemed
once, rotated by its one holder, and ended. `TokenServiceRefinement` reads the
holder off the rows and the requests under way (`grantBar`) and the run
`refinement` checks that every behaviour of `TokenService` is one of
`GrantLifecycle`; `TokenServiceRefinementProofs` proves it.

### CachedOAuth2Storage

One access token, its row, an L1 per instance, one Redis key with its expiry,
any number of validations and revocations. `SaveToL1`, `InsertRow`, `SaveToL2`
are `saveAccessToken`; `LookUpL1`, `GetL2`, `ReadRow`, `FillAndAnswer`, `FillL2`
are `getAccessToken` with `validateAccessToken`'s verdict; `ReceiveRevoke`,
`Introspect`, `UpdateRow`, `EraseL1`, `DeleteL2` are a revocation;
`RevokeTokenFamily` stands for every UPDATE that leaves the caches alone. Tokens
do not interact in this class, so one token is enough.

### DeviceAuth

`RequestCodes`, `InsertDeviceCode`; `ReceiveApproval`, `ApproveDevice`;
`ReceivePoll`, `SelectDeviceCode`, `CheckDeviceCode`, `SaveTokenPair`,
`AnswerPoll`, `DeleteDeviceCode`. User codes are few here, so that two devices
may be given the same one. `LosePoll` and `LoseApproval` lose the request with
its server instance.

### UserAccount

One user. A login is `ReceiveLogin`, `FindUser`, `ValidateUser` (which is
`Refuse`, `Accept` or `Miss`), and then up to three UPDATEs that nobody waits
for: `ResetFailures`, `RecordFailure`, `Rehash`. Self service is
`ReceiveChange` or `ReceiveDelete`, `CheckOldPassword`, `UpdatePassword`,
`ChangeRevokesAccess`, `ChangeRevokesRefresh`, `EraseUser`. A reset is
`RequestReset`, `StoreResetToken`, `ReceiveConfirm`, `ConsumeResetToken`, `ResetPassword`,
`ConfirmRevokesAccess`, `ConfirmRevokesRefresh`. Administrators are
`DisableUser` and `EnableUser`. A hash is abstracted to the password it is of
and whether it is a legacy SHA-256 one. A stored pair carries the kind of
subject it was issued for, since each operation revokes one kind. `chosen` and
`tally` are history: the password chosen last, and the wrong passwords since the
last right one together with whether attempts have overlapped.

### WebSession

The tabs of one application (`app` is the account application or the console)
and the server's view of each login's token family: `gen[f]` is the number of
the refresh token the server accepts next, `dead` are the families ended by a
reuse. `tab[t]` holds the tokens, the user, `present` (`tokenPresent`) and the
kind of page; `storage` is `localStorage`. A tab runs at most one task of each
kind: `restore`, `login`, `logout` and the requests of its page, each with the
request it awaits (`task[t][k]`). What the interceptors do around a request is
`StartRefresh`, then `AccountRefreshed` or `AdminRefreshed`. `ServerRefresh` is
what the token endpoint does with a refresh (`TokenService` in one step);
`orphans` are refreshes whose reader is gone: the page was reloaded, or gave up.
Families in `GitHub` are those of a login with GitHub: `GitHubController` stores
their tokens as they are, and the token endpoint looks for the hash, so no
request and no refresh with them is accepted (`Hashed`).

| Code | Actions |
|---|---|
| creating the store, `restoreSession`, `tryRestoreSession` | `Load`, `AccountRestored`, `AccountFetchUser` |
| interceptors of `http.ts` and of the console's store | `PageCall`, `StartRefresh`, `Resend`, `AccountRefreshed`, `AdminRefreshed`, `PageCallAnswered` |
| login pages, `login`, `verifyMfa`, `exchangeCode` | `AccountHandleLogin`, `AccountLoginAnswered`, `AccountHandleMfa`, `AccountMfaAnswered`, `AccountMfaBack`, `AccountExchangeCode`, `AdminHandleLogin`, `AdminLoginAnswered`, `AdminExchangeCode`, `AdminFetchUserInfo` |
| callback pages | `AccountCallback`, `GitHubCallback`, `GitHubLoggedIn`, `AdminCallback` |
| `logout`, account deletion | `AccountLogout`, `AccountLogoutAnswered`, `AdminLogout`, `AccountDeleted` |
| routes, `beforeEach`, links, reload | `Navigate`, `OpenPage` |

`slip` is history: a refresh was sent with a token that may have been spent
(another request or tab was refreshing with it, other tabs had replaced it, or
its successor was lost). `crossed` are the tabs where a session began or ended
while another task of the tab was under way.

### WebPage and the pages

`WebPage` is what all pages have in common: `ui` is what the component holds,
`calls` the requests under way and the answers not read yet, `db` the server's
data. `Click` sends, `Reply` answers (done, refused or failed, or done and the
answer lost), `Resume` goes on after an await. A page's `...Template` says which
of its controls are there and enabled; every action of a user starts from it.

| Module | Pages |
|---|---|
| `ListPages` | `RolesPage`, `ScopesPage`, `UsersPage`, `ApplicationsPage`; `AuthorizedAppsPage` |
| `RecordPages` | `UserDetailPage`, `ApplicationDetailPage`, `SettingsPage`, the console's `DashboardPage`; `ProfilePage` |
| `TokensPage` | `TokensPage`, with its dialog |
| `SecurityPage` | `SecurityPage`, with `MfaController` |
| `FormPages` | `RegisterPage`, `ForgotPasswordPage`, `ResetPasswordPage`, `VerifyEmailPage`, `DeviceVerifyPage`, `ConsentPage` |

Actions have the names of the handlers; each is the click that starts the
handler or its way on from an await. On the server's side, a handler whose
statements leave room for others between them is a step for each:

| Handler | Steps |
|---|---|
| `assignUserRoles` | `RolesDeleted`, then `RoleInserted` once for each role; the last to end answers for itself |
| `getClient` | both halves of `GetClient`; when the second SELECT fails the answer is success without scopes |
| `updateClientScopes` | `UpdateClientScopes` answers inside its transaction, `EndUpdate` commits it or fails to |
| `createRole`, `createScope` | both halves of `Create`: SELECT, then INSERT, which refuses a name taken meanwhile |
| `revokeTokensByClient`, `revokeTokensByUser` | both halves of `RevokeAll`; the second DELETE may fail and the answer be the same |
| `verifySetup` | both halves of `MfaVerifySetup` |

`listTokens` counts before it reads; the count is shown nowhere that matters and
is left out. The other handlers change the data in one statement.

`marks` is history: what happened that excuses a page from being up to date.
`misled` is the odd one: the server answered success and part of it was not so;
a property that excepts it says what remains true then. `others` remembers what
somebody else has set and this page's user had not edited by then nor has since,
`meant` what the user asked for (the roles reported as given, the secret in the
authenticator). A modal hides what it covers from the pointer and not from the
keyboard (no overlay traps the focus), so what it covers stays enabled.

`WebPages` puts them together and states the properties for all pages.

## 3. The runs

Passing runs check that the properties hold in every reachable state, and that
each has a mutant that breaks it.

| Run | What it asks and shows |
|---|---|
| `rotation` | Four requests of two clients for one code, with the clock and the cleanup. `OneFamilyPerCode`, `OneUsableRefreshToken`, `RotationIsAChain`, `TokensGoToTheirClient`, `DeadFamilyStaysDead`. |
| `refinement` | Three requests, one failing statement, expiry. `ImplementsGrant`, the inductive invariant `IInv`, `MintedInTime`, and `PairIsAtomic`: no other connection sees half a pair, between the two inserts or after one of them has failed. |
| `answers` | The sequential `saveTokenPair`, one failing statement, fairness. `EveryRequestAnswered` (liveness), and `RevocationHolds`: a token whose revocation was acknowledged without a failure is not accepted again. |
| `cache_revocation` | Two instances, two validations, one revocation, two failures or restarts, expiry. `IInv`, `RevocationIsFinal`, `ForgottenStaysForgotten`, `ValidTokenAccepted`. |
| `device_grant` | Two device codes that may share a user code, two clients, users, approvals and polls, one failure. `IInv`, `IssuedToApprover`, `IssuedInTime`, `RefusedForCause`, `SpentStaysSpent`. |
| `account_lifecycle` | Three requests out of two logins, a change or deletion and two confirmations; an administrator; one failure. `IInv`, `LockoutCounts`, `SubjectSessionsEnd`, `DisabledStaysDisabled`, `ChosenPasswordStays`. |
| `web_session` | Both applications, two tabs, logins in one of them, two families and a third that follows a login with GitHub, four user steps. `PunishedForCause`, `StoredTokenIsUsable`, `SessionIsOne`, `SignedOutIsEmpty`, `LoneTokenIsRestoring`, `ConsoleNeedsRole`, and `RetriesEnd`, which takes the place of liveness: every answer brings a task nearer to its end. |
| `web_pages` | Eighteen pages, each from its mounting on. `ShownIsCurrent`, `ControlsComeBack`, `SubmittedOnce`, `OthersEditsKept`, `AuthenticatorWorks`, `AskedIsDone`. |

The other runs end in a counterexample: a document or comment promises what the
code does not do. Each is a finding in `PROJECT.json`, with the quotation.

| Run | Property violated | Why |
|---|---|---|
| `cascade_race` | `ReuseRevokesFamily` | A rotation that has won its CAS inserts its pair after the cascade of a reuse has run over the family. |
| `cache_refill_race` | `RevokedIsRefused` | A validation between the eviction of L1 and the DEL fills L1 again from Redis. |
| `account_sessions` | `AllSessionsRevoked` | A reset revokes by internal id; the pairs that follow a login carry the public subject. A change does the reverse. |
| `reload_loses_session` | `ReloadKeepsSession` | A reload shows the page while it restores the session; the page's first request is refused and refreshed for with the same token, and one of the two refreshes counts as a reuse. |

### Bounds, and why they suffice

- *Requests.* Every race listed is between two requests of a kind, or between a
  request and a step that is not a request (clock, cleanup, administrator), on
  top of at most two earlier ones that set the scene: exchange, then two
  rotations, then a reuse or a revocation, which is four (`rotation`). With
  failures, three requests are kept to bound the state space. In `UserAccount`
  `MaxRequests` = 3 of five may arrive, in every combination.
- *Time.* `MaxTime` is 1 or 2 and the lifetimes 0 or 1, so things expire in the
  tick of their use as well as after. TTLs of 0 are the edge, not a shortcut:
  the comparisons are `>`, `<` and `>=` in different places. In `answers` and the
  violation runs time stands still, since expiry adds no branch that the
  passing runs do not take.
- *Failures.* `MaxFaults` = 1 (2 for the cache, where a restart and a lost
  command meet) counts failing statements, and restarts in `CachedOAuth2Storage`
  and `DeviceAuth`.
- *Lockout.* `FirstFailures` = {0, 4} puts the account one miss below the first
  lock, and `Forever` above any time of the run, as 9999999999 is.
- *Sessions.* One pair in the account runs. It may be of either subject, and
  the revocations treat pairs one by one; the proof is for any number.
- *Tabs.* Two, which share `localStorage`; one of them (`LoginTabs`) logs in,
  since a second one would only rename the first. One page request at a time
  (`Calls`) beside the restoration, the login and the logout of the tab: two
  refreshes with one token need no more. `MaxInputs` = 4 user steps let a session
  begin, be shared, be reloaded or ended, and be used again; `MaxGen` = 2 lets a
  family rotate once and a reuse be noticed; later refreshes are refused.
- *Pages.* `MaxInputs` counts clicks that send something, edits of forms that are
  compared when sent, and changes by others: 2 on the four tables of the console,
  3 elsewhere, since the longest setting wanted is an edit, a change by somebody
  else and a save, or a filter, another filter and a confirmation. Opening,
  closing and switching tabs is free. Two of the exceptions that the properties
  make (the mark `early` when MFA is disabled, and when it is set up after a
  Cancel) need four inputs on the security page; the attempt to prove the
  properties without them showed them, and a run of that page alone with
  `MaxInputs` = 4 gives the counterexamples. `MaxCalls` = 3 requests at a time.
  Two rows, one of them built in; two values; two tokens, one on a page; one role
  besides an unknown one, so that an assignment has an insert before the last.
  This run is the largest: 2.7 million states, about two minutes.
- *Symmetry* is declared where values are interchangeable and no liveness is
  checked; the refinement chooses a request, so it has none.

The proofs below hold without these bounds: they are for any finite or infinite
sets and any values of the constants that satisfy the assumptions.

`CHECK_DEADLOCK FALSE` everywhere: once the requests of the model have been
served the system rests.

### Fairness

Only `answers` needs it: `FairSpec` has weak fairness of `Handle(r)` and
`EndTransaction(r)`, per request. It says that the database answers each
statement, with a result or an error, and ends each transaction, which Drogon's
client reports through exactly one of the two callbacks. Clients, the clock and
the cleanup are not fair: nothing makes a request arrive.

The browser modules state no fairness. That an interceptor does not go on for
ever is `RetriesEnd`, a measure that every answer lowers; that a page does not
hang is `ControlsComeBack`: when nothing is under way, nothing is disabled.

## 4. What is proved

TLAPS checks the proofs in the eight `...Proofs` modules. Assumptions: those
named in the modules, which say that bounds are natural numbers and that `None`
is none of the real values (`UserAccount` also that `Forever` exceeds every
time of the run by more than an hour, `WebSession` that there is a tab and that
the page's own requests are not named like the three tasks of the store,
`WebPage` that at least three requests may be under way, `RecordPages` that some
text is written otherwise than it is shown).

**TokenServiceProofs.** `IInv` is inductive. The properties are not so by
themselves: that a rotation has one successor depends on requests that have won
the CAS and not minted yet. So `IInv` adds that a request carries the parameters
of the handler it is in (`RequestFits`), that a pair is where its request is
(`PairFits`), that a consumed code and a rotated token stay spent, for one
request (`RedeemedOnce`, `RotatedOnce`), and that families are inherited. From it
`OneFamilyPerCode`, `OneUsableRefreshToken`, `RotationIsAChain`,
`TokensGoToTheirClient`, `MintedInTime` and the action property
`DeadFamilyStaysDead` follow for any number of clients, codes and requests, for
both versions of `saveTokenPair` and any failures.

How far the storing of a pair has come is a second invariant on top of it
(`StoresFit`: with the transaction a row is seen by others exactly when its partner
is, without it nothing is uncommitted and an access token that is not stored is
the next to be). `PairIsAtomic` follows. `RevocationHolds` needs to know of a
revocation under way that its token was handed out, and is spent once the
statement that concerns it has been done (`RevocationsFit`), and that a spent
token stays so (`SpentStays`). Each is stated for the version of `saveTokenPair`
in which the code keeps it: with the transaction, a revocation that arrives before
the commit finds no row, is acknowledged, and the pair comes live after it.

**TokenServiceRefinementProofs.** `ImplementsGrant`. `Has(r, c)` is the mapping
seen from a request: it has the grant of code `c` in its hands, which by `IInv`
only one request can (`OneHolder`), so the `CHOOSE` of `grantBar` is determined
(`BarFits`). Every statement after which nobody has a grant who did not have it
is a stutter or ends grants (`GrantsEnd`); `GenerateAuthorizationCode`,
`ConsumeAuthCode`, `AtomicRevokeRefreshToken` and the two that mint issue,
redeem, rotate, or leave the grant where it is.

**CachedOAuth2StorageProofs.** `IInv` says what a revocation that no validation
has crossed may rely on while it evicts (`RevocationFits`). It gives
`RevocationIsFinal`; `ForgottenStaysForgotten` is proved step by step, for any
instances, with or without Redis. `ValidTokenAccepted` needs another invariant:
the row is there before the token is handed out (`SavedFirst`), and while the row
is live and no statement has failed no copy says anything else, and nothing is
answered without one (`CopiesFit`). Losses of Redis and restarts do not matter to it.

**DeviceAuthProofs.** `IInv` says that user codes differ among the rows present,
that a code is approved by one request for one user (`CodeFits`), and that what a
poll saw is still true or the code is deleted (`PollFits`). From it the four
properties of `device_grant`.

**UserAccountProofs.** `IInv` has two halves that do not mix, and every action
has a lemma for each. `SessionsFit`: what a change, deletion or confirmation has
revoked so far, of the pairs stored when it arrived, and that a consumed reset
token stays so. `LockFits`: until something crosses, at most one login may still
write the count and the lock, what it read is what the row holds, and what it
will write is the count due. From it `LockoutCounts`, `SubjectSessionsEnd`,
`OneResetPerToken`, `DisabledStaysDisabled`, `ChosenPasswordStays`. The lock that
the code computes (`Minutes`) is compared with the documented table
(`LockMinutes`) for every number of failures.

**WebSessionProofs.** None of the properties is inductive: what a late answer
does depends on what its task and its tab held when it was sent. `IInv` says what
each task may be doing and with which token (`TasksFit`), that the two tokens of
a tab are one pair (`TabsFit`), that tasks and memory of a tab no task has crossed
are about one session (`SessionsFit`), that every token in use was given out by
the server, and a promised code's family was not (`TokensBorn`, `CodesFit`), and,
while no refresh risked a reuse, that each refresh under way is the only one with
its token and is current, and that what a tab would spend next is current or being
refreshed (`RefreshesFit`). The actions are first reduced to eleven effects
(`Elsewhere`, `Starts`, `Answers`, `Resends`, `Founds`, `Leaves`, ...), and each
part of `IInv` is proved for each effect. All seven invariants and the action
property `RetriesEnd` follow, for both applications and any number of tabs,
requests, families, rotations and user steps.

**WebPagesProofs.** What is alike on all eighteen pages. A step does one of six
things to the requests under way and to the flags that disable controls
(`Effect`): nothing (`Stays`); a request starts and raises its flag (`Starts`), is
answered (`IsAnswered`), ends and drops it (`Ends`), is followed by another that
takes the flag over (`Follows`); or several that were awaited together end
(`AllEnd`). Each action of each page has one of these effects; from there the
pages are forgotten. `PageInv` is inductive: every flag that is up belongs to one
request and every flagged request has its flag up, and a page that loads awaits a
fetch (`FlagsFit`), a fetch that failed and answers that may cross have been
marked (`ReadsMarked`, `OverlapMarked`), a form is gone before it could be
accepted twice (`FormFits`), and on the security page the secret whose code is
accepted is the one the user last put in the authenticator (`SecurityFits`).
`ControlsComeBack` and `SubmittedOnce` are not inductive without `FlagsFit`, and
`AuthenticatorWorks`, which speaks of a page at rest, depends on what every
request under way knew when it was sent: a setup is asked for only when MFA is
off, unless the step before has not been heard of.

**WebPagesDataProofs.** What the pages show and what they make of the data. The
actions of each kind of page are reduced to the forms that matter for it
(`ListStep`, `RecordStep`, `TokensStep`), and `DataInv` has a part for each kind.
The pages fetch after a change of their own, so between the two they are wrong;
what is inductive is that each thing shown, and each answer not yet read, is what
the server holds, or a fetch of it is under way, or a change of it has been
answered that will start one (`ListCurrent`, `RecordCurrent`, `TokensCurrent`,
`MfaCurrent`, `KeysCurrent`); of the scopes of an application, what the server
holds is what it will hold once the update it has answered is committed (`Due`). Beside it: a secret shown is the last one made and
no other is on its way (`SecretCurrent`, `ThisSecretCurrent`); the roles a user
has are those last reported, or those of an assignment half done that have been
inserted so far, or at least none but these when an insert has failed unseen
(`RolesTold`, `TheirRolesTold`); and a field that somebody else has set is neither
edited nor in a request under way, though the form is older than their change
(`EditsKept`). `ShownIsCurrent`,
`OthersEditsKept`, `AskedIsDone` and `TypeOK` follow, for any rows, values,
tokens, roles and number of requests.

Each proof has one lemma per action for its effect (which request moved and
where), then one for the invariant, and a QED that joins the cases of `Next`.

**Only model-checked:** `EveryRequestAnswered`, liveness under fairness being out
of the prover's reach. Every other property of the passing runs is proved; the
runs show that the settings the properties speak of occur, and that a mutant of
the code breaks each. `PageInv` and `DataInv` are stated in the proof modules and
not checked by a run of their own.

## 5. Other disagreements met

Read or seen in the models; no run is devoted to them.

- `CachedOAuth2Storage` does not override `saveTokenPair`, so behind the cache a
  pair is two inserts and not the "atomic pair" of `IOAuth2Storage.h:226`. With
  PostgreSQL's own, the callback runs when the second INSERT returns and before the
  commit (`PostgresOAuth2Storage.cc:572`, 596), though the interface says "Callback
  invoked when both are saved (or on failure)" (`IOAuth2Storage.h:232`;
  `AnsweredWhenSaved` in `TokenService` states it, and TLC refutes it in two
  requests). So the client may revoke a pair nobody else sees yet: the
  revocation finds no row and is acknowledged (`OAuth2StandardController.cc:529`),
  and the pair is live once the commit is done. Either way, inserts or a commit
  that fail are answered with the pair all the same.
- A login with GitHub stores its two tokens unhashed and without a family
  (`GitHubController.cc:206-242`), while every lookup goes by the hash
  (`TokenService.cc:262`, 376): the page keeps tokens that no request and no
  refresh is accepted with, and its first request leads back to `/login`.
  `StoredTokenIsUsable` speaks of the other logins.
- `revokeAccessToken` of PostgreSQL calls back after its last UPDATE has failed as
  if it had not (`PostgresOAuth2Storage.cc:1604-1623`), and the revocation is
  acknowledged: `"ackedAnyway"`, which `RevocationHolds` leaves out.
- L1 is written before the database although the comment says "Write to DB
  first" (`CachedOAuth2Storage.cc:101`): when the INSERT fails, the instance
  accepts a token that has no row.
- `revokeTokenFamily` evicts nothing, its comment says "Evict all cached tokens
  (conservative approach)" (`CachedOAuth2Storage.cc:291`); nor do password
  changes, deletions and administrators, whose UPDATEs bypass the class.
- A revocation whose DEL failed cannot be repeated: the retry finds the token
  inactive and is acknowledged (`OAuth2StandardController.cc:529-536`).
- On the memory backend a revoked refresh token is not found, so a reuse never
  reaches the cascade. On Redis refresh tokens are not stored.
- Overlapping wrong passwords lose counts (`AuthService.cc:127-151`), and an
  attempt that read the row before an administrator disabled the user writes a
  shorter lock over it. Hence the condition `~tally.crossed` of `LockoutCounts`
  and `~Busy` of `DisabledStaysDisabled`.
- The rehash of a legacy hash may land after the password was changed
  (`AuthService.cc:78-103`) and bring the old one back. Hence `Settled`.
- A deletion by a token with the internal subject revokes that subject's tokens
  and then answers 404; when a revocation failed it answers success, and nothing
  was deleted (`UserSelfServiceController.cc:521-638`). Two deletions in one
  second collide on the user name `deleted_<timestamp>`.
- Nothing writes the device status `denied` or sends `slow_down`, and expired
  device rows are never deleted.
- A new MFA setup overwrites the verified secret while MFA stays enabled
  (`MfaController.cc:73-75`), and backup codes are never accepted. The security
  page drops the backup codes although the server says "Save these backup codes
  securely. They cannot be shown again." (`SecurityPage.vue:58-69`). It offers
  Enable MFA for MFA that is enabled between the answer to a verification and the
  profile it fetches next, and when that profile could not be loaded (the mark
  `early`). A wrong setup code is answered 401, which starts a refresh.
- Verify of that page can be clicked again before the answer, and Disable MFA while
  a code is being checked. The server checks the code and enables MFA in two
  statements (`MfaController.cc:132-198`). So the first verification can be heard
  of, MFA disabled and its secret deleted, and then the second one enables MFA
  without a secret: no code is right any more.
- Cancel forgets a setup whose code is being checked; Enable MFA may then be clicked,
  and the answer to the old verification drops the flag of the new setup
  (`SecurityPage.vue:47-66`, 240), which can be sent a second time.
- PostgreSQL never stores the `code_challenge` of a code
  (`PostgresOAuth2Storage.cc:327-333`), so the exchange has nothing to verify
  (`ChallengeNeedsVerifier` in `TokenService`).
- Two polls of one device code that read the approved row before the DELETE,
  which is sent after the pair is stored, both get a pair
  (`OAuth2StandardController.cc:1474`; `DeviceCodeIsSingleUse` in `DeviceAuth`).
- The interceptors have no single flight: two requests refused at the same time
  refresh with the same token. Another tab's copy of the refresh token is stale
  once one has rotated it. The console's refreshes pass its own interceptor, which
  lets them through since a refresh is refused with 400. A refresh that ends after a logout brings the session back
  (`crossed` in `WebSession`). When a restoration fails, a protected page stays
  shown until the next navigation or request.
- The account application's MFA step cannot complete: `verifyLogin` answers
  without tokens, which `verifyMfa` waits for. The console's login page ignores
  `mfaRequired`; its callback page calls `auth.handleCallback`, which its store
  does not have; its router imports `LogsPage.vue`, which does not exist
  (`OAuth2Admin/src/router/index.ts:62`).
- Confirm of the tokens page can be clicked again before the answer
  (`TokensPage.vue:72`), and a revocation that ends closes whatever dialog is open
  by then. On a page past the last one "No active tokens found" hides the way back
  (`TokensPage.vue:206`).
- The dialog of the tokens page words the revocation of a user's tokens when it
  opens (`TokensPage.vue:110`) and reads the filter again when it is confirmed
  (112). The overlay (264-265) does not trap the focus: with Tab and the keyboard
  the filter is edited under the dialog, and another user's tokens are revoked
  than the one it names. No property excludes it; `TypeFilters` and `Action` in
  `TokensPage` model it.
- The bulk revocations delete access tokens and then refresh tokens, and report
  success when the second DELETE fails (`AdminController.cc:1973-1999`,
  2061-2087): the refresh tokens still work.
- When `getClient` cannot read the scopes it answers that there are none
  (`AdminController.cc:491-495`); the application page shows an empty list, and
  saving that tab removes the scopes. `updateClientScopes` answers before its
  transaction has committed (868): what the page shows as saved may be gone, or not
  yet there for the next fetch. `ShownIsCurrent` excepts the scopes of an
  application then, and only then (the mark `misled`).
- Fetches of one list may be answered out of order and the older answer stays;
  likewise two secrets reset one after the other, in a modal that does not say
  whose secret it shows (`ApplicationsPage.vue:77-86`).
- `UserDetailPage.vue` saves roles "without clearing success message" (77) and then
  calls `showError`, which clears it; the user it fetches in the background
  overwrites what has been typed since. When loading failed, saving sends
  `email_verified: false` untouched (60). `ApplicationDetailPage.vue:84` rewrites
  redirect URIs nobody edited. Roles and scopes are sent as whole sets.
- `assignUserRoles` (`AdminController.cc:1163-1300`) deletes all roles and inserts
  the new ones without a transaction; an insert that fails before the last one has
  ended is still answered as success (1243-1271). `AskedIsDone` says what is left
  of the promise then: the user has no role that was not asked for, though perhaps
  not all that were; without such a failure, exactly those.
- The consent buttons are enabled again between the answer and the next page
  (`ConsentPage.vue:49`). The timers that leave the registration and reset pages
  fire wherever the user is by then.
- Registration reports success when the role could not be assigned
  (`AuthService.cc:233-250`).
- The single-sign-on branch of authorize and the consent handler drop
  `code_challenge` (`OAuth2StandardController.cc:985-992`, `1621-1628`).

## 6. What is left out, and the plan

Abstracted inside the modules: token strings, hashes and their iterations, JSON
and wording, logging, metrics; scopes and roles; the client's secret check (the
client of a request is any client); e-mail delivery (a reset token is known once
stored). Pairs in `UserAccount` do not expire and are not rotated: those are
questions of `TokenService`. An administrator's deletions of tokens are like
`RevokeTokenFamily` in the cache model and not in `UserAccount`.

In the browser modules: messages and their timers, formatting, copying to the
clipboard, leaving a page, the lists of all roles and scopes that two pages load beside their record, grant
types (they go the way of the redirect URIs), totals. A token is revoked by its
prefix; prefixes are taken to differ. The session of a page (401, refresh) is in
`WebSession`, its data in `WebPages`: a request that was refreshed for is answered
late, no more.

Not modelled: `components` in `PROJECT.json` gives the reason for each.
Presentational components, generated ORM models, hashing, mail, metrics and
OpenAPI keep no protocol state.

Next, in this order:

1. `AuthorizeFlow`: authorize, login session, consent and the code
   (`SessionController`, `OAuth2StandardController::authorize`,
   `IdentityService::ensureSubjectMapping`): a code is for the user and the
   scopes that were consented to; one subject per user however first logins race.
2. `StorageBackends`: the memory and Redis backends against the same abstract
   `GrantLifecycle`: the Lua consumption of a code, the read-then-write
   revocation, refresh tokens that are not stored.
3. `Cleanup` and `SchemaManager`: instances that start or clean together, the
   lock that expires by itself, Redis failing.
4. `SecondFactor`: the mails and codes of e-mail verification, and a login that
   asks for a code.
5. The request filter and rule engine as operators against a reference.
