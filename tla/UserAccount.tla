---------------------------- MODULE UserAccount ----------------------------
(***************************************************************************)
(* One user's account on the server: logging in and the lockout            *)
(* (AuthService.cc), changing the password and deleting the account        *)
(* (UserSelfServiceController.cc), resetting the password by mail          *)
(* (PasswordResetController.cc), an administrator disabling and enabling   *)
(* it (AdminController.cc), and the token pairs of the user that these     *)
(* operations revoke.                                                      *)
(*                                                                         *)
(* Each SQL statement is one step.  A login answers before the UPDATEs it  *)
(* has sent are executed; they run in any order, or fail, later.           *)
(***************************************************************************)
EXTENDS Naturals, FiniteSets

CONSTANTS
  Logins,        \* login requests
  Changes,       \* requests of the logged-in user: change password, delete
  Confirms,      \* requests to confirm a password reset
  ResetTokens,   \* password reset tokens that may be generated
  Sessions,      \* token pairs of the user
  Passwords,     \* passwords somebody types
  FirstFailures, \* failed logins the account may start with
  None,          \* no value
  Forever,       \* 9999999999, the time until which a disabled user is locked
  ResetLifetime, \* lifetime of a reset token
  MaxTime,       \* bound on the clock, in minutes
  MaxRequests,   \* bound on the requests of all kinds together
  MaxFaults      \* bound on the SQL statements that fail

ASSUME AccountAssumption ==
  /\ None \notin Passwords \cup ResetTokens
  /\ FirstFailures \subseteq Nat
  /\ {Forever, ResetLifetime, MaxTime, MaxRequests, MaxFaults} \subseteq Nat
  /\ Forever > MaxTime + 60

VARIABLES
  now,       \* the clock
  user,      \* the row of users
  pairs,     \* the user's rows of oauth2_access_tokens and oauth2_refresh_tokens
  tokens,    \* the rows of password_reset_tokens
  logins,
  changes,
  confirms,
  chosen,    \* history: the password the user chose last
  tally,     \* history: the wrong passwords since the last right one
  faults     \* statements failed so far

vars == <<now, user, pairs, tokens, logins, changes, confirms, chosen, tally, faults>>

(* A hash is known by the password it is of and by whether it is a legacy   *)
(* SHA-256 one; the hash of a deleted account is of no password.            *)
User == [pw: Passwords \cup {None}, legacy: BOOLEAN, failed: Nat, locked: Nat, deleted: BOOLEAN]

(* user_id is the public subject in a pair that follows a login, and the    *)
(* internal id in one that was authorized with the session cookie.          *)
Subjects == {"public", "internal"}

Pair == [at: {"none", "live", "revoked"}, rt: {"none", "live", "revoked"}, sub: Subjects]

(* "requested": generated, its row not inserted yet; "lost": the insert     *)
(* failed, and no link was mailed.                                          *)
ResetToken == [status: {"none", "requested", "lost", "unused", "used"}, exp: Nat]

Seen == [pw: Passwords \cup {None}, legacy: BOOLEAN, failed: Nat, locked: Nat]

Login == [pc: {"idle", "find", "verify", "accepted", "refused"},
          guess: Passwords \cup {None}, seen: Seen,
          writes: SUBSET {"reset", "rehash", "fail"}, failed: Nat, locked: Nat]

Change == [pc: {"idle", "select", "update", "revokeAt", "revokeRt", "erase",
                "done", "failed"},
           kind: {"change", "delete"}, sub: Subjects,
           old: Passwords \cup {None}, new: Passwords \cup {None},
           before: SUBSET Sessions, clean: BOOLEAN]

Confirm == [pc: {"idle", "consume", "update", "revokeAt", "revokeRt", "done", "failed"},
            token: ResetTokens \cup {None}, at: Nat, new: Passwords \cup {None},
            before: SUBSET Sessions, clean: BOOLEAN]

NotSeen == [pw |-> None, legacy |-> FALSE, failed |-> 0, locked |-> 0]

NoLogin == [pc |-> "idle", guess |-> None,
            seen |-> NotSeen,              \* the row it read
            writes |-> {},                 \* UPDATEs sent and not executed yet
            failed |-> 0, locked |-> 0]    \* the values in "fail"

NoChange == [pc |-> "idle", kind |-> "change", sub |-> "public", old |-> None, new |-> None,
             before |-> {},     \* the pairs stored when it arrived
             clean |-> TRUE]    \* no revocation of it failed

NoConfirm == [pc |-> "idle", token |-> None, at |-> 0, new |-> None,
              before |-> {}, clean |-> TRUE]

(* Minutes of lockout after n failures in a row; locked until when.         *)
Minutes(n) == IF n >= 20 THEN 60 ELSE IF n >= 15 THEN 30
              ELSE IF n >= 10 THEN 5 ELSE IF n >= 5 THEN 1 ELSE 0

LockedUntil(n, t) == IF Minutes(n) = 0 THEN 0 ELSE t + Minutes(n)

Init ==
  /\ now = 0
  /\ \E pw \in Passwords, legacy \in BOOLEAN, n \in FirstFailures :
       /\ user = [pw |-> pw, legacy |-> legacy, failed |-> n,
                  locked |-> LockedUntil(n, 0), deleted |-> FALSE]
       /\ chosen = pw
       /\ tally = [n |-> n, at |-> 0, crossed |-> FALSE]
  /\ pairs = [s \in Sessions |-> [at |-> "none", rt |-> "none", sub |-> "public"]]
  /\ tokens = [t \in ResetTokens |-> [status |-> "none", exp |-> 0]]
  /\ logins = [l \in Logins |-> NoLogin]
  /\ changes = [c \in Changes |-> NoChange]
  /\ confirms = [k \in Confirms |-> NoConfirm]
  /\ faults = 0

-----------------------------------------------------------------------------
NoFault == UNCHANGED faults
Fault == faults < MaxFaults /\ faults' = faults + 1

requests == <<logins, changes, confirms>>

(* One more request may arrive.                                             *)
Arrivals ==
  Cardinality({l \in Logins : logins[l].pc # "idle"})
    + Cardinality({c \in Changes : changes[c].pc # "idle"})
    + Cardinality({k \in Confirms : confirms[k].pc # "idle"}) < MaxRequests

(* A login that may still write the failure count and the lock.             *)
Unwritten(l) ==
  \/ logins[l].pc = "verify" /\ logins[l].seen.locked # Forever
  \/ logins[l].writes \cap {"reset", "fail"} # {}

Busy == \E l \in Logins : Unwritten(l)

Cross(b) == tally' = [tally EXCEPT !.crossed = @ \/ b]

-----------------------------------------------------------------------------
(* validateUser.                                                            *)
ReceiveLogin(l, guess) ==
  /\ Arrivals
  /\ logins[l].pc = "idle"
  /\ logins' = [logins EXCEPT ![l].pc = "find", ![l].guess = guess]
  /\ UNCHANGED <<now, user, pairs, tokens, changes, confirms, chosen, tally, faults>>

(* A deleted account has lost its user name.                                *)
FindUser(l) ==
  /\ logins[l].pc = "find"
  /\ \/ /\ ~user.deleted
        /\ logins' = [logins EXCEPT ![l].pc = "verify",
                        ![l].seen = [pw |-> user.pw, legacy |-> user.legacy,
                                     failed |-> user.failed, locked |-> user.locked]]
        /\ Cross(Busy)
        /\ NoFault
     \/ user.deleted /\ logins' = [logins EXCEPT ![l].pc = "refused"] /\ UNCHANGED <<tally, faults>>
     \/ Fault /\ logins' = [logins EXCEPT ![l].pc = "refused"] /\ UNCHANGED tally
  /\ UNCHANGED <<now, user, pairs, tokens, changes, confirms, chosen>>

(* The callback of findOne decides on the row it read, sends its UPDATEs    *)
(* and answers.                                                             *)
Refuse(l) ==
  /\ logins' = [logins EXCEPT ![l] = [NoLogin EXCEPT !.pc = "refused"]]
  /\ UNCHANGED tally

(* Mutants: a right password does not reset the count; every hash is taken  *)
(* for a legacy one.                                                        *)
AcceptWithoutReset(l) ==
  LET r == logins[l] IN
    /\ logins' = [logins EXCEPT ![l] = [NoLogin EXCEPT !.pc = "accepted", !.guess = r.guess,
                    !.writes = IF r.seen.legacy THEN {"rehash"} ELSE {}]]
    /\ tally' = [tally EXCEPT !.n = 0]

AcceptAndRehash(l) ==
  LET r == logins[l] IN
    /\ logins' = [logins EXCEPT ![l] = [NoLogin EXCEPT !.pc = "accepted", !.guess = r.guess,
                    !.writes = IF r.seen.failed > 0 THEN {"reset", "rehash"} ELSE {"rehash"}]]
    /\ tally' = [tally EXCEPT !.n = 0]

Accept(l) ==
  LET r == logins[l] IN
    /\ logins' = [logins EXCEPT ![l] = [NoLogin EXCEPT !.pc = "accepted", !.guess = r.guess,
                    !.writes = {w \in {"reset", "rehash"} :
                                  IF w = "reset" THEN r.seen.failed > 0 ELSE r.seen.legacy}]]
    /\ tally' = [tally EXCEPT !.n = 0]

Miss(l) ==
  LET n == logins[l].seen.failed + 1 IN
    /\ logins' = [logins EXCEPT ![l] = [NoLogin EXCEPT !.pc = "refused", !.writes = {"fail"},
                    !.failed = n, !.locked = LockedUntil(n, now)]]
    /\ tally' = [tally EXCEPT !.n = @ + 1, !.at = now]

(* Mutant: the lock is not looked at.                                       *)
ValidateLockedUser(l) ==
  /\ logins[l].pc = "verify"
  /\ IF logins[l].guess = logins[l].seen.pw THEN Accept(l) ELSE Miss(l)
  /\ UNCHANGED <<now, user, pairs, tokens, changes, confirms, chosen, faults>>

ValidateUser(l) ==
  /\ logins[l].pc = "verify"
  /\ \/ logins[l].seen.locked > now /\ Refuse(l)
     \/ /\ logins[l].seen.locked <= now
        /\ IF logins[l].guess = logins[l].seen.pw THEN Accept(l) ELSE Miss(l)
  /\ UNCHANGED <<now, user, pairs, tokens, changes, confirms, chosen, faults>>

(* The three UPDATEs, whose results nobody waits for.                       *)
Sent(l, w) ==
  /\ w \in logins[l].writes
  /\ logins' = [logins EXCEPT ![l].writes = @ \ {w}]

ResetFailures(l) ==
  /\ Sent(l, "reset")
  /\ \/ user' = [user EXCEPT !.failed = 0, !.locked = 0] /\ UNCHANGED <<tally, faults>>
     \/ Fault /\ Cross(TRUE) /\ UNCHANGED user
  /\ UNCHANGED <<now, pairs, tokens, changes, confirms, chosen>>

RecordFailure(l) ==
  /\ Sent(l, "fail")
  /\ \/ /\ user' = [user EXCEPT !.failed = logins[l].failed, !.locked = logins[l].locked]
        /\ UNCHANGED <<tally, faults>>
     \/ Fault /\ Cross(TRUE) /\ UNCHANGED user
  /\ UNCHANGED <<now, pairs, tokens, changes, confirms, chosen>>

(* The typed password is hashed anew and stored.                            *)
Rehash(l) ==
  /\ Sent(l, "rehash")
  /\ \/ user' = [user EXCEPT !.pw = logins[l].guess, !.legacy = FALSE] /\ NoFault
     \/ Fault /\ UNCHANGED user
  /\ UNCHANGED <<now, pairs, tokens, changes, confirms, chosen, tally>>

-----------------------------------------------------------------------------
(* A login, or the session cookie it left, leads to a pair through the      *)
(* token endpoint.                                                          *)
StorePair(s, sub) ==
  /\ pairs[s].at = "none"
  /\ \E l \in Logins : logins[l].pc = "accepted"
  /\ pairs' = [pairs EXCEPT ![s] = [at |-> "live", rt |-> "live", sub |-> sub]]
  /\ UNCHANGED <<now, user, tokens, requests, chosen, tally, faults>>

Stored == {s \in Sessions : pairs[s].at # "none"}

RevokeAccessTokens(sub) ==
  pairs' = [s \in Sessions |-> IF pairs[s].sub = sub /\ pairs[s].at = "live"
                                 THEN [pairs[s] EXCEPT !.at = "revoked"] ELSE pairs[s]]

RevokeRefreshTokens(sub) ==
  pairs' = [s \in Sessions |-> IF pairs[s].sub = sub /\ pairs[s].rt = "live"
                                 THEN [pairs[s] EXCEPT !.rt = "revoked"] ELSE pairs[s]]

-----------------------------------------------------------------------------
(* changePassword and deleteAccount, by the bearer of a live access token;  *)
(* the user is looked up, and the tokens are, by the subject of that token. *)
ReceiveChange(c, s, old, new) ==
  /\ Arrivals
  /\ changes[c].pc = "idle"
  /\ pairs[s].at = "live"
  /\ changes' = [changes EXCEPT ![c] = [NoChange EXCEPT !.pc = "select", !.sub = pairs[s].sub,
                                          !.old = old, !.new = new, !.before = Stored]]
  /\ UNCHANGED <<now, user, pairs, tokens, logins, confirms, chosen, tally, faults>>

ReceiveDelete(c, s) ==
  /\ Arrivals
  /\ changes[c].pc = "idle"
  /\ pairs[s].at = "live"
  /\ changes' = [changes EXCEPT ![c] = [NoChange EXCEPT !.pc = "revokeAt", !.kind = "delete",
                                          !.sub = pairs[s].sub, !.before = Stored]]
  /\ UNCHANGED <<now, user, pairs, tokens, logins, confirms, chosen, tally, faults>>

GotoChange(c, l) == changes' = [changes EXCEPT ![c].pc = l]

(* The SELECT finds the user by the public subject only, and its callback   *)
(* compares the old password.                                               *)
CheckOldPassword(c) ==
  /\ changes[c].pc = "select"
  /\ LET right == changes[c].sub = "public" /\ changes[c].old = user.pw IN
       \/ right /\ GotoChange(c, "update") /\ NoFault
       \/ ~right /\ GotoChange(c, "failed") /\ NoFault
       \/ Fault /\ GotoChange(c, "failed")
  /\ UNCHANGED <<now, user, pairs, tokens, logins, confirms, chosen, tally>>

UpdatePassword(c) ==
  /\ changes[c].pc = "update"
  /\ \/ /\ user' = [user EXCEPT !.pw = changes[c].new, !.legacy = FALSE]
        /\ chosen' = changes[c].new
        /\ GotoChange(c, "revokeAt")
        /\ NoFault
     \/ Fault /\ GotoChange(c, "failed") /\ UNCHANGED <<user, chosen>>
  /\ UNCHANGED <<now, pairs, tokens, logins, confirms, tally>>

(* A failed revocation of the access tokens: a change goes on to the        *)
(* refresh tokens, a deletion does not.                                     *)
ChangeRevokesAccess(c) ==
  /\ changes[c].pc = "revokeAt"
  /\ \/ RevokeAccessTokens(changes[c].sub) /\ GotoChange(c, "revokeRt") /\ NoFault
     \/ /\ Fault
        /\ changes' = [changes EXCEPT ![c].clean = FALSE,
             ![c].pc = IF changes[c].kind = "change" THEN "revokeRt" ELSE "erase"]
        /\ UNCHANGED pairs
  /\ UNCHANGED <<now, user, tokens, logins, confirms, chosen, tally>>

(* Mutant: the refresh tokens are forgotten.                                *)
ChangeLeavesRefresh(c) ==
  /\ changes[c].pc = "revokeRt"
  /\ GotoChange(c, IF changes[c].kind = "change" THEN "done" ELSE "erase")
  /\ UNCHANGED <<now, user, pairs, tokens, logins, confirms, chosen, tally, faults>>

ChangeRevokesRefresh(c) ==
  LET next == IF changes[c].kind = "change" THEN "done" ELSE "erase" IN
    /\ changes[c].pc = "revokeRt"
    /\ \/ RevokeRefreshTokens(changes[c].sub) /\ GotoChange(c, next) /\ NoFault
       \/ /\ Fault
          /\ changes' = [changes EXCEPT ![c].clean = FALSE, ![c].pc = next]
          /\ UNCHANGED pairs
    /\ UNCHANGED <<now, user, tokens, logins, confirms, chosen, tally>>

(* The soft delete: no user has the internal id for public subject, and the *)
(* answer is then an error although the tokens are revoked.                 *)
EraseUser(c) ==
  /\ changes[c].pc = "erase"
  /\ \/ /\ changes[c].sub = "public"
        /\ user' = [user EXCEPT !.pw = None, !.legacy = TRUE, !.deleted = TRUE]
        /\ chosen' = None
        /\ GotoChange(c, "done")
        /\ NoFault
     \/ /\ changes[c].sub = "internal"
        /\ GotoChange(c, IF changes[c].clean THEN "failed" ELSE "done")
        /\ UNCHANGED <<user, chosen, faults>>
     \/ Fault /\ GotoChange(c, "failed") /\ UNCHANGED <<user, chosen>>
  /\ UNCHANGED <<now, pairs, tokens, logins, confirms, tally>>

-----------------------------------------------------------------------------
(* requestReset: the user is found by mail address, which a deleted account *)
(* has lost, and the callback generates a token.  A SELECT that fails ends  *)
(* the request.                                                             *)
RequestReset(t) ==
  /\ tokens[t].status = "none"
  /\ ~user.deleted
  /\ tokens' = [tokens EXCEPT ![t] = [status |-> "requested", exp |-> now + ResetLifetime]]
  /\ UNCHANGED <<now, user, pairs, requests, chosen, tally, faults>>

(* The token's hash is inserted, whatever has become of the account, and    *)
(* the link is mailed.                                                      *)
StoreResetToken(t) ==
  /\ tokens[t].status = "requested"
  /\ \/ tokens' = [tokens EXCEPT ![t].status = "unused"] /\ NoFault
     \/ Fault /\ tokens' = [tokens EXCEPT ![t].status = "lost"]
  /\ UNCHANGED <<now, user, pairs, requests, chosen, tally>>

(* Whoever got the mail.                                                    *)
ReceiveConfirm(k, t, new) ==
  /\ Arrivals
  /\ confirms[k].pc = "idle"
  /\ tokens[t].status \in {"unused", "used"}
  /\ confirms' = [confirms EXCEPT ![k] = [NoConfirm EXCEPT !.pc = "consume", !.token = t,
                                            !.at = now, !.new = new, !.before = Stored]]
  /\ UNCHANGED <<now, user, pairs, tokens, logins, changes, chosen, tally, faults>>

GotoConfirm(k, l) == confirms' = [confirms EXCEPT ![k].pc = l]

(* UPDATE ... WHERE used = false AND expires_at > $2 RETURNING.  Mutant:    *)
(* the condition used = false is missing.                                   *)
AnyToken(k) ==
  LET t == tokens[confirms[k].token] IN t.status \in {"unused", "used"} /\ t.exp > confirms[k].at

UsableToken(k) ==
  LET t == tokens[confirms[k].token] IN t.status = "unused" /\ t.exp > confirms[k].at

ConsumeResetToken(k) ==
  /\ confirms[k].pc = "consume"
  /\ \/ /\ UsableToken(k)
        /\ tokens' = [tokens EXCEPT ![confirms[k].token].status = "used"]
        /\ GotoConfirm(k, "update")
        /\ NoFault
     \/ ~UsableToken(k) /\ GotoConfirm(k, "failed") /\ UNCHANGED <<tokens, faults>>
     \/ Fault /\ GotoConfirm(k, "failed") /\ UNCHANGED tokens
  /\ UNCHANGED <<now, user, pairs, logins, changes, chosen, tally>>

ResetPassword(k) ==
  /\ confirms[k].pc = "update"
  /\ \/ /\ user' = [user EXCEPT !.pw = confirms[k].new, !.legacy = FALSE]
        /\ chosen' = confirms[k].new
        /\ GotoConfirm(k, "revokeAt")
        /\ NoFault
     \/ Fault /\ GotoConfirm(k, "failed") /\ UNCHANGED <<user, chosen>>
  /\ UNCHANGED <<now, pairs, tokens, logins, changes, tally>>

(* The tokens are looked for by the internal id.  A failure ends it.        *)
ConfirmRevokesAccess(k) ==
  /\ confirms[k].pc = "revokeAt"
  /\ \/ RevokeAccessTokens("internal") /\ GotoConfirm(k, "revokeRt") /\ NoFault
     \/ /\ Fault
        /\ confirms' = [confirms EXCEPT ![k].clean = FALSE, ![k].pc = "done"]
        /\ UNCHANGED pairs
  /\ UNCHANGED <<now, user, tokens, logins, changes, chosen, tally>>

ConfirmRevokesRefresh(k) ==
  /\ confirms[k].pc = "revokeRt"
  /\ \/ RevokeRefreshTokens("internal") /\ GotoConfirm(k, "done") /\ NoFault
     \/ /\ Fault
        /\ confirms' = [confirms EXCEPT ![k].clean = FALSE, ![k].pc = "done"]
        /\ UNCHANGED pairs
  /\ UNCHANGED <<now, user, tokens, logins, changes, chosen, tally>>

-----------------------------------------------------------------------------
(* The administrator: one UPDATE each.                                      *)
DisableUser ==
  /\ user.locked # Forever
  /\ user' = [user EXCEPT !.locked = Forever]
  /\ Cross(Busy)
  /\ UNCHANGED <<now, pairs, tokens, requests, chosen, faults>>

EnableUser ==
  /\ user.locked # 0 \/ user.failed # 0
  /\ user' = [user EXCEPT !.locked = 0, !.failed = 0]
  /\ tally' = [n |-> 0, at |-> 0, crossed |-> tally.crossed \/ Busy]
  /\ UNCHANGED <<now, pairs, tokens, requests, chosen, faults>>

Tick ==
  /\ now < MaxTime
  /\ now' = now + 1
  /\ UNCHANGED <<user, pairs, tokens, requests, chosen, tally, faults>>

-----------------------------------------------------------------------------
LogIn(l) ==
  \/ \E guess \in Passwords : ReceiveLogin(l, guess)
  \/ FindUser(l) \/ ValidateUser(l)
  \/ ResetFailures(l) \/ RecordFailure(l) \/ Rehash(l)

SelfService(c) ==
  \/ \E s \in Sessions, old, new \in Passwords : ReceiveChange(c, s, old, new)
  \/ \E s \in Sessions : ReceiveDelete(c, s)
  \/ CheckOldPassword(c) \/ UpdatePassword(c)
  \/ ChangeRevokesAccess(c) \/ ChangeRevokesRefresh(c) \/ EraseUser(c)

Reset(k) ==
  \/ \E t \in ResetTokens, new \in Passwords : ReceiveConfirm(k, t, new)
  \/ ConsumeResetToken(k) \/ ResetPassword(k)
  \/ ConfirmRevokesAccess(k) \/ ConfirmRevokesRefresh(k)

Next ==
  \/ \E l \in Logins : LogIn(l)
  \/ \E s \in Sessions, sub \in Subjects : StorePair(s, sub)
  \/ \E c \in Changes : SelfService(c)
  \/ \E t \in ResetTokens : RequestReset(t) \/ StoreResetToken(t)
  \/ \E k \in Confirms : Reset(k)
  \/ DisableUser \/ EnableUser
  \/ Tick

Spec == Init /\ [][Next]_vars

-----------------------------------------------------------------------------
TypeOK ==
  /\ now \in Nat
  /\ user \in User
  /\ pairs \in [Sessions -> Pair]
  /\ tokens \in [ResetTokens -> ResetToken]
  /\ logins \in [Logins -> Login]
  /\ changes \in [Changes -> Change]
  /\ confirms \in [Confirms -> Confirm]
  /\ chosen \in Passwords \cup {None}
  /\ tally \in [n: Nat, at: Nat, crossed: BOOLEAN]
  /\ faults \in Nat

(* The lockout that the documentation calls for after n failures in a row,  *)
(* and until when the account is to be locked after the last of them.       *)
LockMinutes ==
  [n \in Nat |-> CASE n < 5 -> 0 [] n \in 5..9 -> 1 [] n \in 10..14 -> 5
                   [] n \in 15..19 -> 30 [] n >= 20 -> 60]

Due == IF LockMinutes[tally.n] = 0 THEN 0 ELSE tally.at + LockMinutes[tally.n]

Counted == user.failed = tally.n /\ user.locked \in {Forever, Due}

(* The lockout counts: as long as no login overlapped another or an         *)
(* administrator, and no UPDATE was lost, the row holds the number of wrong *)
(* passwords in a row, and the lock that number calls for since the last.   *)
LockoutCounts == ~tally.crossed /\ ~Busy => Counted

Barred == user.locked = Forever /\ ~Busy

(* A disabled user for whom no login is under way stays disabled until an   *)
(* administrator enables them, however many logins follow.                  *)
DisabledStaysDisabled == [][Barred => Barred' \/ EnableUser]_vars

(* The password in force is the one chosen last, and no login is about to   *)
(* store the one it was given.                                              *)
Settled ==
  /\ user.pw = chosen
  /\ ~user.legacy
  /\ \A l \in Logins : /\ "rehash" \notin logins[l].writes
                       /\ logins[l].pc = "verify" => ~logins[l].seen.legacy

(* Once the account has left its legacy hash the password in force is       *)
(* always the one the user chose last; a deletion leaves none.              *)
ChosenPasswordStays == [][Settled => Settled' \/ user'.deleted]_vars

Revoked(s) == pairs[s].at = "revoked" /\ pairs[s].rt = "revoked"

(* A password change that says so, a deletion and a reset have revoked both *)
(* tokens of every pair stored before they arrived under the subject they   *)
(* look for.                                                                *)
SubjectSessionsEnd ==
  /\ \A c \in Changes : changes[c].pc = "done" /\ changes[c].clean =>
       \A s \in changes[c].before : pairs[s].sub = changes[c].sub => Revoked(s)
  /\ \A k \in Confirms : confirms[k].pc = "done" /\ confirms[k].clean =>
       \A s \in confirms[k].before : pairs[s].sub = "internal" => Revoked(s)

Consumed(k) == confirms[k].pc \in {"update", "revokeAt", "revokeRt", "done"}

(* However many confirmations race, a reset token lets one of them through. *)
OneResetPerToken ==
  \A k, m \in Confirms :
    Consumed(k) /\ Consumed(m) /\ confirms[k].token = confirms[m].token => k = m

(* The inductive invariant: the pairs, the reset tokens and the requests    *)
(* that use them.                                                           *)
PairFits(s) == pairs[s].at = "none" <=> pairs[s].rt = "none"

ChangeFits(c) ==
  /\ changes[c].before \subseteq Stored
  /\ changes[c].pc = "revokeRt" /\ changes[c].clean =>
       \A s \in changes[c].before :
         pairs[s].sub = changes[c].sub => pairs[s].at = "revoked"
  /\ changes[c].pc \in {"erase", "done"} /\ changes[c].clean =>
       \A s \in changes[c].before : pairs[s].sub = changes[c].sub => Revoked(s)

ConfirmFits(k) ==
  /\ confirms[k].before \subseteq Stored
  /\ confirms[k].pc # "idle" => confirms[k].token # None
  /\ Consumed(k) => tokens[confirms[k].token].status = "used"
  /\ confirms[k].pc = "revokeRt" /\ confirms[k].clean =>
       \A s \in confirms[k].before : pairs[s].sub = "internal" => pairs[s].at = "revoked"
  /\ confirms[k].pc = "done" /\ confirms[k].clean =>
       \A s \in confirms[k].before : pairs[s].sub = "internal" => Revoked(s)

SessionsFit ==
  /\ \A s \in Sessions : PairFits(s)
  /\ \A c \in Changes : ChangeFits(c)
  /\ \A k \in Confirms : ConfirmFits(k)
  /\ OneResetPerToken

(* The logins and the lock: until something crosses, one login at a time is *)
(* about to write them, what it has read is what the row holds, and what it *)
(* writes is the count.                                                     *)
Counting(l) == logins[l].writes \cap {"reset", "fail"} # {}

LoginFits(l) == logins[l].pc \in {"idle", "find", "verify"} => logins[l].writes = {}

Tracked(l) ==
  /\ logins[l].pc = "verify" /\ logins[l].seen.locked # Forever =>
       logins[l].seen.failed = user.failed /\ logins[l].seen.locked = user.locked
  /\ "fail" \in logins[l].writes => logins[l].failed = tally.n /\ logins[l].locked = Due
  /\ "reset" \in logins[l].writes => tally.n = 0

LockFits ==
  /\ now <= MaxTime
  /\ \A l \in Logins : LoginFits(l)
  /\ ~tally.crossed =>
       /\ \A l, m \in Logins : Unwritten(l) /\ Unwritten(m) => l = m
       /\ \A l \in Logins : Tracked(l)
       /\ (\A l \in Logins : ~Counting(l)) => Counted

IInv == TypeOK /\ SessionsFit /\ LockFits

(* "All existing sessions have been revoked": the answer to a password      *)
(* change and to a reset.                                                   *)
AllSessionsRevoked ==
  /\ \A c \in Changes :
       changes[c].kind = "change" /\ changes[c].pc = "done" /\ changes[c].clean =>
         \A s \in changes[c].before : Revoked(s)
  /\ \A k \in Confirms : confirms[k].pc = "done" /\ confirms[k].clean =>
       \A s \in confirms[k].before : Revoked(s)
=============================================================================
