-------------------------- MODULE UserAccountProofs --------------------------
(***************************************************************************)
(* Proofs about UserAccount, for any requests, reset tokens, pairs and     *)
(* passwords, any failed logins to start with, any lifetimes and any       *)
(* number of failing statements.                                           *)
(***************************************************************************)
EXTENDS UserAccount, TLAPS

-----------------------------------------------------------------------------
(* Only one request of its kind, or one pair, takes a step.                 *)
OnlyLogin(l) ==
  /\ logins' \in [Logins -> Login]
  /\ \A m \in Logins : m # l => logins'[m] = logins[m]

OnlyChange(c) ==
  /\ changes' \in [Changes -> Change]
  /\ \A d \in Changes : d # c => changes'[d] = changes[d]

OnlyConfirm(k) ==
  /\ confirms' \in [Confirms -> Confirm]
  /\ \A m \in Confirms : m # k => confirms'[m] = confirms[m]

LEMMA LoginPoint ==
  ASSUME TypeOK, NEW l \in Logins, NEW r \in Login, logins' = [logins EXCEPT ![l] = r]
  PROVE  OnlyLogin(l) /\ logins'[l] = r
BY DEF TypeOK, OnlyLogin

LEMMA ChangePoint ==
  ASSUME TypeOK, NEW c \in Changes, NEW r \in Change, changes' = [changes EXCEPT ![c] = r]
  PROVE  OnlyChange(c) /\ changes'[c] = r
BY DEF TypeOK, OnlyChange

LEMMA ConfirmPoint ==
  ASSUME TypeOK, NEW k \in Confirms, NEW r \in Confirm, confirms' = [confirms EXCEPT ![k] = r]
  PROVE  OnlyConfirm(k) /\ confirms'[k] = r
BY DEF TypeOK, OnlyConfirm

LEMMA FaultsType == ASSUME TypeOK, NoFault \/ Fault PROVE faults' \in Nat
BY DEF TypeOK, NoFault, Fault

(* Request c goes to l; dirty says that a revocation of it has failed.      *)
ChangeMoved(c, l, dirty) ==
  /\ OnlyChange(c)
  /\ changes'[c].pc = l
  /\ changes'[c].sub = changes[c].sub
  /\ changes'[c].before = changes[c].before
  /\ changes'[c].clean = IF dirty THEN FALSE ELSE changes[c].clean

ConfirmMoved(k, l, dirty) ==
  /\ OnlyConfirm(k)
  /\ confirms'[k].pc = l
  /\ confirms'[k].token = confirms[k].token
  /\ confirms'[k].before = confirms[k].before
  /\ confirms'[k].clean = IF dirty THEN FALSE ELSE confirms[k].clean

ChangePc == {"idle", "select", "update", "revokeAt", "revokeRt", "erase", "done", "failed"}

ConfirmPc == {"idle", "consume", "update", "revokeAt", "revokeRt", "done", "failed"}

LEMMA ChangeGoto ==
  ASSUME TypeOK, NEW c \in Changes, NEW l \in ChangePc, GotoChange(c, l)
  PROVE  ChangeMoved(c, l, FALSE)
<1> DEFINE rec == [changes[c] EXCEPT !.pc = l]
<1>1. changes[c] \in Change
  BY DEF TypeOK
<1>2. /\ rec \in Change /\ rec.pc = l /\ rec.sub = changes[c].sub
      /\ rec.before = changes[c].before /\ rec.clean = changes[c].clean
  BY <1>1 DEF Change, ChangePc
<1>3. changes' = [changes EXCEPT ![c] = rec]
  BY DEF TypeOK, GotoChange
<1> HIDE DEF rec
<1> QED BY <1>2, <1>3, ChangePoint DEF ChangeMoved

LEMMA ChangeDirty ==
  ASSUME TypeOK, NEW c \in Changes, NEW l \in ChangePc,
         changes' = [changes EXCEPT ![c].clean = FALSE, ![c].pc = l]
  PROVE  ChangeMoved(c, l, TRUE)
<1> DEFINE rec == [changes[c] EXCEPT !.clean = FALSE, !.pc = l]
<1>1. changes[c] \in Change
  BY DEF TypeOK
<1>2. /\ rec \in Change /\ rec.pc = l /\ rec.sub = changes[c].sub
      /\ rec.before = changes[c].before /\ rec.clean = FALSE
  BY <1>1 DEF Change, ChangePc
<1>3. changes' = [changes EXCEPT ![c] = rec]
  BY DEF TypeOK
<1> HIDE DEF rec
<1> QED BY <1>2, <1>3, ChangePoint DEF ChangeMoved

LEMMA ConfirmGoto ==
  ASSUME TypeOK, NEW k \in Confirms, NEW l \in ConfirmPc, GotoConfirm(k, l)
  PROVE  ConfirmMoved(k, l, FALSE)
<1> DEFINE rec == [confirms[k] EXCEPT !.pc = l]
<1>1. confirms[k] \in Confirm
  BY DEF TypeOK
<1>2. /\ rec \in Confirm /\ rec.pc = l /\ rec.token = confirms[k].token
      /\ rec.before = confirms[k].before /\ rec.clean = confirms[k].clean
  BY <1>1 DEF Confirm, ConfirmPc
<1>3. confirms' = [confirms EXCEPT ![k] = rec]
  BY DEF TypeOK, GotoConfirm
<1> HIDE DEF rec
<1> QED BY <1>2, <1>3, ConfirmPoint DEF ConfirmMoved

LEMMA ConfirmDirty ==
  ASSUME TypeOK, NEW k \in Confirms,
         confirms' = [confirms EXCEPT ![k].clean = FALSE, ![k].pc = "done"]
  PROVE  ConfirmMoved(k, "done", TRUE)
<1> DEFINE rec == [confirms[k] EXCEPT !.clean = FALSE, !.pc = "done"]
<1>1. confirms[k] \in Confirm
  BY DEF TypeOK
<1>2. /\ rec \in Confirm /\ rec.pc = "done" /\ rec.token = confirms[k].token
      /\ rec.before = confirms[k].before /\ rec.clean = FALSE
  BY <1>1 DEF Confirm
<1>3. confirms' = [confirms EXCEPT ![k] = rec]
  BY DEF TypeOK
<1> HIDE DEF rec
<1> QED BY <1>2, <1>3, ConfirmPoint DEF ConfirmMoved

-----------------------------------------------------------------------------
(* What every step does to the pairs: a stored pair stays stored, under its *)
(* subject, and what is revoked stays revoked.                              *)
PairsKeep ==
  /\ pairs' \in [Sessions -> Pair]
  /\ \A s \in Sessions :
       /\ PairFits(s)'
       /\ pairs[s].at # "none" => pairs'[s].at # "none" /\ pairs'[s].sub = pairs[s].sub
       /\ pairs[s].at = "revoked" => pairs'[s].at = "revoked"
       /\ pairs[s].rt = "revoked" => pairs'[s].rt = "revoked"

TokensKeep ==
  /\ tokens' \in [ResetTokens -> ResetToken]
  /\ \A t \in ResetTokens : tokens[t].status = "used" => tokens'[t].status = "used"

LEMMA PairsSame == ASSUME TypeOK, SessionsFit, pairs' = pairs PROVE PairsKeep
BY DEF TypeOK, SessionsFit, PairsKeep, PairFits

LEMMA TokensSame == ASSUME TypeOK, tokens' = tokens PROVE TokensKeep
BY DEF TypeOK, TokensKeep

LEMMA AccessRevoked ==
  ASSUME TypeOK, SessionsFit, NEW sub \in Subjects, RevokeAccessTokens(sub)
  PROVE  /\ PairsKeep
         /\ \A s \in Stored : pairs[s].sub = sub => pairs'[s].at = "revoked"
<1> DEFINE hit(s) == pairs[s].sub = sub /\ pairs[s].at = "live"
           rec(s) == [pairs[s] EXCEPT !.at = "revoked"]
<1>1. \A s \in Sessions : pairs[s] \in Pair /\ PairFits(s)
  BY DEF TypeOK, SessionsFit
<1>2. \A s \in Sessions : /\ rec(s) \in Pair /\ rec(s).at = "revoked"
                          /\ rec(s).rt = pairs[s].rt /\ rec(s).sub = pairs[s].sub
  BY <1>1 DEF Pair
<1>3. pairs' = [s \in Sessions |-> IF hit(s) THEN rec(s) ELSE pairs[s]]
  BY DEF RevokeAccessTokens
<1> HIDE DEF rec
<1>4. pairs' \in [Sessions -> Pair]
  BY <1>1, <1>2, <1>3
<1>5. \A s \in Sessions : pairs'[s] = IF hit(s) THEN rec(s) ELSE pairs[s]
  BY <1>3
<1>6. PairsKeep
  BY <1>1, <1>2, <1>4, <1>5 DEF PairsKeep, PairFits
<1>7. \A s \in Stored : pairs[s].sub = sub => pairs'[s].at = "revoked"
  BY <1>1, <1>2, <1>5 DEF Stored, Pair
<1> QED BY <1>6, <1>7

LEMMA RefreshRevoked ==
  ASSUME TypeOK, SessionsFit, NEW sub \in Subjects, RevokeRefreshTokens(sub)
  PROVE  /\ PairsKeep
         /\ \A s \in Stored : pairs[s].sub = sub => pairs'[s].rt = "revoked"
<1> DEFINE hit(s) == pairs[s].sub = sub /\ pairs[s].rt = "live"
           rec(s) == [pairs[s] EXCEPT !.rt = "revoked"]
<1>1. \A s \in Sessions : pairs[s] \in Pair /\ PairFits(s)
  BY DEF TypeOK, SessionsFit
<1>2. \A s \in Sessions : /\ rec(s) \in Pair /\ rec(s).rt = "revoked"
                          /\ rec(s).at = pairs[s].at /\ rec(s).sub = pairs[s].sub
  BY <1>1 DEF Pair
<1>3. pairs' = [s \in Sessions |-> IF hit(s) THEN rec(s) ELSE pairs[s]]
  BY DEF RevokeRefreshTokens
<1> HIDE DEF rec
<1>4. pairs' \in [Sessions -> Pair]
  BY <1>1, <1>2, <1>3
<1>5. \A s \in Sessions : pairs'[s] = IF hit(s) THEN rec(s) ELSE pairs[s]
  BY <1>3
<1>6. PairsKeep
  BY <1>1, <1>2, <1>4, <1>5 DEF PairsKeep, PairFits
<1>7. \A s \in Stored : pairs[s].sub = sub => pairs'[s].rt = "revoked"
  BY <1>1, <1>2, <1>5 DEF Stored, Pair, PairFits
<1> QED BY <1>6, <1>7

LEMMA PairStored ==
  ASSUME TypeOK, SessionsFit, NEW s \in Sessions, NEW sub \in Subjects, StorePair(s, sub)
  PROVE  PairsKeep
<1> DEFINE rec == [at |-> "live", rt |-> "live", sub |-> sub]
<1>1. rec \in Pair /\ rec.at = "live" /\ rec.rt = "live"
  BY DEF Pair
<1>2. pairs' = [pairs EXCEPT ![s] = rec] /\ pairs[s].at = "none"
  BY DEF StorePair
<1> HIDE DEF rec
<1>3. pairs' \in [Sessions -> Pair]
  BY <1>1, <1>2 DEF TypeOK
<1>4. /\ pairs'[s] = rec
      /\ \A u \in Sessions : u # s => pairs'[u] = pairs[u]
  BY <1>2 DEF TypeOK
<1> QED BY <1>1, <1>2, <1>3, <1>4 DEF PairsKeep, PairFits, SessionsFit

-----------------------------------------------------------------------------
(* Requests that take no step still fit.                                    *)
LEMMA ChangeKeeps ==
  ASSUME TypeOK, SessionsFit, PairsKeep, NEW c \in Changes, changes'[c] = changes[c]
  PROVE  ChangeFits(c)'
<1>1. ChangeFits(c)
  BY DEF SessionsFit
<1>2. \A s \in changes[c].before : s \in Sessions /\ pairs[s].at # "none"
  BY <1>1 DEF ChangeFits, Stored
<1> QED BY <1>1, <1>2 DEF ChangeFits, PairsKeep, Stored, Revoked

LEMMA ConfirmKeeps ==
  ASSUME TypeOK, SessionsFit, PairsKeep, TokensKeep, NEW k \in Confirms,
         confirms'[k] = confirms[k]
  PROVE  ConfirmFits(k)'
<1>1. ConfirmFits(k) /\ confirms[k] \in Confirm
  BY DEF SessionsFit, TypeOK
<1>2. \A s \in confirms[k].before : s \in Sessions /\ pairs[s].at # "none"
  BY <1>1 DEF ConfirmFits, Stored
<1>3. Consumed(k) => tokens'[confirms[k].token].status = "used"
  BY <1>1 DEF ConfirmFits, Consumed, TokensKeep, Confirm
<1> QED BY <1>1, <1>2, <1>3 DEF ConfirmFits, Consumed, PairsKeep, Stored, Revoked

(* A step of one change request, and of one confirmation.                   *)
LEMMA ChangeStep ==
  ASSUME TypeOK, SessionsFit, PairsKeep, NEW c \in Changes, OnlyChange(c), ChangeFits(c)',
         UNCHANGED <<tokens, confirms>>
  PROVE  SessionsFit'
<1>1. \A d \in Changes : ChangeFits(d)'
  BY ChangeKeeps DEF OnlyChange
<1>2. \A k \in Confirms : ConfirmFits(k)'
  BY ConfirmKeeps, TokensSame
<1> QED BY <1>1, <1>2 DEF SessionsFit, PairsKeep, OneResetPerToken, Consumed

LEMMA ConfirmStep ==
  ASSUME TypeOK, SessionsFit, PairsKeep, TokensKeep, NEW k \in Confirms, OnlyConfirm(k),
         ConfirmFits(k)', OneResetPerToken', changes' = changes
  PROVE  SessionsFit'
<1>1. \A d \in Changes : ChangeFits(d)'
  BY ChangeKeeps
<1>2. \A m \in Confirms : ConfirmFits(m)'
  BY ConfirmKeeps DEF OnlyConfirm
<1> QED BY <1>1, <1>2 DEF SessionsFit, PairsKeep

LEMMA SessionsSame ==
  ASSUME TypeOK, SessionsFit, PairsKeep, TokensKeep, UNCHANGED <<changes, confirms>>
  PROVE  SessionsFit'
<1>1. \A d \in Changes : ChangeFits(d)'
  BY ChangeKeeps
<1>2. \A m \in Confirms : ConfirmFits(m)'
  BY ConfirmKeeps
<1> QED BY <1>1, <1>2 DEF SessionsFit, PairsKeep, OneResetPerToken, Consumed

-----------------------------------------------------------------------------
(* One lemma per action on the pairs, the reset tokens and their requests.      *)
SessionsStep ==
  /\ SessionsFit'
  /\ pairs' \in [Sessions -> Pair]
  /\ tokens' \in [ResetTokens -> ResetToken]
  /\ changes' \in [Changes -> Change]
  /\ confirms' \in [Confirms -> Confirm]

LEMMA SessionsIdle ==
  ASSUME TypeOK, SessionsFit, UNCHANGED <<pairs, tokens, changes, confirms>>
  PROVE  SessionsStep
BY PairsSame, TokensSame, SessionsSame DEF SessionsStep, TypeOK

LEMMA StorePairSessions ==
  ASSUME TypeOK, SessionsFit, NEW s \in Sessions, NEW sub \in Subjects, StorePair(s, sub)
  PROVE  SessionsStep
<1>1. UNCHANGED <<tokens, changes, confirms>>
  BY DEF StorePair, requests
<1> QED BY <1>1, PairStored, TokensSame, SessionsSame DEF SessionsStep, TypeOK, PairsKeep

(* Where a change has gone, when it is not about to say that it has revoked *)
(* the pairs.                                                               *)
LEMMA ChangeOnItsWay ==
  ASSUME TypeOK, SessionsFit, NEW c \in Changes, NEW l \in ChangePc, NEW dirty \in BOOLEAN,
         ChangeMoved(c, l, dirty), UNCHANGED <<pairs, tokens, confirms>>,
         dirty \/ l \in {"update", "revokeAt", "failed"}
  PROVE  SessionsStep
<1>1. PairsKeep /\ ChangeFits(c)
  BY PairsSame DEF SessionsFit
<1>2. ChangeFits(c)'
  BY <1>1 DEF ChangeFits, ChangeMoved, Stored
<1> QED BY <1>1, <1>2, ChangeStep DEF ChangeMoved, OnlyChange, SessionsStep, TypeOK

LEMMA ReceiveChangeSessions ==
  ASSUME TypeOK, SessionsFit, NEW c \in Changes, NEW s \in Sessions,
         NEW old \in Passwords, NEW new \in Passwords, ReceiveChange(c, s, old, new)
  PROVE  SessionsStep
<1> DEFINE rec == [NoChange EXCEPT !.pc = "select", !.sub = pairs[s].sub, !.old = old,
                                   !.new = new, !.before = Stored]
<1>1. pairs[s].sub \in Subjects /\ Stored \in SUBSET Sessions
  BY DEF TypeOK, Pair, Stored
<1>2. rec \in Change /\ rec.pc = "select" /\ rec.before = Stored
  BY <1>1 DEF Change, NoChange, Subjects
<1>3. changes' = [changes EXCEPT ![c] = rec] /\ UNCHANGED <<pairs, tokens, confirms>>
  BY DEF ReceiveChange
<1> HIDE DEF rec
<1>4. OnlyChange(c) /\ changes'[c] = rec
  BY <1>2, <1>3, ChangePoint
<1>5. ChangeFits(c)'
  BY <1>2, <1>3, <1>4 DEF ChangeFits, Stored
<1> QED BY <1>3, <1>4, <1>5, PairsSame, ChangeStep DEF OnlyChange, SessionsStep, TypeOK

LEMMA ReceiveDeleteSessions ==
  ASSUME TypeOK, SessionsFit, NEW c \in Changes, NEW s \in Sessions, ReceiveDelete(c, s)
  PROVE  SessionsStep
<1> DEFINE rec == [NoChange EXCEPT !.pc = "revokeAt", !.kind = "delete",
                                   !.sub = pairs[s].sub, !.before = Stored]
<1>1. pairs[s].sub \in Subjects /\ Stored \in SUBSET Sessions
  BY DEF TypeOK, Pair, Stored
<1>2. rec \in Change /\ rec.pc = "revokeAt" /\ rec.before = Stored
  BY <1>1 DEF Change, NoChange, Subjects
<1>3. changes' = [changes EXCEPT ![c] = rec] /\ UNCHANGED <<pairs, tokens, confirms>>
  BY DEF ReceiveDelete
<1> HIDE DEF rec
<1>4. OnlyChange(c) /\ changes'[c] = rec
  BY <1>2, <1>3, ChangePoint
<1>5. ChangeFits(c)'
  BY <1>2, <1>3, <1>4 DEF ChangeFits, Stored
<1> QED BY <1>3, <1>4, <1>5, PairsSame, ChangeStep DEF OnlyChange, SessionsStep, TypeOK

LEMMA CheckOldPasswordSessions ==
  ASSUME TypeOK, SessionsFit, NEW c \in Changes, CheckOldPassword(c)
  PROVE  SessionsStep
<1>1. PICK l \in {"update", "failed"} : GotoChange(c, l)
  BY DEF CheckOldPassword
<1>2. UNCHANGED <<pairs, tokens, confirms>>
  BY DEF CheckOldPassword
<1>3. l \in ChangePc
  BY DEF ChangePc
<1> QED BY <1>1, <1>2, <1>3, ChangeGoto, ChangeOnItsWay

LEMMA UpdatePasswordSessions ==
  ASSUME TypeOK, SessionsFit, NEW c \in Changes, UpdatePassword(c)
  PROVE  SessionsStep
<1>1. PICK l \in {"revokeAt", "failed"} : GotoChange(c, l)
  BY DEF UpdatePassword
<1>2. UNCHANGED <<pairs, tokens, confirms>>
  BY DEF UpdatePassword
<1>3. l \in ChangePc
  BY DEF ChangePc
<1> QED BY <1>1, <1>2, <1>3, ChangeGoto, ChangeOnItsWay

LEMMA ChangeRevokesAccessSessions ==
  ASSUME TypeOK, SessionsFit, NEW c \in Changes, ChangeRevokesAccess(c)
  PROVE  SessionsStep
<1>1. /\ UNCHANGED <<tokens, confirms>>
      /\ ChangeFits(c) /\ changes[c] \in Change /\ changes[c].sub \in Subjects
  BY DEF ChangeRevokesAccess, SessionsFit, TypeOK, Change
<1>2. CASE RevokeAccessTokens(changes[c].sub) /\ GotoChange(c, "revokeRt")
  <2>1. ChangeMoved(c, "revokeRt", FALSE)
    BY <1>2, ChangeGoto DEF ChangePc
  <2>2. /\ PairsKeep
        /\ \A s \in Stored : pairs[s].sub = changes[c].sub => pairs'[s].at = "revoked"
    BY <1>1, <1>2, AccessRevoked
  <2>3. ChangeFits(c)'
    BY <1>1, <2>1, <2>2 DEF ChangeFits, ChangeMoved, PairsKeep, Stored
  <2> QED BY <1>1, <2>1, <2>2, <2>3, ChangeStep
          DEF ChangeMoved, OnlyChange, SessionsStep, TypeOK, PairsKeep
<1>3. CASE /\ changes' = [changes EXCEPT ![c].clean = FALSE,
                 ![c].pc = IF changes[c].kind = "change" THEN "revokeRt" ELSE "erase"]
           /\ pairs' = pairs
  <2> DEFINE l == IF changes[c].kind = "change" THEN "revokeRt" ELSE "erase"
  <2>1. l \in ChangePc
    BY DEF ChangePc
  <2>2. changes' = [changes EXCEPT ![c].clean = FALSE, ![c].pc = l]
    BY <1>3
  <2> HIDE DEF l
  <2> QED BY <1>1, <1>3, <2>1, <2>2, ChangeDirty, ChangeOnItsWay
<1> QED BY <1>2, <1>3 DEF ChangeRevokesAccess

LEMMA ChangeRevokesRefreshSessions ==
  ASSUME TypeOK, SessionsFit, NEW c \in Changes, ChangeRevokesRefresh(c)
  PROVE  SessionsStep
<1> DEFINE next == IF changes[c].kind = "change" THEN "done" ELSE "erase"
<1>1. /\ UNCHANGED <<tokens, confirms>> /\ changes[c].pc = "revokeRt"
      /\ ChangeFits(c) /\ changes[c] \in Change /\ changes[c].sub \in Subjects
  BY DEF ChangeRevokesRefresh, SessionsFit, TypeOK, Change
<1>2. next \in ChangePc /\ next \in {"done", "erase"}
  BY DEF ChangePc
<1>3. \/ RevokeRefreshTokens(changes[c].sub) /\ GotoChange(c, next)
      \/ /\ changes' = [changes EXCEPT ![c].clean = FALSE, ![c].pc = next]
         /\ pairs' = pairs
  BY DEF ChangeRevokesRefresh
<1> HIDE DEF next
<1>4. CASE RevokeRefreshTokens(changes[c].sub) /\ GotoChange(c, next)
  <2>1. ChangeMoved(c, next, FALSE)
    BY <1>2, <1>4, ChangeGoto
  <2>2. /\ PairsKeep
        /\ \A s \in Stored : pairs[s].sub = changes[c].sub => pairs'[s].rt = "revoked"
    BY <1>1, <1>4, RefreshRevoked
  <2>3. ChangeFits(c)'
    BY <1>1, <1>2, <2>1, <2>2 DEF ChangeFits, ChangeMoved, PairsKeep, Stored, Revoked
  <2> QED BY <1>1, <2>1, <2>2, <2>3, ChangeStep
          DEF ChangeMoved, OnlyChange, SessionsStep, TypeOK, PairsKeep
<1>5. CASE /\ changes' = [changes EXCEPT ![c].clean = FALSE, ![c].pc = next]
           /\ pairs' = pairs
  BY <1>1, <1>2, <1>5, ChangeDirty, ChangeOnItsWay
<1> QED BY <1>3, <1>4, <1>5

LEMMA EraseUserSessions ==
  ASSUME TypeOK, SessionsFit, NEW c \in Changes, EraseUser(c)
  PROVE  SessionsStep
<1>1. /\ UNCHANGED <<pairs, tokens, confirms>> /\ changes[c].pc = "erase"
      /\ ChangeFits(c) /\ PairsKeep
  BY PairsSame DEF EraseUser, SessionsFit
<1>2. CASE GotoChange(c, "failed")
  BY <1>1, <1>2, ChangeGoto, ChangeOnItsWay DEF ChangePc
<1>3. CASE GotoChange(c, "done")
  <2>1. ChangeMoved(c, "done", FALSE)
    BY <1>3, ChangeGoto DEF ChangePc
  <2>2. ChangeFits(c)'
    BY <1>1, <2>1 DEF ChangeFits, ChangeMoved, Stored, Revoked
  <2> QED BY <1>1, <2>1, <2>2, ChangeStep DEF ChangeMoved, OnlyChange, SessionsStep, TypeOK
<1> QED BY <1>2, <1>3 DEF EraseUser

LEMMA RequestResetSessions ==
  ASSUME TypeOK, SessionsFit, NEW t \in ResetTokens, RequestReset(t)
  PROVE  SessionsStep
<1> DEFINE rec == [status |-> "requested", exp |-> now + ResetLifetime]
<1>1. rec \in ResetToken
  BY AccountAssumption DEF ResetToken, TypeOK
<1>2. /\ tokens' = [tokens EXCEPT ![t] = rec] /\ tokens[t].status = "none"
      /\ UNCHANGED <<pairs, changes, confirms>>
  BY DEF RequestReset, requests
<1> HIDE DEF rec
<1>3. TokensKeep
  BY <1>1, <1>2 DEF TokensKeep, TypeOK
<1> QED BY <1>2, <1>3, PairsSame, SessionsSame DEF SessionsStep, TypeOK, TokensKeep

LEMMA StoreResetTokenSessions ==
  ASSUME TypeOK, SessionsFit, NEW t \in ResetTokens, StoreResetToken(t)
  PROVE  SessionsStep
<1>1. PICK status \in {"unused", "lost"} : tokens' = [tokens EXCEPT ![t].status = status]
  BY DEF StoreResetToken
<1>2. tokens[t].status = "requested" /\ UNCHANGED <<pairs, changes, confirms>>
  BY DEF StoreResetToken, requests
<1> DEFINE rec == [tokens[t] EXCEPT !.status = status]
<1>3. rec \in ResetToken
  BY DEF ResetToken, TypeOK
<1>4. tokens' = [tokens EXCEPT ![t] = rec]
  BY <1>1 DEF TypeOK
<1> HIDE DEF rec
<1>5. TokensKeep
  BY <1>2, <1>3, <1>4 DEF TokensKeep, TypeOK
<1> QED BY <1>2, <1>5, PairsSame, SessionsSame DEF SessionsStep, TypeOK, TokensKeep

(* A confirmation that moves on without having consumed a token just now.   *)
LEMMA ConfirmSettles ==
  ASSUME TypeOK, SessionsFit, PairsKeep, NEW k \in Confirms, NEW l \in ConfirmPc,
         NEW dirty \in BOOLEAN, ConfirmMoved(k, l, dirty), ConfirmFits(k)',
         l = "failed" \/ Consumed(k), UNCHANGED <<tokens, changes>>
  PROVE  SessionsStep
<1>1. OneResetPerToken'
  BY DEF SessionsFit, OneResetPerToken, Consumed, ConfirmMoved, OnlyConfirm
<1> QED BY <1>1, TokensSame, ConfirmStep
        DEF ConfirmMoved, OnlyConfirm, SessionsStep, TypeOK, PairsKeep

LEMMA ReceiveConfirmSessions ==
  ASSUME TypeOK, SessionsFit, NEW k \in Confirms, NEW t \in ResetTokens,
         NEW new \in Passwords, ReceiveConfirm(k, t, new)
  PROVE  SessionsStep
<1> DEFINE rec == [NoConfirm EXCEPT !.pc = "consume", !.token = t, !.at = now, !.new = new,
                                    !.before = Stored]
<1>1. Stored \in SUBSET Sessions
  BY DEF Stored
<1>2. rec \in Confirm /\ rec.pc = "consume" /\ rec.token = t /\ rec.before = Stored
  BY <1>1 DEF Confirm, NoConfirm, TypeOK
<1>3. confirms' = [confirms EXCEPT ![k] = rec] /\ UNCHANGED <<pairs, tokens, changes>>
  BY DEF ReceiveConfirm
<1>4. tokens[t].status # "none"
  BY DEF ReceiveConfirm
<1> HIDE DEF rec
<1>5. OnlyConfirm(k) /\ confirms'[k] = rec
  BY <1>2, <1>3, ConfirmPoint
<1>6. t # None
  BY AccountAssumption
<1>7. OneResetPerToken'
  BY <1>2, <1>5 DEF SessionsFit, OneResetPerToken, Consumed, OnlyConfirm
<1>8. ConfirmFits(k)'
  BY <1>2, <1>3, <1>5, <1>6 DEF ConfirmFits, Stored, Consumed
<1> QED BY <1>3, <1>5, <1>7, <1>8, PairsSame, TokensSame, ConfirmStep
        DEF OnlyConfirm, SessionsStep, TypeOK

LEMMA ConsumeSessions ==
  ASSUME TypeOK, SessionsFit, NEW k \in Confirms, ConsumeResetToken(k)
  PROVE  SessionsStep
<1>1. /\ UNCHANGED <<pairs, changes>> /\ PairsKeep /\ confirms[k].pc = "consume"
      /\ ConfirmFits(k) /\ confirms[k] \in Confirm
  BY PairsSame DEF ConsumeResetToken, SessionsFit, TypeOK
<1>2. CASE GotoConfirm(k, "failed") /\ tokens' = tokens
  <2>1. ConfirmMoved(k, "failed", FALSE)
    BY <1>2, ConfirmGoto DEF ConfirmPc
  <2>2. ConfirmFits(k)'
    BY <1>1, <2>1 DEF ConfirmFits, ConfirmMoved, Consumed, Stored
  <2> QED BY <1>1, <1>2, <2>1, <2>2, ConfirmSettles DEF ConfirmPc
<1>3. CASE /\ UsableToken(k) /\ GotoConfirm(k, "update")
           /\ tokens' = [tokens EXCEPT ![confirms[k].token].status = "used"]
  <2> DEFINE t == confirms[k].token
             rec == [tokens[t] EXCEPT !.status = "used"]
  <2>1. t \in ResetTokens
    BY <1>1 DEF ConfirmFits, Confirm
  <2>2. tokens[t] \in ResetToken /\ tokens[t].status = "unused"
    BY <1>3, <2>1 DEF TypeOK, UsableToken
  <2>3. rec \in ResetToken /\ rec.status = "used"
    BY <2>2 DEF ResetToken
  <2>4. tokens' = [tokens EXCEPT ![t] = rec]
    BY <1>3 DEF TypeOK
  <2>5. ConfirmMoved(k, "update", FALSE)
    BY <1>3, ConfirmGoto DEF ConfirmPc
  <2> HIDE DEF t, rec
  <2>6. TokensKeep /\ tokens'[t].status = "used"
    BY <2>1, <2>3, <2>4 DEF TokensKeep, TypeOK
  <2>7. ConfirmFits(k)'
    BY <1>1, <2>5, <2>6 DEF ConfirmFits, ConfirmMoved, Consumed, Stored, t
  <2>8. \A m \in Confirms : Consumed(m) => confirms[m].token # t
    BY <2>2 DEF SessionsFit, ConfirmFits
  <2>9. OneResetPerToken'
    BY <2>5, <2>8 DEF SessionsFit, OneResetPerToken, Consumed, ConfirmMoved, OnlyConfirm, t
  <2> QED BY <1>1, <2>5, <2>6, <2>7, <2>9, ConfirmStep
          DEF ConfirmMoved, OnlyConfirm, SessionsStep, TypeOK, PairsKeep, TokensKeep
<1> QED BY <1>2, <1>3 DEF ConsumeResetToken

LEMMA ResetPasswordSessions ==
  ASSUME TypeOK, SessionsFit, NEW k \in Confirms, ResetPassword(k)
  PROVE  SessionsStep
<1>1. /\ UNCHANGED <<pairs, tokens, changes>> /\ PairsKeep /\ confirms[k].pc = "update"
      /\ ConfirmFits(k)
  BY PairsSame DEF ResetPassword, SessionsFit
<1>2. PICK l \in {"revokeAt", "failed"} : GotoConfirm(k, l)
  BY DEF ResetPassword
<1>3. l \in ConfirmPc
  BY DEF ConfirmPc
<1>4. ConfirmMoved(k, l, FALSE)
  BY <1>2, <1>3, ConfirmGoto
<1>5. ConfirmFits(k)'
  BY <1>1, <1>4 DEF ConfirmFits, ConfirmMoved, Consumed, Stored
<1> QED BY <1>1, <1>3, <1>4, <1>5, ConfirmSettles DEF Consumed

LEMMA ConfirmRevokesAccessSessions ==
  ASSUME TypeOK, SessionsFit, NEW k \in Confirms, ConfirmRevokesAccess(k)
  PROVE  SessionsStep
<1>1. UNCHANGED <<tokens, changes>> /\ confirms[k].pc = "revokeAt" /\ ConfirmFits(k)
  BY DEF ConfirmRevokesAccess, SessionsFit
<1>2. CASE RevokeAccessTokens("internal") /\ GotoConfirm(k, "revokeRt")
  <2>1. ConfirmMoved(k, "revokeRt", FALSE)
    BY <1>2, ConfirmGoto DEF ConfirmPc
  <2>2. /\ PairsKeep
        /\ \A s \in Stored : pairs[s].sub = "internal" => pairs'[s].at = "revoked"
    BY <1>2, AccessRevoked DEF Subjects
  <2>3. ConfirmFits(k)'
    BY <1>1, <2>1, <2>2 DEF ConfirmFits, ConfirmMoved, Consumed, PairsKeep, Stored
  <2> QED BY <1>1, <2>1, <2>2, <2>3, ConfirmSettles DEF Consumed, ConfirmPc
<1>3. CASE /\ confirms' = [confirms EXCEPT ![k].clean = FALSE, ![k].pc = "done"]
           /\ pairs' = pairs
  <2>1. ConfirmMoved(k, "done", TRUE) /\ PairsKeep
    BY <1>3, ConfirmDirty, PairsSame
  <2>2. ConfirmFits(k)'
    BY <1>1, <1>3, <2>1 DEF ConfirmFits, ConfirmMoved, Consumed, Stored
  <2> QED BY <1>1, <2>1, <2>2, ConfirmSettles DEF Consumed, ConfirmPc
<1> QED BY <1>2, <1>3 DEF ConfirmRevokesAccess

LEMMA ConfirmRevokesRefreshSessions ==
  ASSUME TypeOK, SessionsFit, NEW k \in Confirms, ConfirmRevokesRefresh(k)
  PROVE  SessionsStep
<1>1. UNCHANGED <<tokens, changes>> /\ confirms[k].pc = "revokeRt" /\ ConfirmFits(k)
  BY DEF ConfirmRevokesRefresh, SessionsFit
<1>2. CASE RevokeRefreshTokens("internal") /\ GotoConfirm(k, "done")
  <2>1. ConfirmMoved(k, "done", FALSE)
    BY <1>2, ConfirmGoto DEF ConfirmPc
  <2>2. /\ PairsKeep
        /\ \A s \in Stored : pairs[s].sub = "internal" => pairs'[s].rt = "revoked"
    BY <1>2, RefreshRevoked DEF Subjects
  <2>3. ConfirmFits(k)'
    BY <1>1, <2>1, <2>2 DEF ConfirmFits, ConfirmMoved, Consumed, PairsKeep, Stored, Revoked
  <2> QED BY <1>1, <2>1, <2>2, <2>3, ConfirmSettles DEF Consumed, ConfirmPc
<1>3. CASE /\ confirms' = [confirms EXCEPT ![k].clean = FALSE, ![k].pc = "done"]
           /\ pairs' = pairs
  <2>1. ConfirmMoved(k, "done", TRUE) /\ PairsKeep
    BY <1>3, ConfirmDirty, PairsSame
  <2>2. ConfirmFits(k)'
    BY <1>1, <1>3, <2>1 DEF ConfirmFits, ConfirmMoved, Consumed, Stored
  <2> QED BY <1>1, <2>1, <2>2, ConfirmSettles DEF Consumed, ConfirmPc
<1> QED BY <1>2, <1>3 DEF ConfirmRevokesRefresh

-----------------------------------------------------------------------------
(* The row of the user and the history.                                     *)
Tally == [n: Nat, at: Nat, crossed: BOOLEAN]

LEMMA UserPassword ==
  ASSUME TypeOK, NEW pw \in Passwords \cup {None}, user' = [user EXCEPT !.pw = pw, !.legacy = FALSE]
  PROVE  /\ user' \in User
         /\ user'.failed = user.failed /\ user'.locked = user.locked
         /\ user'.pw = pw /\ user'.legacy = FALSE
BY DEF TypeOK, User

LEMMA UserErased ==
  ASSUME TypeOK, user' = [user EXCEPT !.pw = None, !.legacy = TRUE, !.deleted = TRUE]
  PROVE  /\ user' \in User
         /\ user'.failed = user.failed /\ user'.locked = user.locked
         /\ user'.deleted
<1>1. user \in User
  BY DEF TypeOK
<1>2. [user EXCEPT !.pw = None, !.legacy = TRUE, !.deleted = TRUE] \in User
  BY <1>1 DEF User
<1>3. user'.failed = user.failed /\ user'.locked = user.locked /\ user'.deleted = TRUE
  BY <1>1 DEF User
<1> QED BY <1>2, <1>3

LEMMA UserLock ==
  ASSUME TypeOK, NEW n \in Nat, NEW t \in Nat, user' = [user EXCEPT !.failed = n, !.locked = t]
  PROVE  /\ user' \in User
         /\ user'.failed = n /\ user'.locked = t
         /\ user'.pw = user.pw /\ user'.legacy = user.legacy
BY DEF TypeOK, User

LEMMA UserLockOnly ==
  ASSUME TypeOK, NEW t \in Nat, user' = [user EXCEPT !.locked = t]
  PROVE  /\ user' \in User
         /\ user'.failed = user.failed /\ user'.locked = t
         /\ user'.pw = user.pw /\ user'.legacy = user.legacy
BY DEF TypeOK, User

LEMMA TallyCross ==
  ASSUME TypeOK, NEW b \in BOOLEAN, Cross(b)
  PROVE  /\ tally' \in Tally
         /\ tally'.n = tally.n /\ tally'.at = tally.at
         /\ tally'.crossed <=> tally.crossed \/ b
<1>1. tally \in Tally
  BY DEF TypeOK, Tally
<1> DEFINE x == tally.crossed \/ b
<1>2. x \in BOOLEAN /\ tally' = [tally EXCEPT !.crossed = x]
  BY DEF Cross
<1>3. x <=> tally.crossed \/ b
  OBVIOUS
<1> HIDE DEF x
<1>4. /\ tally' \in Tally /\ tally'.n = tally.n /\ tally'.at = tally.at
      /\ tally'.crossed = x
  BY <1>1, <1>2 DEF Tally
<1> QED BY <1>3, <1>4

LEMMA TallyReset ==
  ASSUME TypeOK, tally' = [tally EXCEPT !.n = 0]
  PROVE  tally' \in Tally /\ tally'.n = 0 /\ tally'.crossed = tally.crossed
BY DEF TypeOK, Tally

LEMMA TallyMiss ==
  ASSUME TypeOK, tally' = [tally EXCEPT !.n = @ + 1, !.at = now]
  PROVE  /\ tally' \in Tally
         /\ tally'.n = tally.n + 1 /\ tally'.at = now /\ tally'.crossed = tally.crossed
<1>1. tally \in Tally /\ now \in Nat
  BY DEF TypeOK, Tally
<1> DEFINE n == tally.n + 1
<1>2. n \in Nat /\ tally' = [tally EXCEPT !.n = n, !.at = now]
  BY <1>1 DEF Tally
<1> HIDE DEF n
<1>3. /\ tally' \in Tally /\ tally'.n = n
      /\ tally'.at = now /\ tally'.crossed = tally.crossed
  BY <1>1, <1>2 DEF Tally
<1> QED BY <1>3 DEF n

(* The lock the code computes is the one that is due.                       *)
LEMMA LockIsDue ==
  ASSUME NEW n \in Nat
  PROVE  Minutes(n) = LockMinutes[n] /\ Minutes(n) \in 0..60
BY DEF Minutes, LockMinutes

LEMMA LockedUntilType ==
  ASSUME NEW n \in Nat, NEW t \in Nat
  PROVE  LockedUntil(n, t) \in Nat
BY LockIsDue DEF LockedUntil

-----------------------------------------------------------------------------
(* The effect of each action on the logins.                                 *)
LoginPc == {"idle", "find", "verify", "accepted", "refused"}

Writes == {"reset", "rehash", "fail"}

LEMMA ReceiveLoginEffect ==
  ASSUME TypeOK, NEW l \in Logins, NEW guess \in Passwords, ReceiveLogin(l, guess)
  PROVE  /\ OnlyLogin(l) /\ logins[l].pc = "idle" /\ logins'[l].pc = "find"
         /\ logins'[l].writes = logins[l].writes
<1> DEFINE rec == [logins[l] EXCEPT !.pc = "find", !.guess = guess]
<1>1. logins[l] \in Login /\ logins[l].pc = "idle"
  BY DEF TypeOK, ReceiveLogin
<1>2. rec \in Login /\ rec.pc = "find" /\ rec.writes = logins[l].writes
  BY <1>1 DEF Login
<1>3. logins' = [logins EXCEPT ![l] = rec]
  BY DEF TypeOK, ReceiveLogin
<1> HIDE DEF rec
<1> QED BY <1>1, <1>2, <1>3, LoginPoint

LEMMA FindUserEffect ==
  ASSUME TypeOK, NEW l \in Logins, FindUser(l)
  PROVE  /\ OnlyLogin(l) /\ logins[l].pc = "find"
         /\ logins'[l].writes = logins[l].writes
         /\ \/ /\ logins'[l].pc = "verify" /\ Cross(Busy)
               /\ logins'[l].seen.failed = user.failed
               /\ logins'[l].seen.locked = user.locked
               /\ logins'[l].seen.legacy = user.legacy
            \/ logins'[l].pc = "refused" /\ tally' = tally
<1>1. logins[l] \in Login /\ logins[l].pc = "find" /\ user \in User
  BY DEF TypeOK, FindUser
<1>2. CASE /\ logins' = [logins EXCEPT ![l].pc = "verify",
                  ![l].seen = [pw |-> user.pw, legacy |-> user.legacy,
                               failed |-> user.failed, locked |-> user.locked]]
           /\ Cross(Busy)
  <2> DEFINE seen == [pw |-> user.pw, legacy |-> user.legacy,
                      failed |-> user.failed, locked |-> user.locked]
             rec == [logins[l] EXCEPT !.pc = "verify", !.seen = seen]
  <2>1. seen \in Seen
    BY <1>1 DEF Seen, User
  <2>2. /\ seen.failed = user.failed /\ seen.locked = user.locked
        /\ seen.legacy = user.legacy
    OBVIOUS
  <2>3. logins' = [logins EXCEPT ![l] = rec]
    BY <1>2 DEF TypeOK
  <2> HIDE DEF seen
  <2>4. rec \in Login /\ rec.pc = "verify" /\ rec.seen = seen /\ rec.writes = logins[l].writes
    BY <1>1, <2>1 DEF Login
  <2> HIDE DEF rec
  <2>5. OnlyLogin(l) /\ logins'[l] = rec
    BY <2>3, <2>4, LoginPoint
  <2> QED BY <1>1, <1>2, <2>2, <2>4, <2>5
<1>3. CASE logins' = [logins EXCEPT ![l].pc = "refused"] /\ tally' = tally
  <2> DEFINE rec == [logins[l] EXCEPT !.pc = "refused"]
  <2>1. rec \in Login /\ rec.pc = "refused" /\ rec.writes = logins[l].writes
    BY <1>1 DEF Login
  <2>2. logins' = [logins EXCEPT ![l] = rec]
    BY <1>3 DEF TypeOK
  <2> HIDE DEF rec
  <2> QED BY <1>1, <1>3, <2>1, <2>2, LoginPoint
<1> QED BY <1>2, <1>3 DEF FindUser

LEMMA ValidateUserEffect ==
  ASSUME TypeOK, NEW l \in Logins, ValidateUser(l)
  PROVE  /\ OnlyLogin(l) /\ logins[l].pc = "verify"
         /\ logins'[l].pc \in {"accepted", "refused"}
         /\ "rehash" \in logins'[l].writes => logins[l].seen.legacy
         /\ \/ logins'[l].writes = {} /\ tally' = tally /\ logins[l].seen.locked > now
            \/ /\ logins[l].seen.locked <= now
               /\ "fail" \notin logins'[l].writes
               /\ "reset" \in logins'[l].writes <=> logins[l].seen.failed > 0
               /\ tally' = [tally EXCEPT !.n = 0]
            \/ /\ logins[l].seen.locked <= now
               /\ logins'[l].writes = {"fail"}
               /\ logins'[l].failed = logins[l].seen.failed + 1
               /\ logins'[l].locked = LockedUntil(logins[l].seen.failed + 1, now)
               /\ tally' = [tally EXCEPT !.n = @ + 1, !.at = now]
<1>1. /\ logins[l] \in Login /\ logins[l].pc = "verify" /\ now \in Nat
      /\ logins[l].seen.failed \in Nat /\ logins[l].guess \in Passwords \cup {None}
  BY DEF TypeOK, ValidateUser, Login, Seen
<1>2. NoLogin \in Login /\ NoLogin.writes = {}
  BY DEF Login, NoLogin, NotSeen, Seen
<1>3. CASE logins[l].seen.locked > now /\ Refuse(l)
  <2> DEFINE rec == [NoLogin EXCEPT !.pc = "refused"]
  <2>1. rec \in Login /\ rec.pc = "refused" /\ rec.writes = {}
    BY <1>2 DEF Login
  <2>2. logins' = [logins EXCEPT ![l] = rec] /\ tally' = tally
    BY <1>3 DEF Refuse
  <2> HIDE DEF rec
  <2> QED BY <1>1, <1>3, <2>1, <2>2, LoginPoint
<1>4. CASE logins[l].seen.locked <= now /\ Accept(l)
  <2> DEFINE w == {x \in {"reset", "rehash"} :
                     IF x = "reset" THEN logins[l].seen.failed > 0 ELSE logins[l].seen.legacy}
             rec == [NoLogin EXCEPT !.pc = "accepted", !.guess = logins[l].guess, !.writes = w]
  <2>1. /\ w \in SUBSET Writes /\ "fail" \notin w
        /\ "reset" \in w <=> logins[l].seen.failed > 0
        /\ "rehash" \in w => logins[l].seen.legacy
    BY DEF Writes
  <2>2. logins' = [logins EXCEPT ![l] = rec] /\ tally' = [tally EXCEPT !.n = 0]
    BY <1>4 DEF Accept
  <2> HIDE DEF w
  <2>3. rec \in Login /\ rec.pc = "accepted" /\ rec.writes = w
    BY <1>1, <1>2, <2>1 DEF Login, Writes
  <2> HIDE DEF rec
  <2>4. OnlyLogin(l) /\ logins'[l] = rec
    BY <2>2, <2>3, LoginPoint
  <2> QED BY <1>1, <1>4, <2>1, <2>2, <2>3, <2>4
<1>5. CASE logins[l].seen.locked <= now /\ Miss(l)
  <2> DEFINE n == logins[l].seen.failed + 1
             t == LockedUntil(n, now)
             rec == [NoLogin EXCEPT !.pc = "refused", !.writes = {"fail"},
                                    !.failed = n, !.locked = t]
  <2>1. n \in Nat
    BY <1>1
  <2>2. t \in Nat
    BY <1>1, <2>1, LockedUntilType
  <2>3. /\ logins' = [logins EXCEPT ![l] = rec]
        /\ tally' = [tally EXCEPT !.n = @ + 1, !.at = now]
    BY <1>5 DEF Miss
  <2> HIDE DEF n, t
  <2>4. /\ rec \in Login /\ rec.pc = "refused" /\ rec.writes = {"fail"}
        /\ rec.failed = n /\ rec.locked = t
    BY <1>2, <2>1, <2>2 DEF Login
  <2> HIDE DEF rec
  <2>5. OnlyLogin(l) /\ logins'[l] = rec
    BY <2>3, <2>4, LoginPoint
  <2> QED BY <1>1, <1>5, <2>3, <2>4, <2>5 DEF n, t
<1> QED BY <1>3, <1>4, <1>5 DEF ValidateUser

LEMMA SentEffect ==
  ASSUME TypeOK, NEW l \in Logins, NEW w \in Writes, Sent(l, w)
  PROVE  /\ OnlyLogin(l) /\ w \in logins[l].writes
         /\ logins'[l].writes = logins[l].writes \ {w}
         /\ logins'[l].pc = logins[l].pc /\ logins'[l].seen = logins[l].seen
         /\ logins'[l].failed = logins[l].failed /\ logins'[l].locked = logins[l].locked
<1> DEFINE x == logins[l].writes \ {w}
           rec == [logins[l] EXCEPT !.writes = x]
<1>1. logins[l] \in Login /\ w \in logins[l].writes
  BY DEF TypeOK, Sent
<1>2. x \in SUBSET Writes
  BY <1>1 DEF Login, Writes
<1>3. logins' = [logins EXCEPT ![l] = rec]
  BY DEF TypeOK, Sent
<1> HIDE DEF x
<1>4. /\ rec \in Login /\ rec.writes = x /\ rec.pc = logins[l].pc
      /\ rec.seen = logins[l].seen
      /\ rec.failed = logins[l].failed /\ rec.locked = logins[l].locked
  BY <1>1, <1>2 DEF Login, Writes
<1> HIDE DEF rec
<1> QED BY <1>1, <1>3, <1>4, LoginPoint DEF x

-----------------------------------------------------------------------------
(* What every step does to the row, the logins and the history.             *)
AccountStep ==
  /\ LockFits'
  /\ now' \in Nat
  /\ user' \in User
  /\ logins' \in [Logins -> Login]
  /\ tally' \in Tally

LockSame == user'.failed = user.failed /\ user'.locked = user.locked

(* No lock is due when nothing is counted.                                  *)
LEMMA NothingDue == LockMinutes[0] = 0
BY DEF LockMinutes

LEMMA DueSame ==
  ASSUME tally'.n = tally.n, tally'.at = tally.at
  PROVE  Due' = Due
BY DEF Due

LEMMA CountedSame ==
  ASSUME LockSame, tally'.n = tally.n, tally'.at = tally.at
  PROVE  Counted' <=> Counted
BY DueSame DEF Counted, LockSame

(* The logins stay, and the row but for its password.                       *)
LEMMA LockKeep ==
  ASSUME TypeOK, LockFits, now' \in Nat, now' <= MaxTime, UNCHANGED <<logins, tally>>,
         user' \in User, LockSame
  PROVE  AccountStep
<1>1. Due' = Due /\ (Counted' <=> Counted)
  BY DueSame, CountedSame
<1>2. ASSUME NEW l \in Logins
      PROVE  /\ LoginFits(l)' <=> LoginFits(l)
             /\ Unwritten(l)' <=> Unwritten(l)
             /\ Counting(l)' <=> Counting(l)
             /\ Tracked(l)' <=> Tracked(l)
  BY <1>1 DEF LoginFits, Unwritten, Counting, Tracked, LockSame
<1> QED BY <1>1, <1>2 DEF AccountStep, LockFits, TypeOK, Tally

LEMMA LoginOthers ==
  ASSUME TypeOK, NEW l \in Logins, OnlyLogin(l), NEW m \in Logins, m # l
  PROVE  /\ LoginFits(m)' <=> LoginFits(m)
         /\ Unwritten(m)' <=> Unwritten(m)
         /\ Counting(m)' <=> Counting(m)
BY DEF OnlyLogin, LoginFits, Unwritten, Counting

LEMMA TrackedOthers ==
  ASSUME TypeOK, NEW l \in Logins, OnlyLogin(l), NEW m \in Logins, m # l,
         \/ LockSame /\ tally'.n = tally.n /\ tally'.at = tally.at
         \/ ~Unwritten(m)
  PROVE  Tracked(m) => Tracked(m)'
BY DueSame DEF OnlyLogin, Tracked, LockSame, Unwritten

(* A login goes on that is not about to write anything it was not before.   *)
LEMMA LoginQuiet ==
  ASSUME TypeOK, LockFits, NEW l \in Logins, OnlyLogin(l), now' = now, tally' = tally,
         user' \in User, LockSame,
         logins'[l].pc # "verify",
         logins'[l].writes \cap {"reset", "fail"} = logins[l].writes \cap {"reset", "fail"},
         Counting(l) => UNCHANGED <<logins[l].failed, logins[l].locked>>,
         LoginFits(l)'
  PROVE  AccountStep
<1>1. Due' = Due /\ (Counted' <=> Counted)
  BY DueSame, CountedSame
<1>2. (Counting(l)' <=> Counting(l)) /\ (Unwritten(l)' => Unwritten(l))
  BY DEF Counting, Unwritten
<1>3. Tracked(l) => Tracked(l)'
  BY <1>1 DEF Tracked, Counting
<1>4. now' <= MaxTime /\ \A m \in Logins : LoginFits(m)'
  BY LoginOthers DEF LockFits
<1>5. ASSUME ~tally'.crossed
      PROVE  /\ \A m, k \in Logins : Unwritten(m)' /\ Unwritten(k)' => m = k
             /\ \A m \in Logins : Tracked(m)'
             /\ (\A m \in Logins : ~Counting(m)') => Counted'
  <2>1. /\ \A m, k \in Logins : Unwritten(m) /\ Unwritten(k) => m = k
        /\ \A m \in Logins : Tracked(m)
        /\ (\A m \in Logins : ~Counting(m)) => Counted
    BY <1>5 DEF LockFits
  <2>2. \A m \in Logins : Unwritten(m)' => Unwritten(m)
    BY <1>2, LoginOthers
  <2>3. \A m \in Logins : Counting(m)' <=> Counting(m)
    BY <1>2, LoginOthers
  <2>4. \A m \in Logins : Tracked(m)'
    BY <1>3, <2>1, TrackedOthers
  <2> QED BY <1>1, <2>1, <2>2, <2>3, <2>4
<1> QED BY <1>4, <1>5 DEF AccountStep, LockFits, TypeOK, Tally, OnlyLogin

(* Something has crossed.                                                   *)
LEMMA LoginCrosses ==
  ASSUME TypeOK, LockFits, NEW l \in Logins, OnlyLogin(l), now' = now,
         user' \in User, tally' \in Tally, tally'.crossed, LoginFits(l)'
  PROVE  AccountStep
<1>1. now' <= MaxTime /\ \A m \in Logins : LoginFits(m)'
  BY LoginOthers DEF LockFits
<1> QED BY <1>1 DEF AccountStep, LockFits, TypeOK, OnlyLogin

(* The only login that may write goes on.                                   *)
LEMMA LoginAlone ==
  ASSUME TypeOK, LockFits, NEW l \in Logins, OnlyLogin(l), now' = now,
         user' \in User, tally' \in Tally, LoginFits(l)',
         ~tally'.crossed =>
           /\ \A m \in Logins : Unwritten(m) => m = l
           /\ Tracked(l)'
           /\ ~Counting(l)' => Counted'
  PROVE  AccountStep
<1>1. now' <= MaxTime /\ \A m \in Logins : LoginFits(m)'
  BY LoginOthers DEF LockFits
<1>2. ASSUME ~tally'.crossed
      PROVE  /\ \A m, k \in Logins : Unwritten(m)' /\ Unwritten(k)' => m = k
             /\ \A m \in Logins : Tracked(m)'
             /\ (\A m \in Logins : ~Counting(m)') => Counted'
  <2>1. \A m \in Logins : m # l => ~Unwritten(m) /\ ~Unwritten(m)'
    BY <1>2, LoginOthers
  <2>2. ASSUME NEW m \in Logins, m # l
        PROVE  Tracked(m)'
    BY <2>1, <2>2 DEF Tracked, Unwritten, OnlyLogin
  <2> QED BY <1>2, <2>1, <2>2
<1> QED BY <1>1, <1>2 DEF AccountStep, LockFits, TypeOK, OnlyLogin

LEMMA ReceiveLoginAccount ==
  ASSUME TypeOK, LockFits, NEW l \in Logins, NEW guess \in Passwords, ReceiveLogin(l, guess)
  PROVE  AccountStep
<1>1. UNCHANGED <<now, user, tally>> /\ user' \in User /\ LockSame
  BY DEF ReceiveLogin, TypeOK, LockSame
<1>2. LoginFits(l) /\ logins[l].writes = {}
  BY ReceiveLoginEffect DEF LockFits, LoginFits
<1> QED BY <1>1, <1>2, ReceiveLoginEffect, LoginQuiet DEF LoginFits, Counting

LEMMA FindUserAccount ==
  ASSUME TypeOK, LockFits, NEW l \in Logins, FindUser(l)
  PROVE  AccountStep
<1>1. UNCHANGED <<now, user>> /\ user' \in User /\ LockSame
  BY DEF FindUser, TypeOK, LockSame
<1>2. /\ OnlyLogin(l) /\ logins'[l].writes = {} /\ logins[l].writes = {}
      /\ LoginFits(l)'
  BY FindUserEffect DEF LockFits, LoginFits
<1>3. CASE logins'[l].pc = "refused" /\ tally' = tally
  BY <1>1, <1>2, <1>3, LoginQuiet DEF Counting
<1>4. CASE /\ logins'[l].pc = "verify" /\ Cross(Busy)
           /\ logins'[l].seen.failed = user.failed
           /\ logins'[l].seen.locked = user.locked
  <2>1. Busy \in BOOLEAN
    BY DEF Busy
  <2>2. /\ tally' \in Tally /\ tally'.n = tally.n /\ tally'.at = tally.at
        /\ tally'.crossed <=> tally.crossed \/ Busy
    BY <1>4, <2>1, TallyCross
  <2>3. ASSUME ~tally'.crossed
        PROVE  /\ \A m \in Logins : Unwritten(m) => m = l
               /\ Tracked(l)'
               /\ ~Counting(l)' => Counted'
    <3>1. \A m \in Logins : ~Unwritten(m)
      BY <2>2, <2>3 DEF Busy
    <3>2. \A m \in Logins : ~Counting(m)
      BY <3>1 DEF Unwritten, Counting
    <3>3. Counted
      BY <2>2, <2>3, <3>2 DEF LockFits
    <3>4. Counted'
      BY <1>1, <2>2, <3>3, CountedSame
    <3>5. Tracked(l)'
      BY <1>1, <1>2, <1>4 DEF Tracked
    <3> QED BY <3>1, <3>4, <3>5
  <2> QED BY <1>1, <1>2, <2>2, <2>3, LoginAlone
<1> QED BY <1>3, <1>4, FindUserEffect

LEMMA ValidateUserAccount ==
  ASSUME TypeOK, LockFits, NEW l \in Logins, ValidateUser(l)
  PROVE  AccountStep
<1>1. UNCHANGED <<now, user>> /\ user' \in User /\ LockSame
  BY DEF ValidateUser, TypeOK, LockSame
<1>2. /\ OnlyLogin(l) /\ logins[l].pc = "verify" /\ logins[l].writes = {}
      /\ logins'[l].pc \in {"accepted", "refused"} /\ LoginFits(l)'
  BY ValidateUserEffect DEF LockFits, LoginFits
<1>3. /\ now \in Nat /\ now <= MaxTime /\ tally \in Tally
      /\ logins[l].seen.failed \in Nat /\ logins[l].seen.locked \in Nat
      /\ Forever \in Nat /\ MaxTime \in Nat /\ Forever > MaxTime + 60
  BY AccountAssumption DEF LockFits, TypeOK, Tally, Login, Seen
<1>4. CASE logins'[l].writes = {} /\ tally' = tally
  BY <1>1, <1>2, <1>4, LoginQuiet DEF Counting
<1>5. ASSUME ~tally.crossed, logins[l].seen.locked <= now
      PROVE  /\ \A m \in Logins : Unwritten(m) => m = l
             /\ user.failed = tally.n /\ user.locked \in {Forever, Due}
             /\ logins[l].seen.failed = user.failed
             /\ logins[l].seen.locked = user.locked /\ user.locked # Forever
  <2>1. logins[l].seen.locked # Forever
    BY <1>3, <1>5
  <2>2. Unwritten(l)
    BY <1>2, <2>1 DEF Unwritten
  <2>3. \A m \in Logins : Unwritten(m) => m = l
    BY <1>5, <2>2 DEF LockFits
  <2>4. \A m \in Logins : ~Counting(m)
    BY <1>2, <2>3 DEF Unwritten, Counting
  <2>5. Counted /\ Tracked(l)
    BY <1>5, <2>4 DEF LockFits
  <2> QED BY <1>2, <2>1, <2>3, <2>5 DEF Counted, Tracked
<1>6. CASE /\ logins[l].seen.locked <= now /\ "fail" \notin logins'[l].writes
           /\ "reset" \in logins'[l].writes <=> logins[l].seen.failed > 0
           /\ tally' = [tally EXCEPT !.n = 0]
  <2>1. tally' \in Tally /\ tally'.n = 0 /\ tally'.crossed = tally.crossed
    BY <1>6, TallyReset
  <2>2. Due' = 0
    BY <2>1, NothingDue DEF Due
  <2>3. Tracked(l)'
    BY <1>2, <1>6, <2>1 DEF Tracked
  <2>4. ASSUME ~tally'.crossed, ~Counting(l)' PROVE Counted'
    <3>1. logins[l].seen.failed = 0
      BY <1>3, <1>6, <2>4 DEF Counting
    <3>2. user.failed = 0 /\ tally.n = 0 /\ user.locked = Due
      BY <1>5, <1>6, <2>1, <2>4, <3>1
    <3>3. user.locked = 0
      BY <3>2, NothingDue DEF Due
    <3> QED BY <1>1, <2>1, <2>2, <3>2, <3>3 DEF Counted
  <2> QED BY <1>1, <1>2, <1>5, <1>6, <2>1, <2>3, <2>4, LoginAlone
<1>7. CASE /\ logins[l].seen.locked <= now /\ logins'[l].writes = {"fail"}
           /\ logins'[l].failed = logins[l].seen.failed + 1
           /\ logins'[l].locked = LockedUntil(logins[l].seen.failed + 1, now)
           /\ tally' = [tally EXCEPT !.n = @ + 1, !.at = now]
  <2>1. /\ tally' \in Tally /\ tally'.n = tally.n + 1 /\ tally'.at = now
        /\ tally'.crossed = tally.crossed
    BY <1>7, TallyMiss
  <2>2. ASSUME ~tally'.crossed PROVE Tracked(l)'
    <3>1. logins[l].seen.failed + 1 = tally'.n /\ tally'.n \in Nat
      BY <1>3, <1>5, <1>7, <2>1, <2>2 DEF Tally
    <3>2. LockedUntil(tally'.n, now) = Due'
      BY <2>1, <3>1, LockIsDue DEF LockedUntil, Due
    <3> QED BY <1>2, <1>7, <3>1, <3>2 DEF Tracked
  <2>3. Counting(l)'
    BY <1>7 DEF Counting
  <2> QED BY <1>1, <1>2, <1>5, <1>7, <2>1, <2>2, <2>3, LoginAlone
<1> QED BY <1>4, <1>6, <1>7, ValidateUserEffect

(* The UPDATE of the failures, executed or lost.                            *)
LEMMA WriteAccount ==
  ASSUME TypeOK, LockFits, NEW l \in Logins, NEW w \in {"reset", "fail"}, Sent(l, w),
         now' = now, user' \in User,
         \/ tally' = tally /\ user'.failed = tally.n
              /\ user'.locked = Due
         \/ user' = user /\ Cross(TRUE)
         \/ tally' = tally /\ tally.crossed
  PROVE  AccountStep
<1>1. /\ OnlyLogin(l) /\ w \in logins[l].writes
      /\ logins'[l].pc = logins[l].pc /\ logins'[l].seen = logins[l].seen
      /\ logins'[l].failed = logins[l].failed /\ logins'[l].locked = logins[l].locked
      /\ logins'[l].writes \subseteq logins[l].writes
  BY SentEffect DEF Writes
<1>2. LoginFits(l)' /\ logins[l].pc # "verify" /\ logins'[l].pc # "verify"
  BY <1>1 DEF LockFits, LoginFits
<1>3. Unwritten(l)
  BY <1>1 DEF Unwritten
<1>4. CASE user' = user /\ Cross(TRUE)
  BY <1>1, <1>2, <1>4, TallyCross, LoginCrosses
<1>5. CASE tally' = tally /\ tally.crossed
  BY <1>1, <1>2, <1>5, LoginCrosses DEF TypeOK, Tally
<1>6. CASE /\ tally' = tally /\ user'.failed = tally.n
           /\ user'.locked = Due
  <2>1. tally' \in Tally /\ Due' = Due /\ Counted'
    BY <1>6, DueSame DEF TypeOK, Tally, Counted
  <2>2. ASSUME ~tally'.crossed
        PROVE  (\A m \in Logins : Unwritten(m) => m = l) /\ Tracked(l)
    BY <1>3, <1>6, <2>2 DEF LockFits
  <2>3. ASSUME ~tally'.crossed PROVE Tracked(l)'
    BY <1>1, <1>2, <1>6, <2>1, <2>2, <2>3 DEF Tracked
  <2> QED BY <1>1, <1>2, <2>1, <2>2, <2>3, LoginAlone
<1> QED BY <1>4, <1>5, <1>6

LEMMA ResetFailuresAccount ==
  ASSUME TypeOK, LockFits, NEW l \in Logins, ResetFailures(l)
  PROVE  AccountStep
<1>1. Sent(l, "reset") /\ now' = now
  BY DEF ResetFailures
<1>2. CASE user' = user /\ Cross(TRUE)
  BY <1>1, <1>2, WriteAccount DEF TypeOK
<1>3. CASE user' = [user EXCEPT !.failed = 0, !.locked = 0] /\ tally' = tally
  <2>1. user' \in User /\ user'.failed = 0 /\ user'.locked = 0
    BY <1>3, UserLock
  <2>2. ~tally.crossed => tally.n = 0
    BY <1>1 DEF Sent, LockFits, Tracked
  <2>3. tally.n = 0 => Due = 0
    BY NothingDue DEF Due
  <2>4. tally.crossed \in BOOLEAN
    BY DEF TypeOK
  <2> QED BY <1>1, <1>3, <2>1, <2>2, <2>3, <2>4, WriteAccount
<1> QED BY <1>2, <1>3 DEF ResetFailures

LEMMA RecordFailureAccount ==
  ASSUME TypeOK, LockFits, NEW l \in Logins, RecordFailure(l)
  PROVE  AccountStep
<1>1. Sent(l, "fail") /\ now' = now
  BY DEF RecordFailure
<1>2. CASE user' = user /\ Cross(TRUE)
  BY <1>1, <1>2, WriteAccount DEF TypeOK
<1>3. CASE /\ user' = [user EXCEPT !.failed = logins[l].failed, !.locked = logins[l].locked]
           /\ tally' = tally
  <2>1. logins[l].failed \in Nat /\ logins[l].locked \in Nat
    BY DEF TypeOK, Login
  <2>2. /\ user' \in User
        /\ user'.failed = logins[l].failed /\ user'.locked = logins[l].locked
    BY <1>3, <2>1, UserLock
  <2>3. ~tally.crossed => logins[l].failed = tally.n /\ logins[l].locked = Due
    BY <1>1 DEF Sent, LockFits, Tracked
  <2>4. tally.crossed \in BOOLEAN
    BY DEF TypeOK
  <2> QED BY <1>1, <1>3, <2>2, <2>3, <2>4, WriteAccount
<1> QED BY <1>2, <1>3 DEF RecordFailure

LEMMA RehashAccount ==
  ASSUME TypeOK, LockFits, NEW l \in Logins, Rehash(l)
  PROVE  AccountStep
<1>1. Sent(l, "rehash") /\ UNCHANGED <<now, tally>>
  BY DEF Rehash
<1>2. logins[l].guess \in Passwords \cup {None}
  BY DEF TypeOK, Login
<1>3. user' \in User /\ LockSame
  <2>1. CASE user' = [user EXCEPT !.pw = logins[l].guess, !.legacy = FALSE]
    BY <1>2, <2>1, UserPassword DEF LockSame
  <2>2. CASE user' = user
    BY <2>2 DEF TypeOK, LockSame
  <2> QED BY <2>1, <2>2 DEF Rehash
<1>4. /\ OnlyLogin(l) /\ "rehash" \in logins[l].writes
      /\ logins'[l].writes = logins[l].writes \ {"rehash"}
      /\ logins'[l].pc = logins[l].pc
      /\ logins'[l].failed = logins[l].failed /\ logins'[l].locked = logins[l].locked
  BY <1>1, SentEffect DEF Writes
<1>5. LoginFits(l)' /\ logins'[l].pc # "verify"
  BY <1>4 DEF LockFits, LoginFits
<1>6. logins'[l].writes \cap {"reset", "fail"} = logins[l].writes \cap {"reset", "fail"}
  BY <1>4
<1> QED BY <1>1, <1>3, <1>4, <1>5, <1>6, LoginQuiet

(* An administrator sets the lock.                                          *)
LEMMA AdminAccount ==
  ASSUME TypeOK, LockFits, UNCHANGED <<now, logins>>, user' \in User, tally' \in Tally,
         tally'.crossed <=> tally.crossed \/ Busy,
         ~tally'.crossed /\ Counted => Counted'
  PROVE  AccountStep
<1>1. now' <= MaxTime /\ \A m \in Logins : LoginFits(m)'
  BY DEF LockFits, LoginFits
<1>2. ASSUME ~tally'.crossed
      PROVE  /\ \A m, k \in Logins : Unwritten(m)' /\ Unwritten(k)' => m = k
             /\ \A m \in Logins : Tracked(m)'
             /\ (\A m \in Logins : ~Counting(m)') => Counted'
  <2>1. \A m \in Logins : ~Unwritten(m) /\ ~Unwritten(m)'
    BY <1>2 DEF Busy, Unwritten
  <2>2. \A m \in Logins : ~Counting(m)
    BY <2>1 DEF Unwritten, Counting
  <2>3. Counted'
    BY <1>2, <2>2 DEF LockFits
  <2>4. \A m \in Logins : Tracked(m)'
    BY <2>1 DEF Tracked, Unwritten
  <2> QED BY <2>1, <2>3, <2>4
<1> QED BY <1>1, <1>2 DEF AccountStep, LockFits, TypeOK

LEMMA DisableUserAccount ==
  ASSUME TypeOK, LockFits, DisableUser
  PROVE  AccountStep
<1>1. UNCHANGED <<now, logins>> /\ Cross(Busy) /\ Busy \in BOOLEAN
  BY DEF DisableUser, requests, Busy
<1>2. user' \in User /\ user'.failed = user.failed /\ user'.locked = Forever
  BY AccountAssumption, UserLockOnly DEF DisableUser
<1>3. /\ tally' \in Tally /\ tally'.n = tally.n
      /\ tally'.crossed <=> tally.crossed \/ Busy
  BY <1>1, TallyCross
<1>4. Counted => Counted'
  BY <1>2, <1>3 DEF Counted
<1> QED BY <1>1, <1>2, <1>3, <1>4, AdminAccount

LEMMA EnableUserAccount ==
  ASSUME TypeOK, LockFits, EnableUser
  PROVE  AccountStep
<1> DEFINE x == tally.crossed \/ Busy
<1>1. UNCHANGED <<now, logins>> /\ x \in BOOLEAN
  BY DEF EnableUser, requests
<1>2. user' \in User /\ user'.failed = 0 /\ user'.locked = 0
  BY UserLock DEF EnableUser
<1>3. x <=> tally.crossed \/ Busy
  OBVIOUS
<1>4. tally' = [n |-> 0, at |-> 0, crossed |-> x]
  BY DEF EnableUser
<1> HIDE DEF x
<1>5. tally' \in Tally /\ tally'.n = 0 /\ tally'.crossed = x
  BY <1>1, <1>4 DEF Tally
<1>6. Counted'
  BY <1>2, <1>5, NothingDue DEF Counted, Due
<1> QED BY <1>1, <1>2, <1>3, <1>5, <1>6, AdminAccount

LEMMA TickAccount ==
  ASSUME TypeOK, LockFits, Tick
  PROVE  AccountStep
<1>1. now' \in Nat /\ now' <= MaxTime
  BY AccountAssumption DEF Tick, TypeOK
<1> QED BY <1>1, LockKeep DEF Tick, TypeOK, requests, LockSame

(* The steps of the other requests leave the lock alone.                    *)
LEMMA AccountIdle ==
  ASSUME TypeOK, LockFits, UNCHANGED <<now, logins, tally>>,
         \/ user' = user
         \/ \E pw \in Passwords \cup {None} : user' = [user EXCEPT !.pw = pw, !.legacy = FALSE]
         \/ user' = [user EXCEPT !.pw = None, !.legacy = TRUE, !.deleted = TRUE]
  PROVE  AccountStep
<1>1. user' \in User /\ LockSame
  BY UserPassword, UserErased DEF TypeOK, LockSame
<1>2. now' \in Nat /\ now' <= MaxTime
  BY DEF TypeOK, LockFits
<1> QED BY <1>1, <1>2, LockKeep

-----------------------------------------------------------------------------
(* The whole step, by the kind of request that takes it.                    *)
RestTyped == chosen' \in Passwords \cup {None} /\ faults' \in Nat

WholeStep == SessionsStep /\ AccountStep /\ RestTyped

LEMMA LogInStep ==
  ASSUME TypeOK, SessionsFit, LockFits, NEW l \in Logins, LogIn(l)
  PROVE  WholeStep
<1>1. CASE \E guess \in Passwords : ReceiveLogin(l, guess)
  <2>1. UNCHANGED <<pairs, tokens, changes, confirms, chosen, faults>>
    BY <1>1 DEF ReceiveLogin
  <2> QED BY <1>1, <2>1, SessionsIdle, ReceiveLoginAccount DEF WholeStep, RestTyped, TypeOK
<1>2. CASE FindUser(l)
  <2>1. UNCHANGED <<pairs, tokens, changes, confirms, chosen>> /\ faults' \in Nat
    BY <1>2, FaultsType DEF FindUser, NoFault
  <2> QED BY <1>2, <2>1, SessionsIdle, FindUserAccount DEF WholeStep, RestTyped, TypeOK
<1>3. CASE ValidateUser(l)
  <2>1. UNCHANGED <<pairs, tokens, changes, confirms, chosen, faults>>
    BY <1>3 DEF ValidateUser
  <2> QED BY <1>3, <2>1, SessionsIdle, ValidateUserAccount DEF WholeStep, RestTyped, TypeOK
<1>4. CASE ResetFailures(l)
  <2>1. UNCHANGED <<pairs, tokens, changes, confirms, chosen>> /\ faults' \in Nat
    BY <1>4, FaultsType DEF ResetFailures, NoFault
  <2> QED BY <1>4, <2>1, SessionsIdle, ResetFailuresAccount DEF WholeStep, RestTyped, TypeOK
<1>5. CASE RecordFailure(l)
  <2>1. UNCHANGED <<pairs, tokens, changes, confirms, chosen>> /\ faults' \in Nat
    BY <1>5, FaultsType DEF RecordFailure, NoFault
  <2> QED BY <1>5, <2>1, SessionsIdle, RecordFailureAccount DEF WholeStep, RestTyped, TypeOK
<1>6. CASE Rehash(l)
  <2>1. UNCHANGED <<pairs, tokens, changes, confirms, chosen>> /\ faults' \in Nat
    BY <1>6, FaultsType DEF Rehash, NoFault
  <2> QED BY <1>6, <2>1, SessionsIdle, RehashAccount DEF WholeStep, RestTyped, TypeOK
<1> QED BY <1>1, <1>2, <1>3, <1>4, <1>5, <1>6 DEF LogIn

LEMMA SelfServiceStep ==
  ASSUME TypeOK, SessionsFit, LockFits, NEW c \in Changes, SelfService(c)
  PROVE  WholeStep
<1>1. CASE \E s \in Sessions, old, new \in Passwords : ReceiveChange(c, s, old, new)
  <2>1. UNCHANGED <<now, user, logins, chosen, tally, faults>>
    BY <1>1 DEF ReceiveChange
  <2> QED BY <1>1, <2>1, ReceiveChangeSessions, AccountIdle DEF WholeStep, RestTyped, TypeOK
<1>2. CASE \E s \in Sessions : ReceiveDelete(c, s)
  <2>1. UNCHANGED <<now, user, logins, chosen, tally, faults>>
    BY <1>2 DEF ReceiveDelete
  <2> QED BY <1>2, <2>1, ReceiveDeleteSessions, AccountIdle DEF WholeStep, RestTyped, TypeOK
<1>3. CASE CheckOldPassword(c)
  <2>1. UNCHANGED <<now, user, logins, chosen, tally>> /\ faults' \in Nat
    BY <1>3, FaultsType DEF CheckOldPassword
  <2> QED BY <1>3, <2>1, CheckOldPasswordSessions, AccountIdle DEF WholeStep, RestTyped, TypeOK
<1>4. CASE UpdatePassword(c)
  <2>1. changes[c].new \in Passwords \cup {None}
    BY DEF TypeOK, Change
  <2>2. /\ UNCHANGED <<now, logins, tally>> /\ RestTyped
        /\ \/ user' = user
           \/ user' = [user EXCEPT !.pw = changes[c].new, !.legacy = FALSE]
    BY <1>4, <2>1, FaultsType DEF UpdatePassword, RestTyped, TypeOK
  <2> QED BY <1>4, <2>1, <2>2, UpdatePasswordSessions, AccountIdle DEF WholeStep
<1>5. CASE ChangeRevokesAccess(c)
  <2>1. UNCHANGED <<now, user, logins, chosen, tally>> /\ faults' \in Nat
    BY <1>5, FaultsType DEF ChangeRevokesAccess
  <2> QED BY <1>5, <2>1, ChangeRevokesAccessSessions, AccountIdle DEF WholeStep, RestTyped, TypeOK
<1>6. CASE ChangeRevokesRefresh(c)
  <2>1. UNCHANGED <<now, user, logins, chosen, tally>> /\ faults' \in Nat
    BY <1>6, FaultsType DEF ChangeRevokesRefresh
  <2> QED BY <1>6, <2>1, ChangeRevokesRefreshSessions, AccountIdle DEF WholeStep, RestTyped, TypeOK
<1>7. CASE EraseUser(c)
  <2>1. /\ UNCHANGED <<now, logins, tally>> /\ RestTyped
        /\ \/ user' = user
           \/ user' = [user EXCEPT !.pw = None, !.legacy = TRUE, !.deleted = TRUE]
    BY <1>7, FaultsType DEF EraseUser, RestTyped, TypeOK, NoFault
  <2> QED BY <1>7, <2>1, EraseUserSessions, AccountIdle DEF WholeStep
<1> QED BY <1>1, <1>2, <1>3, <1>4, <1>5, <1>6, <1>7 DEF SelfService

LEMMA ResetStep ==
  ASSUME TypeOK, SessionsFit, LockFits, NEW k \in Confirms, Reset(k)
  PROVE  WholeStep
<1>1. CASE \E t \in ResetTokens, new \in Passwords : ReceiveConfirm(k, t, new)
  <2>1. UNCHANGED <<now, user, logins, chosen, tally, faults>>
    BY <1>1 DEF ReceiveConfirm
  <2> QED BY <1>1, <2>1, ReceiveConfirmSessions, AccountIdle DEF WholeStep, RestTyped, TypeOK
<1>2. CASE ConsumeResetToken(k)
  <2>1. UNCHANGED <<now, user, logins, chosen, tally>> /\ faults' \in Nat
    BY <1>2, FaultsType DEF ConsumeResetToken, NoFault
  <2> QED BY <1>2, <2>1, ConsumeSessions, AccountIdle DEF WholeStep, RestTyped, TypeOK
<1>3. CASE ResetPassword(k)
  <2>1. confirms[k].new \in Passwords \cup {None}
    BY DEF TypeOK, Confirm
  <2>2. /\ UNCHANGED <<now, logins, tally>> /\ RestTyped
        /\ \/ user' = user
           \/ user' = [user EXCEPT !.pw = confirms[k].new, !.legacy = FALSE]
    BY <1>3, <2>1, FaultsType DEF ResetPassword, RestTyped, TypeOK
  <2> QED BY <1>3, <2>1, <2>2, ResetPasswordSessions, AccountIdle DEF WholeStep
<1>4. CASE ConfirmRevokesAccess(k)
  <2>1. UNCHANGED <<now, user, logins, chosen, tally>> /\ faults' \in Nat
    BY <1>4, FaultsType DEF ConfirmRevokesAccess
  <2> QED BY <1>4, <2>1, ConfirmRevokesAccessSessions, AccountIdle DEF WholeStep, RestTyped, TypeOK
<1>5. CASE ConfirmRevokesRefresh(k)
  <2>1. UNCHANGED <<now, user, logins, chosen, tally>> /\ faults' \in Nat
    BY <1>5, FaultsType DEF ConfirmRevokesRefresh
  <2> QED BY <1>5, <2>1, ConfirmRevokesRefreshSessions, AccountIdle DEF WholeStep, RestTyped, TypeOK
<1> QED BY <1>1, <1>2, <1>3, <1>4, <1>5 DEF Reset

LEMMA Step == IInv /\ [Next]_vars => IInv' /\ WholeStep
<1> SUFFICES ASSUME TypeOK, SessionsFit, LockFits, [Next]_vars
             PROVE  WholeStep
  BY DEF IInv, WholeStep, SessionsStep, AccountStep, RestTyped, TypeOK, Tally
<1>1. CASE \E l \in Logins : LogIn(l)
  BY <1>1, LogInStep
<1>2. CASE \E s \in Sessions, sub \in Subjects : StorePair(s, sub)
  <2>1. UNCHANGED <<now, user, logins, chosen, tally, faults>>
    BY <1>2 DEF StorePair, requests
  <2> QED BY <1>2, <2>1, StorePairSessions, AccountIdle DEF WholeStep, RestTyped, TypeOK
<1>3. CASE \E c \in Changes : SelfService(c)
  BY <1>3, SelfServiceStep
<1>4. CASE \E t \in ResetTokens : RequestReset(t) \/ StoreResetToken(t)
  <2>1. UNCHANGED <<now, user, logins, chosen, tally>>
    BY <1>4 DEF RequestReset, StoreResetToken, requests
  <2>2. faults' \in Nat
    BY <1>4, FaultsType DEF RequestReset, StoreResetToken, NoFault, TypeOK
  <2> QED BY <1>4, <2>1, <2>2, RequestResetSessions, StoreResetTokenSessions, AccountIdle
          DEF WholeStep, RestTyped, TypeOK
<1>5. CASE \E k \in Confirms : Reset(k)
  BY <1>5, ResetStep
<1>6. CASE DisableUser
  <2>1. UNCHANGED <<pairs, tokens, changes, confirms, chosen, faults>>
    BY <1>6 DEF DisableUser, requests
  <2> QED BY <1>6, <2>1, SessionsIdle, DisableUserAccount DEF WholeStep, RestTyped, TypeOK
<1>7. CASE EnableUser
  <2>1. UNCHANGED <<pairs, tokens, changes, confirms, chosen, faults>>
    BY <1>7 DEF EnableUser, requests
  <2> QED BY <1>7, <2>1, SessionsIdle, EnableUserAccount DEF WholeStep, RestTyped, TypeOK
<1>8. CASE Tick
  <2>1. UNCHANGED <<pairs, tokens, changes, confirms, chosen, faults>>
    BY <1>8 DEF Tick, requests
  <2> QED BY <1>8, <2>1, SessionsIdle, TickAccount DEF WholeStep, RestTyped, TypeOK
<1>9. CASE UNCHANGED vars
  <2>1. UNCHANGED <<now, user, logins, pairs, tokens, changes, confirms, chosen, tally, faults>>
    BY <1>9 DEF vars
  <2> QED BY <2>1, SessionsIdle, AccountIdle DEF WholeStep, RestTyped, TypeOK
<1> QED BY <1>1, <1>2, <1>3, <1>4, <1>5, <1>6, <1>7, <1>8, <1>9 DEF Next

LEMMA Initially == Init => IInv
<1> SUFFICES ASSUME Init PROVE IInv
  OBVIOUS
<1>1. FirstFailures \subseteq Nat
  BY AccountAssumption
<1>2. PICK pw \in Passwords, legacy \in BOOLEAN, n \in FirstFailures :
        /\ user = [pw |-> pw, legacy |-> legacy, failed |-> n,
                   locked |-> LockedUntil(n, 0), deleted |-> FALSE]
        /\ chosen = pw
        /\ tally = [n |-> n, at |-> 0, crossed |-> FALSE]
  BY DEF Init
<1>3. n \in Nat /\ LockedUntil(n, 0) \in Nat
  BY <1>1, LockedUntilType
<1>4. user \in User /\ tally \in Tally
  BY <1>2, <1>3 DEF User, Tally
<1>5. Counted
  BY <1>2, <1>3, LockIsDue DEF Counted, Due, LockedUntil
<1>6. NoLogin \in Login /\ NoChange \in Change /\ NoConfirm \in Confirm
  BY DEF NoLogin, NoChange, NoConfirm, Login, Change, Confirm, Seen, NotSeen, Subjects
<1>7. TypeOK
  BY <1>2, <1>4, <1>6 DEF Init, TypeOK, Pair, Subjects, ResetToken, Tally
<1>8. SessionsFit
  BY DEF Init, SessionsFit, PairFits, ChangeFits, ConfirmFits, OneResetPerToken, Consumed,
         NoChange, NoConfirm
<1>9. LockFits
  <2>1. now <= MaxTime
    BY AccountAssumption DEF Init
  <2>2. \A l \in Logins : logins[l] = NoLogin
    BY DEF Init
  <2>3. \A l \in Logins : LoginFits(l) /\ ~Unwritten(l) /\ Tracked(l)
    BY <2>2 DEF NoLogin, LoginFits, Unwritten, Tracked
  <2> QED BY <1>5, <2>1, <2>3 DEF LockFits
<1> QED BY <1>7, <1>8, <1>9 DEF IInv

(* The types, the account of the revocations and the account of the lock    *)
(* hold in every reachable state.                                           *)
THEOREM Invariance == Spec => []IInv
<1>1. Init => IInv
  BY Initially
<1>2. IInv /\ [Next]_vars => IInv'
  BY Step
<1> QED BY <1>1, <1>2, PTL DEF Spec

(* The count and the lock in the row are the ones due, until logins overlap *)
(* or an UPDATE is lost.                                                    *)
THEOREM TheLockoutCounts == Spec => []LockoutCounts
<1>1. IInv => LockoutCounts
  BY DEF IInv, LockFits, LockoutCounts, Busy, Unwritten, Counting
<1> QED BY <1>1, Invariance, PTL

(* What a change, a deletion or a reset says it has revoked is revoked.     *)
THEOREM SessionsEnd == Spec => []SubjectSessionsEnd
<1>1. IInv => SubjectSessionsEnd
  BY DEF IInv, SessionsFit, ChangeFits, ConfirmFits, SubjectSessionsEnd
<1> QED BY <1>1, Invariance, PTL

(* A reset token lets one confirmation through.                             *)
THEOREM ResetTokensAreSpentOnce == Spec => []OneResetPerToken
<1>1. IInv => OneResetPerToken
  BY DEF IInv, SessionsFit
<1> QED BY <1>1, Invariance, PTL

-----------------------------------------------------------------------------
(* What the steps other than those of a login and an administrator do to    *)
(* the row.                                                                 *)
Elsewhere ==
  /\ logins' = logins
  /\ \/ user' = user /\ chosen' = chosen
     \/ \E pw \in Passwords \cup {None} :
          user' = [user EXCEPT !.pw = pw, !.legacy = FALSE] /\ chosen' = pw
     \/ user' = [user EXCEPT !.pw = None, !.legacy = TRUE, !.deleted = TRUE]

LEMMA ElsewhereSteps ==
  ASSUME TypeOK,
         \/ \E s \in Sessions, sub \in Subjects : StorePair(s, sub)
         \/ \E c \in Changes : SelfService(c)
         \/ \E t \in ResetTokens : RequestReset(t) \/ StoreResetToken(t)
         \/ \E k \in Confirms : Reset(k)
         \/ Tick
         \/ UNCHANGED vars
  PROVE  Elsewhere
<1>1. ASSUME NEW c \in Changes, SelfService(c) PROVE Elsewhere
  <2>1. changes[c].new \in Passwords \cup {None}
    BY DEF TypeOK, Change
  <2>2. CASE UpdatePassword(c)
    BY <2>1, <2>2 DEF UpdatePassword, Elsewhere
  <2>3. CASE EraseUser(c)
    BY <2>3 DEF EraseUser, Elsewhere
  <2> QED BY <1>1, <2>2, <2>3
      DEF SelfService, Elsewhere, ReceiveChange, ReceiveDelete, CheckOldPassword,
          ChangeRevokesAccess, ChangeRevokesRefresh
<1>2. ASSUME NEW k \in Confirms, Reset(k) PROVE Elsewhere
  <2>1. confirms[k].new \in Passwords \cup {None}
    BY DEF TypeOK, Confirm
  <2>2. CASE ResetPassword(k)
    BY <2>1, <2>2 DEF ResetPassword, Elsewhere
  <2> QED BY <1>2, <2>2
      DEF Reset, Elsewhere, ReceiveConfirm, ConsumeResetToken, ConfirmRevokesAccess,
          ConfirmRevokesRefresh
<1>3. ASSUME Tick \/ UNCHANGED vars
             \/ (\E t \in ResetTokens : RequestReset(t) \/ StoreResetToken(t))
             \/ (\E s \in Sessions, sub \in Subjects : StorePair(s, sub))
      PROVE  Elsewhere
  BY <1>3 DEF Tick, vars, RequestReset, StoreResetToken, StorePair, requests, Elsewhere
<1> QED BY <1>1, <1>2, <1>3

(* Whatever follows, a disabled user for whom no login is under way stays   *)
(* disabled until an administrator enables them.                            *)
LEMMA BarredLogIn ==
  ASSUME IInv, Barred, NEW l \in Logins, LogIn(l)
  PROVE  Barred'
<1> USE DEF IInv
<1>1. \A m \in Logins : ~Unwritten(m)
  BY DEF Barred, Busy
<1>2. ASSUME OnlyLogin(l), ~Unwritten(l)', user'.locked = user.locked
      PROVE  Barred'
  BY <1>1, <1>2, LoginOthers DEF Barred, Busy
<1>3. CASE \E guess \in Passwords : ReceiveLogin(l, guess)
  <2>1. OnlyLogin(l) /\ ~Unwritten(l)'
    BY <1>3, <1>1, ReceiveLoginEffect DEF Unwritten
  <2> QED BY <1>2, <1>3, <2>1 DEF ReceiveLogin
<1>4. CASE FindUser(l)
  <2>1. OnlyLogin(l) /\ ~Unwritten(l)'
    BY <1>1, <1>4, FindUserEffect DEF Unwritten, Barred
  <2> QED BY <1>2, <1>4, <2>1 DEF FindUser
<1>5. CASE ValidateUser(l)
  <2>1. logins[l].seen.locked = Forever
    BY <1>1, <1>5 DEF Unwritten, ValidateUser
  <2>2. ~(logins[l].seen.locked <= now)
    BY <2>1, AccountAssumption DEF TypeOK, LockFits
  <2>3. OnlyLogin(l) /\ ~Unwritten(l)'
    BY <1>5, <2>2, ValidateUserEffect DEF Unwritten
  <2> QED BY <1>2, <1>5, <2>3 DEF ValidateUser
<1>6. CASE ResetFailures(l) \/ RecordFailure(l)
  BY <1>1, <1>6 DEF ResetFailures, RecordFailure, Sent, Unwritten
<1>7. CASE Rehash(l)
  <2>1. /\ OnlyLogin(l) /\ "rehash" \in logins[l].writes
        /\ logins'[l].writes \subseteq logins[l].writes
        /\ logins'[l].pc = logins[l].pc
    BY <1>7, SentEffect DEF Rehash, Writes
  <2>2. ~Unwritten(l)'
    BY <1>1, <2>1 DEF Unwritten, LockFits, LoginFits
  <2>3. user'.locked = user.locked
    <3>1. logins[l].guess \in Passwords \cup {None}
      BY DEF TypeOK, Login
    <3> QED BY <1>7, <3>1, UserPassword DEF Rehash
  <2> QED BY <1>2, <2>1, <2>2, <2>3
<1> QED BY <1>3, <1>4, <1>5, <1>6, <1>7 DEF LogIn

(* A disabled user stays disabled.                                          *)
THEOREM DisabledUsersStayOut == Spec => DisabledStaysDisabled
<1>1. IInv /\ [Next]_vars => (Barred => Barred' \/ EnableUser)
  <2> SUFFICES ASSUME IInv, [Next]_vars, Barred
               PROVE  Barred' \/ EnableUser
    OBVIOUS
  <2>1. CASE \E l \in Logins : LogIn(l)
    BY <2>1, BarredLogIn
  <2>2. CASE DisableUser
    BY <2>2 DEF DisableUser, Barred
  <2>3. CASE Elsewhere
    <3>1. user'.locked = user.locked
      BY <2>3, UserPassword, UserErased DEF Elsewhere, IInv
    <3> QED BY <2>3, <3>1 DEF Elsewhere, Barred, Busy, Unwritten
  <2> QED BY <2>1, <2>2, <2>3, ElsewhereSteps DEF Next, IInv
<1> QED BY <1>1, Invariance, PTL DEF Spec, DisabledStaysDisabled

-----------------------------------------------------------------------------
LEMMA SettledLogIn ==
  ASSUME IInv, Settled, NEW l \in Logins, LogIn(l)
  PROVE  Settled'
<1> USE DEF IInv
<1>1. chosen' = chosen
  BY DEF LogIn, ReceiveLogin, FindUser, ValidateUser, ResetFailures, RecordFailure, Rehash
<1>2. ASSUME OnlyLogin(l), "rehash" \notin logins'[l].writes,
             logins'[l].pc = "verify" => ~logins'[l].seen.legacy,
             user'.pw = user.pw, user'.legacy = user.legacy
      PROVE  Settled'
  BY <1>1, <1>2 DEF Settled, OnlyLogin
<1>3. CASE \E guess \in Passwords : ReceiveLogin(l, guess)
  BY <1>2, <1>3, ReceiveLoginEffect DEF Settled, ReceiveLogin
<1>4. CASE FindUser(l)
  BY <1>2, <1>4, FindUserEffect DEF Settled, FindUser
<1>5. CASE ValidateUser(l)
  BY <1>2, <1>5, ValidateUserEffect DEF Settled, ValidateUser
<1>6. ASSUME NEW w \in {"reset", "fail"}, Sent(l, w)
      PROVE  /\ OnlyLogin(l) /\ "rehash" \notin logins'[l].writes
             /\ logins'[l].pc = "verify" => ~logins'[l].seen.legacy
  BY <1>6, SentEffect DEF Settled, Writes
<1>7. CASE ResetFailures(l)
  <2>1. user'.pw = user.pw /\ user'.legacy = user.legacy
    BY <1>7, UserLock DEF ResetFailures
  <2> QED BY <1>2, <1>6, <1>7, <2>1 DEF ResetFailures
<1>8. CASE RecordFailure(l)
  <2>1. logins[l].failed \in Nat /\ logins[l].locked \in Nat
    BY DEF TypeOK, Login
  <2>2. user'.pw = user.pw /\ user'.legacy = user.legacy
    BY <1>8, <2>1, UserLock DEF RecordFailure
  <2> QED BY <1>2, <1>6, <1>8, <2>2 DEF RecordFailure
<1>9. CASE Rehash(l)
  BY <1>9 DEF Rehash, Sent, Settled
<1> QED BY <1>3, <1>4, <1>5, <1>7, <1>8, <1>9 DEF LogIn

(* Off its legacy hash, the account keeps the password chosen last.         *)
THEOREM TheChosenPasswordStays == Spec => ChosenPasswordStays
<1>1. IInv /\ [Next]_vars => (Settled => Settled' \/ user'.deleted)
  <2> SUFFICES ASSUME IInv, [Next]_vars, Settled
               PROVE  Settled' \/ user'.deleted
    OBVIOUS
  <2>1. CASE \E l \in Logins : LogIn(l)
    BY <2>1, SettledLogIn
  <2>2. CASE DisableUser \/ EnableUser
    <3>1. UNCHANGED <<logins, chosen>>
      BY <2>2 DEF DisableUser, EnableUser, requests
    <3>2. user'.pw = user.pw /\ user'.legacy = user.legacy
      <4>1. CASE DisableUser
        BY <4>1, UserLockOnly, AccountAssumption DEF DisableUser, IInv
      <4>2. CASE EnableUser
        <5>1. user' = [user EXCEPT !.failed = 0, !.locked = 0]
          BY <4>2 DEF EnableUser, IInv, TypeOK, User
        <5> QED BY <5>1, UserLock DEF IInv
      <4> QED BY <2>2, <4>1, <4>2
    <3> QED BY <3>1, <3>2 DEF Settled
  <2>3. CASE Elsewhere
    <3>1. CASE user' = user /\ chosen' = chosen
      BY <2>3, <3>1 DEF Elsewhere, Settled
    <3>2. CASE \E pw \in Passwords \cup {None} :
                 user' = [user EXCEPT !.pw = pw, !.legacy = FALSE] /\ chosen' = pw
      <4>1. user'.pw = chosen' /\ ~user'.legacy
        BY <3>2, UserPassword DEF IInv
      <4> QED BY <2>3, <4>1 DEF Elsewhere, Settled
    <3>3. CASE user' = [user EXCEPT !.pw = None, !.legacy = TRUE, !.deleted = TRUE]
      BY <3>3, UserErased DEF IInv
    <3> QED BY <2>3, <3>1, <3>2, <3>3 DEF Elsewhere
  <2> QED BY <2>1, <2>2, <2>3, ElsewhereSteps DEF Next, IInv
<1> QED BY <1>1, Invariance, PTL DEF Spec, ChosenPasswordStays
=============================================================================
