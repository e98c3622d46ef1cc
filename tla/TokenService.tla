---------------------------- MODULE TokenService ----------------------------
(***************************************************************************)
(* The token endpoint of the OAuth2 server on the PostgreSQL backend:      *)
(* services/TokenService.cc driving storage/PostgresOAuth2Storage.cc.      *)
(*                                                                         *)
(* Every SQL statement is one step, and so is every callback that decides  *)
(* what to do with its result: nothing is held between two statements of   *)
(* a request, so any number of requests interleave there.                  *)
(*                                                                         *)
(* A request mints at most one token pair and every token is a fresh       *)
(* random string, so the pair minted by request r is called r: ats[r] is   *)
(* its row of oauth2_access_tokens, rts[r] its row of                      *)
(* oauth2_refresh_tokens.  The family started by an exchange r is called   *)
(* r as well.  Apart from its status no column of a row changes after the  *)
(* insert, so a request that holds a copy of a row reads the columns from  *)
(* the row, even when the row has been deleted meanwhile.                  *)
(***************************************************************************)
EXTENDS Naturals

CONSTANTS
  Clients,          \* registered client ids
  Codes,            \* authorization codes that may be generated
  Requests,         \* requests to the token and revocation endpoints
  None,             \* no value
  AuthCodeTtl,      \* authCodeTtl_
  AccessTokenTtl,   \* accessTokenTtl_
  RefreshTokenTtl,  \* refreshTokenTtl_
  MaxTime,          \* bound on the clock
  MaxFaults,        \* bound on the SQL statements that fail
  Transactional,    \* saveTokenPair is PostgreSQL's own (TRUE), or the
                    \* sequential default the cache wrapper inherits (FALSE)
  PkceChoices       \* whether an authorization may carry a code_challenge

ASSUME ConstantAssumption ==
  /\ None \notin Requests
  /\ {AuthCodeTtl, AccessTokenTtl, RefreshTokenTtl, MaxTime, MaxFaults} \subseteq Nat
  /\ Transactional \in BOOLEAN
  /\ PkceChoices \subseteq BOOLEAN

VARIABLES
  now,     \* the clock, in units of the TTLs
  codes,   \* rows of oauth2_codes
  ats,     \* rows of oauth2_access_tokens
  rts,     \* rows of oauth2_refresh_tokens
  req,     \* the parameters of each request
  pc,      \* where each request is
  faults   \* SQL statements that failed so far

vars == <<now, codes, ats, rts, req, pc, faults>>

-----------------------------------------------------------------------------
(* "none": never inserted; "lost": handed out but its insert failed;        *)
(* "deleted": removed by the cleanup.                                       *)
CodeStatus == {"none", "unused", "used", "deleted", "lost"}

(* "minted": built by the handler, not inserted yet; "uncommitted":         *)
(* inserted by a transaction that is still open, no other connection sees   *)
(* it; "deleted": also moved to the archive.                                *)
TokenStatus == {"none", "minted", "uncommitted", "live", "revoked", "deleted", "lost"}

(* Rows that another connection sees.                                       *)
Visible == {"live", "revoked"}

(* A pair that is live or may still become so.                              *)
Usable == {"minted", "uncommitted", "live"}

CodeRow == [status: CodeStatus, client: Clients \cup {None}, exp: Nat,
            pkce: BOOLEAN,        \* the authorization carried a challenge
            challenge: BOOLEAN]   \* the code_challenge column is set

AccessRow == [status: TokenStatus, client: Clients \cup {None}, exp: Nat]

RefreshRow == [status: TokenStatus, client: Clients \cup {None}, exp: Nat,
               family: Requests \cup {None}]

NoCode    == [status |-> "none", client |-> None, exp |-> 0,
              pkce |-> FALSE, challenge |-> FALSE]
NoAccess  == [status |-> "none", client |-> None, exp |-> 0]
NoRefresh == [status |-> "none", client |-> None, exp |-> 0, family |-> None]

ExchangeReq == [client: Clients, code: Codes,
                redirect: BOOLEAN,    \* redirect_uri is absent or matches
                verifier: BOOLEAN]    \* code_verifier is the right one
RefreshReq  == [client: Clients, token: Requests]
RevokeReq   == [client: Clients, token: Requests, kind: {"access", "refresh"}]

ExchangePc == {"consume", "check"}
RefreshPc  == {"cas", "lookup", "rotate", "cascadeRt", "cascadeAt", "reuseReported"}
SavePc     == {"save", "saveRt", "issued"}
(* "ackedAnyway": the 200 of a revocation whose last statement failed.      *)
RevokePc   == {"revokeLookup", "revokeAt", "revokeRetry", "revokeRt", "revokeAcked",
               "ackedAnyway"}
Answered   == {"failed", "issued", "reuseReported", "revokeAcked", "ackedAnyway"}

Pc == ExchangePc \cup RefreshPc \cup RevokePc \cup SavePc \cup {"idle", "failed"}

Init ==
  /\ now = 0
  /\ codes = [c \in Codes |-> NoCode]
  /\ ats = [r \in Requests |-> NoAccess]
  /\ rts = [r \in Requests |-> NoRefresh]
  /\ req = [r \in Requests |-> None]
  /\ pc = [r \in Requests |-> "idle"]
  /\ faults = 0

-----------------------------------------------------------------------------
Goto(r, l) == pc' = [pc EXCEPT ![r] = l]

(* The statement fails: the error callback runs instead.                    *)
Fault == faults < MaxFaults /\ faults' = faults + 1

tables == <<codes, ats, rts>>

(* The client has received the pair.                                        *)
HandedOut(t) == pc[t] = "issued"

(* The pair a handler builds: client and family are copied, the lifetimes   *)
(* start now.                                                               *)
Mint(r, client, family) ==
  /\ ats' = [ats EXCEPT ![r] = [status |-> "minted", client |-> client,
                                exp |-> now + AccessTokenTtl]]
  /\ rts' = [rts EXCEPT ![r] = [status |-> "minted", client |-> client,
                                exp |-> now + RefreshTokenTtl, family |-> family]]

-----------------------------------------------------------------------------
(* generateAuthorizationCode.  The code is answered whether or not the      *)
(* insert succeeded, and the insert leaves the challenge columns NULL.      *)
GenerateAuthorizationCode(c, client, pkce) ==
  /\ codes[c].status = "none"
  /\ \/ UNCHANGED faults /\ codes' = [codes EXCEPT ![c] =
          [status |-> "unused", client |-> client, exp |-> now + AuthCodeTtl,
           pkce |-> pkce, challenge |-> FALSE]]
     \/ Fault /\ codes' = [codes EXCEPT ![c] =
          [status |-> "lost", client |-> client, exp |-> now + AuthCodeTtl,
           pkce |-> pkce, challenge |-> FALSE]]
  /\ UNCHANGED <<now, ats, rts, req, pc>>

(* grant_type=authorization_code arrives and validateClient answers.        *)
ReceiveExchange(r, q) ==
  /\ pc[r] = "idle"
  /\ codes[q.code].status # "none"
  /\ req' = [req EXCEPT ![r] = q]
  /\ \E valid \in BOOLEAN : Goto(r, IF valid THEN "consume" ELSE "failed")
  /\ UNCHANGED <<now, tables, faults>>

(* The row the UPDATE of consumeAuthCode matches.  Mutant: the condition    *)
(* used = false is missing.                                                 *)
MatchesAnyCode(c) == codes[c].status \in {"unused", "used"}
MatchesUnusedCode(c) == codes[c].status = "unused"

(* consumeAuthCode: UPDATE ... WHERE used = false RETURNING.  A mismatched  *)
(* redirect_uri is noticed after the code has been marked used.             *)
ConsumeAuthCode(r) ==
  /\ pc[r] = "consume"
  /\ LET c == req[r].code IN
       \/ /\ MatchesUnusedCode(c)
          /\ codes' = [codes EXCEPT ![c].status = "used"]
          /\ Goto(r, IF req[r].redirect THEN "check" ELSE "failed")
          /\ UNCHANGED faults
       \/ /\ ~MatchesUnusedCode(c)
          /\ Goto(r, "failed")
          /\ UNCHANGED <<codes, faults>>
       \/ Fault /\ Goto(r, "failed") /\ UNCHANGED codes
  /\ UNCHANGED <<now, ats, rts, req>>

(* The callback of consumeAuthCode: client, PKCE and expiry, then a pair of *)
(* a new family.  Mutant: the code is not compared with the client.         *)
CodeAcceptedFromAnyClient(r) ==
  LET c == codes[req[r].code] IN
    (c.challenge => req[r].verifier) /\ now <= c.exp

CodeAccepted(r) ==
  LET c == codes[req[r].code] IN
    /\ c.client = req[r].client
    /\ c.challenge => req[r].verifier
    /\ now <= c.exp

CheckAuthCode(r) ==
  /\ pc[r] = "check"
  /\ IF CodeAccepted(r)
       THEN Mint(r, codes[req[r].code].client, r) /\ Goto(r, "save")
       ELSE Goto(r, "failed") /\ UNCHANGED <<ats, rts>>
  /\ UNCHANGED <<now, codes, req, faults>>

-----------------------------------------------------------------------------
(* saveTokenPair as PostgresOAuth2Storage overrides it: two inserts in one  *)
(* transaction, the second issued when the first has succeeded.  The        *)
(* callback, hence the answer, runs when the second insert returns, or when *)
(* one of them fails.  Mutant: the first insert is not sent through the     *)
(* transaction but through the connection pool.                             *)
InsertAccessTokenOutside(r) ==
  /\ Transactional
  /\ pc[r] = "save"
  /\ ats' = [ats EXCEPT ![r].status = "live"]
  /\ Goto(r, "saveRt")
  /\ UNCHANGED <<now, codes, rts, req, faults>>

InsertAccessToken(r) ==
  /\ Transactional
  /\ pc[r] = "save"
  /\ \/ /\ ats' = [ats EXCEPT ![r].status = "uncommitted"]
        /\ Goto(r, "saveRt")
        /\ UNCHANGED <<rts, faults>>
     \/ /\ Fault
        /\ ats' = [ats EXCEPT ![r].status = "lost"]
        /\ rts' = [rts EXCEPT ![r].status = "lost"]
        /\ Goto(r, "issued")
  /\ UNCHANGED <<now, codes, req>>

InsertRefreshToken(r) ==
  /\ Transactional
  /\ pc[r] = "saveRt"
  /\ \/ rts' = [rts EXCEPT ![r].status = "uncommitted"] /\ UNCHANGED faults
     \/ Fault /\ rts' = [rts EXCEPT ![r].status = "lost"]
  /\ Goto(r, "issued")
  /\ UNCHANGED <<now, codes, ats, req>>

(* The last reference to the transaction goes, after the answer: it         *)
(* commits, the commit fails, or a statement failed and it is rolled back.  *)
EndTransaction(r) ==
  /\ pc[r] = "issued"
  /\ ats[r].status = "uncommitted"
  /\ \/ /\ rts[r].status = "uncommitted"
        /\ ats' = [ats EXCEPT ![r].status = "live"]
        /\ rts' = [rts EXCEPT ![r].status = "live"]
        /\ UNCHANGED faults
     \/ /\ rts[r].status = "uncommitted"
        /\ Fault
        /\ ats' = [ats EXCEPT ![r].status = "lost"]
        /\ rts' = [rts EXCEPT ![r].status = "lost"]
     \/ /\ rts[r].status = "lost"
        /\ ats' = [ats EXCEPT ![r].status = "lost"]
        /\ UNCHANGED <<rts, faults>>
  /\ UNCHANGED <<now, codes, req, pc>>

(* saveTokenPair as IOAuth2Storage defines it and CachedOAuth2Storage       *)
(* inherits it: saveAccessToken, then saveRefreshToken, each its own        *)
(* statement, the second issued even when the first failed.                 *)
SaveAccessToken(r) ==
  /\ ~Transactional
  /\ pc[r] = "save"
  /\ \/ ats' = [ats EXCEPT ![r].status = "live"] /\ UNCHANGED faults
     \/ Fault /\ ats' = [ats EXCEPT ![r].status = "lost"]
  /\ Goto(r, "saveRt")
  /\ UNCHANGED <<now, codes, rts, req>>

SaveRefreshToken(r) ==
  /\ ~Transactional
  /\ pc[r] = "saveRt"
  /\ \/ rts' = [rts EXCEPT ![r].status = "live"] /\ UNCHANGED faults
     \/ Fault /\ rts' = [rts EXCEPT ![r].status = "lost"]
  /\ Goto(r, "issued")
  /\ UNCHANGED <<now, codes, ats, req>>

-----------------------------------------------------------------------------
(* grant_type=refresh_token: the client presents a refresh token it was     *)
(* handed.                                                                  *)
ReceiveRefresh(r, q) ==
  /\ pc[r] = "idle"
  /\ HandedOut(q.token)
  /\ req' = [req EXCEPT ![r] = q]
  /\ Goto(r, "cas")
  /\ UNCHANGED <<now, tables, faults>>

(* The row the CAS matches.  Mutant: the condition revoked = false is       *)
(* missing.                                                                 *)
MatchesAnyRefreshToken(t) == rts[t].status \in Visible
MatchesLiveRefreshToken(t) == rts[t].status = "live"

(* atomicRevokeRefreshToken: UPDATE ... WHERE revoked = false RETURNING.    *)
AtomicRevokeRefreshToken(r) ==
  /\ pc[r] = "cas"
  /\ LET t == req[r].token IN
       \/ /\ MatchesLiveRefreshToken(t)
          /\ rts' = [rts EXCEPT ![t].status = "revoked"]
          /\ Goto(r, "rotate")
          /\ UNCHANGED faults
       \/ /\ ~MatchesLiveRefreshToken(t)
          /\ Goto(r, "lookup")
          /\ UNCHANGED <<rts, faults>>
       \/ Fault /\ Goto(r, "lookup") /\ UNCHANGED rts
  /\ UNCHANGED <<now, codes, ats, req>>

(* The callback after a successful CAS: client and expiry, then a pair that *)
(* inherits the family.  The old token stays revoked when a check fails.    *)
(* Mutant: the expiry is not checked.                                       *)
RefreshAcceptedAfterExpiry(r) == rts[req[r].token].client = req[r].client

RefreshAccepted(r) ==
  LET t == rts[req[r].token] IN t.client = req[r].client /\ now <= t.exp

RotateRefreshToken(r) ==
  /\ pc[r] = "rotate"
  /\ LET t == rts[req[r].token] IN
       IF RefreshAccepted(r)
         THEN Mint(r, t.client, t.family) /\ Goto(r, "save")
         ELSE Goto(r, "failed") /\ UNCHANGED <<ats, rts>>
  /\ UNCHANGED <<now, codes, req, faults>>

(* getRefreshToken after a failed CAS: a revoked row means reuse.  Mutant:  *)
(* the error callback does not answer.                                      *)
GetRefreshTokenWithoutAnswer(r) ==
  /\ pc[r] = "lookup"
  /\ \/ /\ Goto(r, IF rts[req[r].token].status = "revoked" THEN "cascadeRt" ELSE "failed")
        /\ UNCHANGED faults
     \/ Fault /\ Goto(r, "lookupFailed")
  /\ UNCHANGED <<now, tables, req>>

GetRefreshToken(r) ==
  /\ pc[r] = "lookup"
  /\ \/ /\ Goto(r, IF rts[req[r].token].status = "revoked" THEN "cascadeRt" ELSE "failed")
        /\ UNCHANGED faults
     \/ Fault /\ Goto(r, "failed")
  /\ UNCHANGED <<now, tables, req>>

(* revokeTokenFamily, first statement: the family's refresh tokens.  Its    *)
(* failure ends the cascade, and reuse is reported all the same.            *)
RevokeFamilyRefreshTokens(r) ==
  /\ pc[r] = "cascadeRt"
  /\ LET f == rts[req[r].token].family IN
       \/ /\ rts' = [t \in Requests |->
                       IF rts[t].family = f /\ rts[t].status = "live"
                         THEN [rts[t] EXCEPT !.status = "revoked"] ELSE rts[t]]
          /\ Goto(r, "cascadeAt")
          /\ UNCHANGED faults
       \/ Fault /\ Goto(r, "reuseReported") /\ UNCHANGED rts
  /\ UNCHANGED <<now, codes, ats, req>>

(* Second statement: the access tokens the family's visible rows name.      *)
RevokeFamilyAccessTokens(r) ==
  /\ pc[r] = "cascadeAt"
  /\ LET f == rts[req[r].token].family IN
       \/ /\ ats' = [t \in Requests |->
                       IF /\ rts[t].family = f
                          /\ rts[t].status \in Visible
                          /\ ats[t].status = "live"
                         THEN [ats[t] EXCEPT !.status = "revoked"] ELSE ats[t]]
          /\ UNCHANGED faults
       \/ Fault /\ UNCHANGED ats
  /\ Goto(r, "reuseReported")
  /\ UNCHANGED <<now, codes, rts, req>>

-----------------------------------------------------------------------------
(* POST /oauth2/revoke with either token of a pair; validateClient answers. *)
ReceiveRevoke(r, q) ==
  /\ pc[r] = "idle"
  /\ HandedOut(q.token)
  /\ req' = [req EXCEPT ![r] = q]
  /\ \E valid \in BOOLEAN : Goto(r, IF valid THEN "revokeLookup" ELSE "failed")
  /\ UNCHANGED <<now, tables, faults>>

Row(q) == IF q.kind = "access" THEN ats[q.token]
          ELSE [status |-> rts[q.token].status, client |-> rts[q.token].client,
                exp |-> rts[q.token].exp]

(* introspectToken: an unknown or inactive token is acknowledged at once,   *)
(* somebody else's token is refused.                                        *)
IntrospectForRevoke(r) ==
  /\ pc[r] = "revokeLookup"
  /\ LET row == Row(req[r]) IN
       \/ /\ row.status = "live" /\ row.exp >= now
          /\ Goto(r, IF row.client = req[r].client THEN "revokeAt" ELSE "failed")
          /\ UNCHANGED faults
       \/ /\ ~(row.status = "live" /\ row.exp >= now)
          /\ Goto(r, "revokeAcked")
          /\ UNCHANGED faults
       \/ Fault /\ Goto(r, "ackedAnyway")
  /\ UNCHANGED <<now, tables, req>>

(* revokeAccessToken updates both tables by the token string, the access    *)
(* tokens first; a failure there is retried once without the audit columns. *)
(* Mutant: the error callback goes on as if the UPDATE had been done.       *)
RevokeAccessWithoutRetry(r) ==
  /\ pc[r] = "revokeAt"
  /\ LET t == req[r].token IN
       \/ /\ ats' = IF req[r].kind = "access" /\ ats[t].status = "live"
                      THEN [ats EXCEPT ![t].status = "revoked"] ELSE ats
          /\ UNCHANGED faults
       \/ Fault /\ UNCHANGED ats
  /\ Goto(r, "revokeRt")
  /\ UNCHANGED <<now, codes, rts, req>>

RevokeAccess(r) ==
  /\ pc[r] \in {"revokeAt", "revokeRetry"}
  /\ LET t == req[r].token IN
       \/ /\ ats' = IF req[r].kind = "access" /\ ats[t].status = "live"
                      THEN [ats EXCEPT ![t].status = "revoked"] ELSE ats
          /\ Goto(r, "revokeRt")
          /\ UNCHANGED faults
       \/ /\ Fault
          /\ Goto(r, IF pc[r] = "revokeAt" THEN "revokeRetry" ELSE "ackedAnyway")
          /\ UNCHANGED ats
  /\ UNCHANGED <<now, codes, rts, req>>

RevokeRefresh(r) ==
  /\ pc[r] = "revokeRt"
  /\ LET t == req[r].token IN
       \/ /\ rts' = IF req[r].kind = "refresh" /\ rts[t].status = "live"
                      THEN [rts EXCEPT ![t].status = "revoked"] ELSE rts
          /\ Goto(r, "revokeAcked")
          /\ UNCHANGED faults
       \/ Fault /\ Goto(r, "ackedAnyway") /\ UNCHANGED rts
  /\ UNCHANGED <<now, codes, ats, req>>

-----------------------------------------------------------------------------
(* deleteExpiredData: four statements sent together, with the time at which *)
(* they were sent.  They run in any order, at any later time, from any      *)
(* server instance, and any of them may fail: each is a step of its own,    *)
(* with a cutoff that is not later than now.                                *)
Expired(row, cutoff, present) == row.status \in present /\ row.exp < cutoff

DeleteExpiredCodes(cutoff) ==
  /\ \E c \in Codes : Expired(codes[c], cutoff, {"unused", "used"})
  /\ codes' = [c \in Codes |-> IF Expired(codes[c], cutoff, {"unused", "used"})
                                 THEN [codes[c] EXCEPT !.status = "deleted"] ELSE codes[c]]
  /\ UNCHANGED <<now, ats, rts, req, pc, faults>>

DeleteExpiredAccessTokens(cutoff) ==
  /\ \E t \in Requests : Expired(ats[t], cutoff, Visible)
  /\ ats' = [t \in Requests |-> IF Expired(ats[t], cutoff, Visible)
                                  THEN [ats[t] EXCEPT !.status = "deleted"] ELSE ats[t]]
  /\ UNCHANGED <<now, codes, rts, req, pc, faults>>

DeleteExpiredRefreshTokens(cutoff) ==
  /\ \E t \in Requests : Expired(rts[t], cutoff, Visible)
  /\ rts' = [t \in Requests |-> IF Expired(rts[t], cutoff, Visible)
                                  THEN [rts[t] EXCEPT !.status = "deleted"] ELSE rts[t]]
  /\ UNCHANGED <<now, codes, ats, req, pc, faults>>

(* archive_expired_tokens moves the access tokens that expired before its   *)
(* own, older cutoff out of the table, and those revoked before it: of the  *)
(* revoked ones some, for a token is revoked at any time after its minting. *)
ArchiveExpiredTokens(cutoff) ==
  \E S \in SUBSET {t \in Requests : ats[t].status = "revoked"
                                     /\ ats[t].exp < cutoff + AccessTokenTtl} :
    LET archived == S \cup {t \in Requests : Expired(ats[t], cutoff, Visible)} IN
      /\ archived # {}
      /\ ats' = [t \in Requests |-> IF t \in archived
                                      THEN [ats[t] EXCEPT !.status = "deleted"] ELSE ats[t]]
      /\ UNCHANGED <<now, codes, rts, req, pc, faults>>

DeleteExpiredData ==
  \E cutoff \in 0..now :
    \/ DeleteExpiredCodes(cutoff)
    \/ DeleteExpiredAccessTokens(cutoff)
    \/ DeleteExpiredRefreshTokens(cutoff)
    \/ ArchiveExpiredTokens(cutoff)

Tick ==
  /\ now < MaxTime
  /\ now' = now + 1
  /\ UNCHANGED <<tables, req, pc, faults>>

-----------------------------------------------------------------------------
Receive(r) ==
  \/ \E q \in ExchangeReq : ReceiveExchange(r, q)
  \/ \E q \in RefreshReq : ReceiveRefresh(r, q)
  \/ \E q \in RevokeReq : ReceiveRevoke(r, q)

(* What the server does next for request r.                                 *)
Handle(r) ==
  \/ ConsumeAuthCode(r)
  \/ CheckAuthCode(r)
  \/ InsertAccessToken(r)
  \/ InsertRefreshToken(r)
  \/ SaveAccessToken(r)
  \/ SaveRefreshToken(r)
  \/ AtomicRevokeRefreshToken(r)
  \/ RotateRefreshToken(r)
  \/ GetRefreshToken(r)
  \/ RevokeFamilyRefreshTokens(r)
  \/ RevokeFamilyAccessTokens(r)
  \/ IntrospectForRevoke(r)
  \/ RevokeAccess(r)
  \/ RevokeRefresh(r)

Next ==
  \/ \E c \in Codes, client \in Clients, pkce \in PkceChoices :
       GenerateAuthorizationCode(c, client, pkce)
  \/ \E r \in Requests : Receive(r) \/ Handle(r) \/ EndTransaction(r)
  \/ DeleteExpiredData
  \/ Tick

Spec == Init /\ [][Next]_vars

(* The database answers every statement, with a result or an error, and     *)
(* ends every transaction.                                                  *)
FairSpec == Spec /\ \A r \in Requests : WF_vars(Handle(r)) /\ WF_vars(EndTransaction(r))

-----------------------------------------------------------------------------
TypeOK ==
  /\ now \in Nat
  /\ codes \in [Codes -> CodeRow]
  /\ ats \in [Requests -> AccessRow]
  /\ rts \in [Requests -> RefreshRow]
  /\ req \in [Requests -> ExchangeReq \cup RefreshReq \cup RevokeReq \cup {None}]
  /\ pc \in [Requests -> Pc]
  /\ faults \in Nat

Minted(r) == rts[r].status # "none"

(* r redeemed a code and founded a family; r rotated a refresh token.       *)
Founder(r) == rts[r].family = r
Rotator(r) == rts[r].family \notin {r, None}

(* The code a minted pair descends from.                                    *)
Origin(r) == req[rts[r].family].code

(* The requests whose refresh token is, or may still become, the one with   *)
(* which family f goes on: a pair not revoked yet, or a rotation that has   *)
(* won its CAS and not minted yet.                                          *)
Holders(f) ==
  {r \in Requests : \/ rts[r].family = f /\ rts[r].status \in Usable
                    \/ pc[r] = "rotate" /\ rts[req[r].token].family = f}

(* However many requests race to redeem a code, at most one of them ever    *)
(* gets a pair for it: consumeAuthCode lets one UPDATE match.               *)
OneFamilyPerCode ==
  \A r, s \in Requests :
    Founder(r) /\ Founder(s) /\ req[r].code = req[s].code => r = s

(* A family never has two refresh tokens that could be used, neither stored *)
(* nor under way, whatever rotations, reuses, revocations and cleanups      *)
(* interleave.                                                              *)
OneUsableRefreshToken ==
  \A f \in Requests : \A r, s \in Holders(f) : r = s

(* Rotation is a chain: a refresh token that was exchanged for a new pair   *)
(* is spent, has one successor, and the successor is of its family.         *)
RotationIsAChain ==
  \A r, s \in Requests :
    Rotator(r) =>
      /\ rts[req[r].token].status \notin Usable
      /\ rts[r].family = rts[req[r].token].family
      /\ Rotator(s) /\ req[s].token = req[r].token => r = s

(* Every pair of a family goes to the client the code was issued to, along  *)
(* any number of rotations.                                                 *)
TokensGoToTheirClient ==
  \A r \in Requests :
    Minted(r) => /\ rts[r].client = req[r].client
                 /\ ats[r].client = req[r].client
                 /\ codes[Origin(r)].client = req[r].client

(* A pair is minted only while the code or the refresh token it was minted  *)
(* for had not expired, so a chain of rotations has no gap longer than a    *)
(* refresh token lives.                                                     *)
MintedInTime ==
  \A r \in Requests :
    /\ Founder(r) => rts[r].exp <= codes[req[r].code].exp + RefreshTokenTtl
    /\ Rotator(r) => rts[r].exp <= rts[req[r].token].exp + RefreshTokenTtl

(* A family that has no usable refresh token, stored or under way, never    *)
(* has one again: a cascade that runs while no rotation is under way is     *)
(* final.                                                                   *)
DeadFamilyStaysDead ==
  [][\A f \in Requests : Founder(f) /\ Holders(f) = {} => Holders(f)' = {}]_vars

(* With PostgreSQL's own saveTokenPair no other connection ever sees one    *)
(* token of a pair without the other: not between the two inserts, not when *)
(* the second fails alone, not when the commit fails after the answer.  A   *)
(* lone access token would escape the cascade, which finds it by the        *)
(* refresh token's row.                                                     *)
PairIsAtomic ==
  \A r \in Requests :
    ats[r].status \in {"live", "revoked", "deleted"}
      <=> rts[r].status \in {"live", "revoked", "deleted"}

(* The interface's promise of saveTokenPair: its callback, which answers    *)
(* the request, is invoked when both tokens are saved, or on failure.       *)
AnsweredWhenSaved ==
  \A r \in Requests :
    HandedOut(r) => /\ ats[r].status \notin {"minted", "uncommitted"}
                    /\ rts[r].status \notin {"minted", "uncommitted"}

(* An acknowledged revocation holds: a client that revoked its token, all   *)
(* statements of the revocation having succeeded in the end, has a token    *)
(* that is not accepted and never will be, whatever rotations, cascades,    *)
(* other revocations, retries and cleanups interleave.                      *)
RevocationHolds ==
  \A r \in Requests :
    pc[r] = "revokeAcked" =>
      ~(Row(req[r]).status \in Usable /\ now <= Row(req[r]).exp)

(* revokeTokenFamily revokes all refresh tokens of the family and their     *)
(* access tokens: once reuse has been reported nothing of it is live.       *)
ReuseRevokesFamily ==
  \A r, t \in Requests :
    pc[r] = "reuseReported" /\ rts[t].family = rts[req[r].token].family
      => ats[t].status # "live" /\ rts[t].status # "live"

(* A code whose authorization carried a code_challenge is redeemed only     *)
(* with the right code_verifier.                                            *)
ChallengeNeedsVerifier ==
  \A r \in Requests : Founder(r) /\ codes[req[r].code].pkce => req[r].verifier

(* Every request is answered, whatever statements fail: each branch of each *)
(* callback leads to the response.                                          *)
EveryRequestAnswered ==
  \A r \in Requests : pc[r] # "idle" ~> pc[r] \in Answered

-----------------------------------------------------------------------------
(* The inductive invariant: the conjuncts below are what one step needs to  *)
(* know of the others for the properties above to be preserved.             *)

(* r has consumed its code, and r has won the CAS on its refresh token.     *)
Redeemed(r) == pc[r] = "check" \/ Founder(r)
Rotated(r) == pc[r] = "rotate" \/ Rotator(r)

(* A request carries the parameters of the handler it is in.                *)
RequestFits(r) ==
  /\ pc[r] \in ExchangePc \/ Founder(r) => req[r] \in ExchangeReq
  /\ pc[r] \in RefreshPc \/ Rotator(r) => req[r] \in RefreshReq /\ Minted(req[r].token)
  /\ pc[r] \in RevokePc => req[r] \in RevokeReq

(* A pair is where its request is.                                          *)
PairFits(r) ==
  /\ Minted(r) <=> pc[r] \in SavePc
  /\ rts[r].status = "minted" <=> pc[r] \in {"save", "saveRt"}
  /\ Minted(r) => rts[r].family \in Requests /\ Founder(rts[r].family)
  /\ ~Minted(r) => rts[r].family = None

(* A consumed code stays consumed, for one request.                         *)
RedeemedOnce ==
  \A r \in Requests :
    Redeemed(r) =>
      /\ codes[req[r].code].status \in {"used", "deleted"}
      /\ \A s \in Requests : Redeemed(s) /\ req[r].code = req[s].code => r = s

(* A rotated refresh token stays revoked, for one request.                  *)
RotatedOnce ==
  \A r \in Requests :
    Rotated(r) =>
      /\ rts[req[r].token].status \in {"revoked", "deleted"}
      /\ \A s \in Requests : Rotated(s) /\ req[r].token = req[s].token => r = s

FamilyInherited ==
  \A r \in Requests : Rotator(r) => rts[r].family = rts[req[r].token].family

IInv ==
  /\ TypeOK
  /\ \A r \in Requests : RequestFits(r) /\ PairFits(r)
  /\ RedeemedOnce
  /\ RotatedOnce
  /\ FamilyInherited
  /\ OneUsableRefreshToken
  /\ TokensGoToTheirClient
  /\ MintedInTime
=============================================================================
