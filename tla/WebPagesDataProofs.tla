-------------------------- MODULE WebPagesDataProofs --------------------------
(***************************************************************************)
(* Proofs about WebPages, for any one page, any data, any number of inputs *)
(* and requests: what the pages show of the server's data, and what they   *)
(* make of it.                                                             *)
(***************************************************************************)
EXTENDS WebPagesProofs

-----------------------------------------------------------------------------
(* Two fetches that are under way together fetch different things.          *)
LEMMA ReadsApart ==
  ASSUME NEW cs, ~Overlap(cs), NEW c \in cs, NEW d \in cs, c # d,
         c.op = "read", d.op = "read", c.fn # "createClient", d.fn # "createClient"
  PROVE  c.body \cap d.body = {}
<1>1. Shows(c) = c.body /\ Shows(d) = d.body
  BY DEF Shows
<1> QED BY <1>1 DEF Overlap

-----------------------------------------------------------------------------
(* The security page shows the state of two-factor authentication and the   *)
(* passkeys; a change that has been heard of is fetched, and no fetch that  *)
(* was answered before it comes after that.                                 *)
MfaTold == \E c \in calls : c.fn \in {"verifyMfaSetup", "disableMfa"} /\ c.st = "ok"

KeysTold == \E c \in calls : c.op = "finish" /\ c.st = "ok"

SecurityReads ==
  \A c \in calls : /\ c.fn = "fetchProfile" => c.body = {"mfa"}
                   /\ c.fn = "fetchWebauthnCredentials" => c.body = {"passkeys"}

MfaCurrent ==
  /\ \A c \in calls : c.fn = "fetchProfile" /\ c.st = "ok" => c.res.enabled = db.enabled \/ MfaTold
  /\ ui.mfa = db.enabled \/ MfaTold \/ \E c \in calls : c.fn = "fetchProfile"

KeysCurrent ==
  /\ \A c \in calls :
       c.fn = "fetchWebauthnCredentials" /\ c.st = "ok" => c.res.passkeys = db.passkeys \/ KeysTold
  /\ ui.passkeys = db.passkeys \/ KeysTold \/ \E c \in calls : c.fn = "fetchWebauthnCredentials"

SecurityCurrent ==
  SecurityReads /\ (marks \subseteq {"blind", "misled"} => MfaCurrent /\ KeysCurrent)

(* What every step of the page may count on.                                *)
SecurityKnown ==
  /\ SecurityCurrent /\ SecurityTypes /\ ReadsMarked /\ SecurityCalls
  /\ \A c \in calls : /\ c.fn \in {"fetchProfile", "fetchWebauthnCredentials"} <=> c.op = "read"
                      /\ c.op = "finish" => c.fn = "registerPasskey"

LEMMA SetupCurrent ==
  ASSUME SecurityKnown, SetupAsked \/ SetupHeard \/ VerifyAsked \/ Cancelled \/ DisableAsked \/ OtherAsked
  PROVE  SecurityCurrent'
<1>1. CASE SetupAsked \/ VerifyAsked \/ DisableAsked \/ OtherAsked
  <2>1. PICK d : /\ New(d, calls) /\ calls' = calls \cup {d}
                 /\ d.fn \notin {"fetchProfile", "fetchWebauthnCredentials"}
    BY <1>1 DEF SetupAsked, VerifyAsked, DisableAsked, OtherAsked, Joins
  <2>2. db' = db /\ marks \subseteq marks' /\ ui'.mfa = ui.mfa /\ ui'.passkeys = ui.passkeys
    BY <1>1 DEF SetupAsked, VerifyAsked, DisableAsked, OtherAsked, Same, Waits
  <2> QED BY <2>1, <2>2 DEF SecurityKnown, SecurityCurrent, SecurityReads, MfaCurrent, KeysCurrent, MfaTold,
                        KeysTold, New
<1>2. CASE SetupHeard
  BY <1>2 DEF SetupHeard, Same, Waits, SecurityKnown, SecurityCurrent, SecurityReads, MfaCurrent,
              KeysCurrent, MfaTold, KeysTold
<1>3. CASE Cancelled
  BY <1>3 DEF Cancelled, Same, SecurityKnown, SecurityCurrent, SecurityReads, MfaCurrent, KeysCurrent,
              MfaTold, KeysTold
<1> QED BY <1>1, <1>2, <1>3

(* A change of MFA that has been heard of is followed by a fetch.           *)
LEMMA MfaHeardCurrent ==
  ASSUME SecurityKnown, VerifyHeard \/ DisableHeard
  PROVE  SecurityCurrent'
<1>1. PICK c \in calls :
        /\ c.fn \in {"verifyMfaSetup", "disableMfa"}
        /\ \/ /\ c.st = "ok"
              /\ \E flag : \E d : Joins(d, calls \ {c}, "fetchProfile", "read", {"mfa"}, flag)
           \/ c.st = "failed" /\ calls' = calls \ {c}
        /\ Same({"mfa", "passkeys"}) /\ Waits
  BY DEF VerifyHeard, DisableHeard, Same
<1>2. /\ db' = db /\ marks \subseteq marks' /\ ui'.mfa = ui.mfa /\ ui'.passkeys = ui.passkeys
      /\ "overlap" \notin marks' => ~Overlap(calls')
  BY <1>1 DEF Same, Waits
<1>3. CASE c.st = "failed" /\ calls' = calls \ {c}
  BY <1>1, <1>2, <1>3 DEF SecurityKnown, SecurityCurrent, SecurityReads, MfaCurrent, KeysCurrent, MfaTold,
                          KeysTold
<1>4. ASSUME NEW flag, NEW d, Joins(d, calls \ {c}, "fetchProfile", "read", {"mfa"}, flag), c.st = "ok"
      PROVE  SecurityCurrent'
  <2>1. /\ calls' = (calls \ {c}) \cup {d} /\ d \notin calls \ {c}
        /\ d.fn = "fetchProfile" /\ d.op = "read" /\ d.body = {"mfa"} /\ d.st = "sent"
    BY <1>4 DEF Joins, New
  <2>2. SecurityReads'
    BY <2>1 DEF SecurityKnown, SecurityCurrent, SecurityReads
  <2>3. marks' \subseteq {"blind", "misled"} => \A e \in calls \ {c} : e.fn # "fetchProfile"
    BY <1>2, <2>1, ReadsApart DEF SecurityKnown, SecurityCurrent, SecurityReads
  <2>4. marks' \subseteq {"blind", "misled"} => MfaCurrent'
    BY <1>2, <2>1, <2>3 DEF MfaCurrent
  <2>5. marks' \subseteq {"blind", "misled"} => KeysCurrent'
    BY <1>1, <1>2, <2>1 DEF SecurityKnown, SecurityCurrent, KeysCurrent, KeysTold
  <2> QED BY <2>2, <2>4, <2>5 DEF SecurityCurrent
<1> QED BY <1>1, <1>3, <1>4

(* The fetches themselves, and the end of a registration.                   *)
LEMMA FetchedCurrent ==
  ASSUME SecurityKnown, ProfileHeard \/ PasskeysHeard
  PROVE  SecurityCurrent'
<1>1. CASE ProfileHeard
  <2>1. PICK c \in calls :
          /\ c.fn = "fetchProfile"
          /\ \/ /\ c.st = "ok" /\ ui'.mfa = c.res.enabled
                /\ \E d : Joins(d, calls \ {c}, "fetchWebauthnCredentials", "read", {"passkeys"}, "none")
             \/ c.st = "failed" /\ ui'.mfa = ui.mfa /\ calls' = calls \ {c}
          /\ Same({"setup", "passkeys"}) /\ Waits
    BY <1>1 DEF ProfileHeard
  <2>2. /\ db' = db /\ marks \subseteq marks' /\ ui'.passkeys = ui.passkeys
        /\ "overlap" \notin marks' => ~Overlap(calls') /\ c.op = "read" /\ c.op # "finish"
    BY <2>1 DEF Same, Waits, SecurityKnown
  <2>3. CASE c.st = "failed" /\ calls' = calls \ {c}
    <3>1. ~(marks \subseteq {"blind", "misled"})
      BY <2>1, <2>3 DEF SecurityKnown, ReadsMarked
    <3> QED BY <2>2, <2>3, <3>1 DEF SecurityKnown, SecurityCurrent, SecurityReads
  <2>4. ASSUME NEW d, Joins(d, calls \ {c}, "fetchWebauthnCredentials", "read", {"passkeys"}, "none"),
               c.st = "ok", ui'.mfa = c.res.enabled
        PROVE  SecurityCurrent'
    <3>1. /\ calls' = (calls \ {c}) \cup {d} /\ d \notin calls \ {c}
          /\ d.fn = "fetchWebauthnCredentials" /\ d.op = "read" /\ d.body = {"passkeys"} /\ d.st = "sent"
      BY <2>4 DEF Joins, New
    <3>2. SecurityReads'
      BY <3>1 DEF SecurityKnown, SecurityCurrent, SecurityReads
    <3>3. marks' \subseteq {"blind", "misled"} => MfaCurrent'
      BY <2>1, <2>2, <2>4, <3>1 DEF SecurityKnown, SecurityCurrent, MfaCurrent, MfaTold
    <3>4. marks' \subseteq {"blind", "misled"} => KeysCurrent'
      BY <2>1, <2>2, <3>1 DEF SecurityKnown, SecurityCurrent, KeysCurrent, KeysTold
    <3> QED BY <3>2, <3>3, <3>4 DEF SecurityCurrent
  <2> QED BY <2>1, <2>3, <2>4
<1>2. CASE PasskeysHeard
  <2>1. PICK c \in calls :
          /\ c.fn = "fetchWebauthnCredentials" /\ c.st \in {"ok", "failed"} /\ calls' = calls \ {c}
          /\ ui'.passkeys = IF c.st = "ok" THEN c.res.passkeys ELSE ui.passkeys
          /\ Same({"mfa", "setup"}) /\ Waits
    BY <1>2 DEF PasskeysHeard
  <2>2. db' = db /\ marks \subseteq marks' /\ ui'.mfa = ui.mfa /\ c.op # "finish"
    BY <2>1 DEF Same, Waits, SecurityKnown
  <2>3. SecurityReads'
    BY <2>1 DEF SecurityKnown, SecurityCurrent, SecurityReads
  <2>4. c.st = "ok" \/ ~(marks \subseteq {"blind", "misled"})
    BY <2>1 DEF SecurityKnown, ReadsMarked
  <2>5. marks' \subseteq {"blind", "misled"} => MfaCurrent'
    BY <2>1, <2>2 DEF SecurityKnown, SecurityCurrent, MfaCurrent, MfaTold
  <2>6. marks' \subseteq {"blind", "misled"} => KeysCurrent'
    BY <2>1, <2>2, <2>4 DEF SecurityKnown, SecurityCurrent, KeysCurrent, KeysTold
  <2> QED BY <2>3, <2>5, <2>6 DEF SecurityCurrent
<1> QED BY <1>1, <1>2

LEMMA OtherHeardCurrent ==
  ASSUME SecurityKnown, OtherHeard
  PROVE  SecurityCurrent'
<1>1. PICK c \in calls :
        /\ c.fn \in {"changePassword", "registerPasskey"}
        /\ \/ calls' = calls \ {c} /\ (c.op = "finish" => c.st = "failed")
           \/ \E d : /\ New(d, calls \ {c}) /\ calls' = (calls \ {c}) \cup {d}
                     /\ d.fn = "registerPasskey" /\ c.op # "finish"
           \/ \E d : Joins(d, calls \ {c}, "fetchWebauthnCredentials", "read", {"passkeys"}, c.flag)
        /\ Same({"mfa", "passkeys"}) /\ Waits
  BY DEF OtherHeard, Same
<1>2. /\ db' = db /\ marks \subseteq marks' /\ ui'.mfa = ui.mfa /\ ui'.passkeys = ui.passkeys
      /\ "overlap" \notin marks' => ~Overlap(calls')
  BY <1>1 DEF Same, Waits
<1>4. CASE calls' = calls \ {c} /\ (c.op = "finish" => c.st = "failed")
  <2>1. SecurityReads'
    BY <1>4 DEF SecurityKnown, SecurityCurrent, SecurityReads
  <2>2. marks' \subseteq {"blind", "misled"} => MfaCurrent'
    BY <1>1, <1>2, <1>4 DEF SecurityKnown, SecurityCurrent, MfaCurrent, MfaTold, New
  <2>3. marks' \subseteq {"blind", "misled"} => KeysCurrent'
    BY <1>1, <1>2, <1>4 DEF SecurityKnown, SecurityCurrent, KeysCurrent, KeysTold, New
  <2> QED BY <2>1, <2>2, <2>3 DEF SecurityCurrent
<1>5. ASSUME NEW d, New(d, calls \ {c}), calls' = (calls \ {c}) \cup {d}, d.fn = "registerPasskey",
             c.op # "finish"
      PROVE  SecurityCurrent'
  <2>1. SecurityReads'
    BY <1>5 DEF SecurityKnown, SecurityCurrent, SecurityReads
  <2>2. marks' \subseteq {"blind", "misled"} => MfaCurrent'
    BY <1>1, <1>2, <1>5 DEF SecurityKnown, SecurityCurrent, MfaCurrent, MfaTold, New
  <2>3. marks' \subseteq {"blind", "misled"} => KeysCurrent'
    BY <1>1, <1>2, <1>5 DEF SecurityKnown, SecurityCurrent, KeysCurrent, KeysTold, New
  <2> QED BY <2>1, <2>2, <2>3 DEF SecurityCurrent
<1>6. ASSUME NEW d, Joins(d, calls \ {c}, "fetchWebauthnCredentials", "read", {"passkeys"}, c.flag)
      PROVE  SecurityCurrent'
  <2>1. /\ calls' = (calls \ {c}) \cup {d} /\ d \notin calls \ {c}
        /\ d.fn = "fetchWebauthnCredentials" /\ d.op = "read" /\ d.body = {"passkeys"} /\ d.st = "sent"
    BY <1>6 DEF Joins, New
  <2>2. SecurityReads'
    BY <2>1 DEF SecurityKnown, SecurityCurrent, SecurityReads
  <2>3. marks' \subseteq {"blind", "misled"} => \A e \in calls \ {c} : e.fn # "fetchWebauthnCredentials"
    BY <1>2, <2>1, ReadsApart DEF SecurityKnown, SecurityCurrent, SecurityReads
  <2>4. marks' \subseteq {"blind", "misled"} => KeysCurrent'
    BY <1>2, <2>1, <2>3 DEF KeysCurrent
  <2>5. marks' \subseteq {"blind", "misled"} => MfaCurrent'
    BY <1>1, <1>2, <2>1 DEF SecurityKnown, SecurityCurrent, MfaCurrent, MfaTold
  <2> QED BY <2>2, <2>4, <2>5 DEF SecurityCurrent
<1> QED BY <1>1, <1>4, <1>5, <1>6

LEMMA ServedCurrent ==
  ASSUME SecurityKnown, SecurityServed
  PROVE  SecurityCurrent'
<1>1. PICK c \in calls : \E e : Turns(e, c) /\ ServesSecurity(c, e)
  BY DEF SecurityServed
<1>2. PICK e : Turns(e, c) /\ ServesSecurity(c, e)
  BY <1>1
<1>3. /\ calls' = (calls \ {c}) \cup {e} /\ e.fn = c.fn /\ e.op = c.op /\ e.body = c.body /\ ui' = ui
      /\ c.st # "ok" /\ marks \subseteq marks'
  BY <1>2 DEF Turns, Answers, SecurityServed, ServesSecurity, Serves, Fails
<1>4. SecurityReads'
  BY <1>3 DEF SecurityKnown, SecurityCurrent, SecurityReads
<1>5. MfaTold => MfaTold'
  BY <1>3 DEF MfaTold
<1>6. KeysTold => KeysTold'
  BY <1>3 DEF KeysTold
<1>7. \A d, r : Serves(c, e, d, r) => db' = db \/ (db' = d /\ e.st = "ok") \/ "lost" \in marks'
  BY DEF Serves, Fails
<1>8. /\ marks' \subseteq {"blind", "misled"} => db'.enabled = db.enabled \/ MfaTold'
      /\ marks' \subseteq {"blind", "misled"} => db'.passkeys = db.passkeys \/ KeysTold'
  <2>1. DOMAIN db = {"enabled", "secret", "issued", "passkeys", "passwords"}
    BY DEF SecurityKnown, SecurityTypes
  <2>2. CASE c.fn = "setupMfa" /\ \E s \in Secrets : Serves(c, e, Stored(s), {s})
    <3>1. \A s : Stored(s).enabled = db.enabled /\ Stored(s).passkeys = db.passkeys
      BY <2>1 DEF Stored
    <3> QED BY <1>7, <2>2, <3>1
  <2>3. CASE c.fn = "verifyMfaSetup" /\ Serves(c, e, [db EXCEPT !.enabled = TRUE], None)
    <3>1. [db EXCEPT !.enabled = TRUE].passkeys = db.passkeys
      BY <2>1
    <3> QED BY <1>3, <1>7, <2>3, <3>1 DEF MfaTold
  <2>4. CASE c.fn = "disableMfa" /\ Serves(c, e, [db EXCEPT !.enabled = FALSE, !.secret = {}], None)
    <3>1. [db EXCEPT !.enabled = FALSE, !.secret = {}].passkeys = db.passkeys
      BY <2>1
    <3> QED BY <1>3, <1>7, <2>4, <3>1 DEF MfaTold
  <2>5. CASE Serves(c, e, [db EXCEPT !.passwords = @ + 1], None)
    <3>1. /\ [db EXCEPT !.passwords = @ + 1].passkeys = db.passkeys
          /\ [db EXCEPT !.passwords = @ + 1].enabled = db.enabled
      BY <2>1
    <3> QED BY <1>7, <2>5, <3>1
  <2>6. CASE c.op = "finish" /\ Serves(c, e, [db EXCEPT !.passkeys = @ + 1], None)
    <3>1. [db EXCEPT !.passkeys = @ + 1].enabled = db.enabled
      BY <2>1
    <3> QED BY <1>3, <1>7, <2>6, <3>1 DEF KeysTold
  <2>7. CASE \E r : Serves(c, e, db, r)
    BY <1>7, <2>7
  <2>8. CASE UNCHANGED db
    BY <2>8
  <2> QED BY <1>2, <2>2, <2>3, <2>4, <2>5, <2>6, <2>7, <2>8 DEF ServesSecurity
<1>9. marks' \subseteq {"blind", "misled"} /\ c.op = "read" => e.res = db' /\ db' = db
  <2>1. c.op = "read" => c.fn \notin 
             {"setupMfa", "verifyMfaSetup", "disableMfa", "changePassword", "registerPasskey"}
    BY DEF SecurityKnown
  <2> QED BY <1>2, <2>1 DEF ServesSecurity, Serves, Fails
<1>10. marks' \subseteq {"blind", "misled"} => MfaCurrent'
  BY <1>3, <1>5, <1>8, <1>9 DEF SecurityKnown, SecurityCurrent, MfaCurrent
<1>11. marks' \subseteq {"blind", "misled"} => KeysCurrent'
  BY <1>3, <1>6, <1>8, <1>9 DEF SecurityKnown, SecurityCurrent, KeysCurrent
<1> QED BY <1>4, <1>10, <1>11 DEF SecurityCurrent

-----------------------------------------------------------------------------
(* Every step of the security page keeps this.                              *)
LEMMA SecurityStepCurrent ==
  ASSUME PageInv, page = "security", SecurityCurrent, SecurityPageNext
  PROVE  SecurityCurrent'
<1>1. Base /\ SecurityTypes /\ ReadsMarked
  BY DEF PageInv, SecurityFits
<1>2. SecurityKnown
  BY <1>1, SecurityCallsHold, SecurityKinds DEF SecurityKnown
<1>3. CASE ServeSecurity
  <2>1. SecurityServed
    BY <1>1, <1>3, ServeSecurityForm DEF SecurityTypes
  <2> QED BY <1>2, <2>1, ServedCurrent
<1> QED BY <1>1, <1>2, <1>3, SecurityForms, SetupCurrent, MfaHeardCurrent, FetchedCurrent, OtherHeardCurrent

LEMMA SecurityMountedCurrent ==
  ASSUME page = "security", SecurityMounted
  PROVE  SecurityCurrent
<1>1. Fits("fetchProfile", "read", "none")
  BY DEF Fits, Asks, FlagFits
<1>2. PICK d : /\ Sent({}, "fetchProfile", "read", {"mfa"}, "none") = {d}
               /\ d.op = "read" /\ d.body = {"mfa"} /\ Awaits("fetchProfile", "none", {}, d)
  BY <1>1, OneAwaited
<1>3. calls = {d} /\ d.fn = "fetchProfile" /\ d.st = "sent"
  BY <1>2 DEF SecurityMounted, Awaits, New
<1>4. ui.passkeys = 0 /\ db.passkeys = 0
  BY DEF SecurityMounted
<1> QED BY <1>2, <1>3, <1>4 DEF SecurityCurrent, SecurityReads, MfaCurrent, KeysCurrent

-----------------------------------------------------------------------------
(* The steps of the tokens page.                                            *)
TokensKinds ==
  \A c \in calls : /\ c.fn = "fetchTokens" <=> c.op = "search"
                   /\ c.fn = "revoke" <=> c.op = "revoke"
                   /\ c.op \in {"search", "revoke"}

LEMMA TokensKindsHold ==
  ASSUME Base, page = "tokens"
  PROVE  TokensKinds
BY DEF Base, CallsFit, IsCall, Fits, Asks, TokensKinds

TokensServed ==
  /\ ui' = ui
  /\ \E c \in calls : \E e :
       /\ Turns(e, c) /\ marks \subseteq marks'
       /\ \/ /\ c.op = "search" /\ c.st = "sent" /\ db' = db
             /\ e.st = "ok" => e.res = Found(c.body, db.live)
             /\ e.st = "ok" \/ ~(marks' \subseteq {"blind", "misled"})
          \/ /\ c.op = "revoke" /\ DOMAIN db' = DOMAIN db /\ db'.live \subseteq db.live
             /\ \/ "lost" \in marks'
                \/ c.st = "sent" /\ db' = db
                \/ e.st \in {"half", "ok"}

TokensElsewhere ==
  ui' = ui /\ calls' = calls /\ "other" \in marks' /\ DOMAIN db' = DOMAIN db /\ db'.live \subseteq db.live \cup Tokens

TokensSearched ==
  /\ Waits
  /\ \E d : \E body : Joins(d, calls, "fetchTokens", "search", body, "none")
  /\ ui'.shown = ui.shown /\ ui'.asked = ui.asked

TokensFetched ==
  /\ Waits
  /\ \E c \in calls :
       /\ c.op = "search" /\ c.st \in {"ok", "failed"} /\ calls' = calls \ {c}
       /\ ui'.shown = IF c.st = "ok" THEN c.res ELSE ui.shown
       /\ ui'.asked = IF c.st = "ok" THEN c.body ELSE ui.asked

TokensTyped == UNCHANGED <<db, calls, marks>> /\ ui'.shown = ui.shown /\ ui'.asked = ui.asked

TokensConfirmed ==
  /\ Waits /\ ui' = ui
  /\ \E d : \E body : Joins(d, calls, "revoke", "revoke", body, "confirm")

TokensRevoked ==
  /\ Waits
  /\ \E c \in calls :
       /\ c.op = "revoke"
       /\ \/ c.st = "ok" /\ \E d : \E body : Joins(d, calls \ {c}, "fetchTokens", "search", body, "confirm")
          \/ c.st = "failed" /\ calls' = calls \ {c}
  /\ ui'.shown = ui.shown /\ ui'.asked = ui.asked

TokensStep ==
  \/ TokensServed \/ TokensElsewhere \/ TokensSearched \/ TokensFetched
  \/ TokensTyped \/ TokensConfirmed \/ TokensRevoked

LEMMA RevokeOneForm ==
  ASSUME Base, page = "tokens", DOMAIN db = {"live"}, NEW c \in calls, c.op = "revoke", c.st = "sent",
         RevokeOne(c)
  PROVE  TokensServed
<1> DEFINE pre == Struck(c.body, db.live) # {}
           d == [db EXCEPT !.live = @ \ Struck(c.body, @)]
<1>1. Reply(c, pre, d, None)
  BY DEF RevokeOne
<1>2. DOMAIN d = DOMAIN db /\ d.live \subseteq db.live
  OBVIOUS
<1> HIDE DEF pre, d
<1>3. PICK e : Turns(e, c) /\ Serves(c, e, d, None)
  BY <1>1, ReplyServes
<1>4. ui' = ui
  BY <1>1, ReplyServes
<1> QED BY <1>2, <1>3, <1>4 DEF TokensServed, Serves, Fails

LEMMA RevokeAllForm ==
  ASSUME Base, page = "tokens", DOMAIN db = {"live"}, NEW c \in calls, c.op = "revoke", RevokeAll(c)
  PROVE  TokensServed
<1> DEFINE d == [db EXCEPT !.live = @ \ Struck(c.body, @)]
<1>1. DOMAIN d = DOMAIN db /\ d.live \subseteq db.live
  OBVIOUS
<1>2. PICK st \in {"half", "ok", "failed"} :
        /\ Answer(c, st, None) /\ ui' = ui /\ marks \subseteq marks' /\ db' \in {db, d}
        /\ "lost" \in marks' \/ (c.st = "sent" /\ db' = db) \/ st \in {"half", "ok"}
  BY DEF RevokeAll
<1> HIDE DEF d
<1>3. PICK e : Turns(e, c) /\ e.st = st
  BY <1>2, AnswerNew DEF Turns, Base, CallsFit
<1> QED BY <1>1, <1>2, <1>3 DEF TokensServed

LEMMA TokensServedForm ==
  ASSUME Base, page = "tokens", DOMAIN db = {"live"}, ServeTokens
  PROVE  TokensServed
<1>1. PICK c \in calls :
        \/ c.op = "search" /\ c.st = "sent" /\ Reply(c, TRUE, db, Found(c.body, db.live))
        \/ c.op = "revoke" /\ c.st = "sent" /\ RevokeOne(c)
        \/ c.op = "revoke" /\ RevokeAll(c)
  BY DEF ServeTokens
<1>2. CASE c.op = "search" /\ c.st = "sent" /\ Reply(c, TRUE, db, Found(c.body, db.live))
  <2>1. PICK e : Turns(e, c) /\ Serves(c, e, db, Found(c.body, db.live))
    BY <1>2, ReplyServes
  <2>2. ui' = ui
    BY <1>2, ReplyServes
  <2> QED BY <1>2, <2>1, <2>2 DEF TokensServed, Serves, Fails
<1> QED BY <1>1, <1>2, RevokeOneForm, RevokeAllForm

LEMMA TokensSearchedForm ==
  ASSUME Base, page = "tokens", ApplyFilters \/ ClearFilters \/ PreviousPage \/ NextPage
  PROVE  TokensSearched
<1>1. Fits("fetchTokens", "search", "none")
  BY DEF Fits, Asks, FlagFits
<1>2. ASSUME NEW u, Searching(u), DOMAIN u = DOMAIN ui, u.shown = ui.shown, u.asked = ui.asked
      PROVE  TokensSearched
  <2> DEFINE v == [u EXCEPT !.loading = TRUE]
             body == [client |-> u.client, user |-> u.user, nr |-> u.nr]
  <2>1. v.shown = ui.shown /\ v.asked = ui.asked
    BY <1>2, TokensUi
  <2>2. Click(Sent(calls, "fetchTokens", "search", body, "none"), v)
    BY <1>2 DEF Searching, Search
  <2> HIDE DEF v, body
  <2>3. /\ Waits /\ ui' = v
        /\ \E d : Joins(d, calls, "fetchTokens", "search", body, "none")
    BY <1>1, <2>2, ClickForm
  <2> QED BY <2>1, <2>3 DEF TokensSearched
<1>3. CASE ApplyFilters
  <2> DEFINE u == [ui EXCEPT !.nr = 1]
  <2>1. Searching(u) /\ DOMAIN u = DOMAIN ui /\ u.shown = ui.shown /\ u.asked = ui.asked
    BY <1>3, TokensUi DEF ApplyFilters
  <2> HIDE DEF u
  <2> QED BY <1>2, <2>1
<1>4. CASE ClearFilters
  <2> DEFINE u == [ui EXCEPT !.client = None, !.user = None, !.nr = 1]
  <2>1. Searching(u) /\ DOMAIN u = DOMAIN ui /\ u.shown = ui.shown /\ u.asked = ui.asked
    BY <1>4, TokensUi DEF ClearFilters
  <2> HIDE DEF u
  <2> QED BY <1>2, <2>1
<1>5. CASE PreviousPage
  <2> DEFINE u == [ui EXCEPT !.nr = @ - 1]
  <2>1. Searching(u) /\ DOMAIN u = DOMAIN ui /\ u.shown = ui.shown /\ u.asked = ui.asked
    BY <1>5, TokensUi DEF PreviousPage
  <2> HIDE DEF u
  <2> QED BY <1>2, <2>1
<1>6. CASE NextPage
  <2> DEFINE u == [ui EXCEPT !.nr = @ + 1]
  <2>1. Searching(u) /\ DOMAIN u = DOMAIN ui /\ u.shown = ui.shown /\ u.asked = ui.asked
    BY <1>6, TokensUi DEF NextPage
  <2> HIDE DEF u
  <2> QED BY <1>2, <2>1
<1> QED BY <1>3, <1>4, <1>5, <1>6

LEMMA TokensFetchedForm ==
  ASSUME Base, page = "tokens", FetchTokens
  PROVE  TokensFetched
<1> DEFINE v(c) == [Ended(ui, c.flag) EXCEPT !.loading = FALSE]
           u(c) == IF c.st = "ok" THEN [v(c) EXCEPT !.shown = c.res, !.asked = c.body] ELSE v(c)
<1>1. PICK c \in Answered("fetchTokens") : Resume(calls \ {c}, u(c))
  BY DEF FetchTokens
<1>2. c \in calls /\ c.op = "search" /\ c.st \in {"ok", "failed"}
  BY TokensKindsHold DEF TokensKinds, Answered
<1>3. DOMAIN v(c) = DOMAIN ui /\ v(c).shown = ui.shown /\ v(c).asked = ui.asked
  BY TokensUi DEF Ended
<1> HIDE DEF v
<1>4. /\ u(c).shown = IF c.st = "ok" THEN c.res ELSE ui.shown
      /\ u(c).asked = IF c.st = "ok" THEN c.body ELSE ui.asked
  BY <1>3, TokensUi
<1> HIDE DEF u
<1>5. Waits /\ ui' = u(c) /\ calls' = calls \ {c}
  BY <1>1, <1>2, EndForm
<1> QED BY <1>2, <1>4, <1>5 DEF TokensFetched

LEMMA TokensConfirmedForm ==
  ASSUME Base, page = "tokens", ExecuteConfirm
  PROVE  TokensConfirmed
<1>1. Fits("revoke", "revoke", "confirm")
  BY DEF Fits, Asks, FlagFits
<1>2. Click(Sent(calls, "revoke", "revoke", Action(ui.dialog), "confirm"), ui)
  BY DEF ExecuteConfirm
<1>3. /\ Waits /\ ui' = ui
      /\ \E d : Joins(d, calls, "revoke", "revoke", Action(ui.dialog), "confirm")
  BY <1>1, <1>2, ClickForm
<1> QED BY <1>3 DEF TokensConfirmed

LEMMA TokensRevokedForm ==
  ASSUME Base, page = "tokens", Revoked
  PROVE  TokensRevoked
<1>1. PICK c \in Answered("revoke") :
        IF c.st = "ok" THEN Resume(Search(calls \ {c}, ui, "confirm"), [ui EXCEPT !.loading = TRUE])
        ELSE Resume(calls \ {c}, [ui EXCEPT !.dialog = None])
  BY DEF Revoked
<1>2. c \in calls /\ c.op = "revoke" /\ c.st \in {"ok", "failed"}
  BY TokensKindsHold DEF TokensKinds, Answered
<1>3. CASE c.st = "ok"
  <2> DEFINE v == [ui EXCEPT !.loading = TRUE]
             body == [client |-> ui.client, user |-> ui.user, nr |-> ui.nr]
  <2>1. v.shown = ui.shown /\ v.asked = ui.asked
    BY TokensUi
  <2>2. Resume(Sent(calls \ {c}, "fetchTokens", "search", body, "confirm"), v)
    BY <1>1, <1>3 DEF Search
  <2>3. Fits("fetchTokens", "search", "confirm")
    BY DEF Fits, Asks, FlagFits
  <2> HIDE DEF v, body
  <2>4. /\ Waits /\ ui' = v
        /\ \E d : Joins(d, calls \ {c}, "fetchTokens", "search", body, "confirm")
    BY <1>2, <2>2, <2>3, FollowForm
  <2> QED BY <1>2, <1>3, <2>1, <2>4 DEF TokensRevoked
<1>4. CASE c.st # "ok"
  <2> DEFINE v == [ui EXCEPT !.dialog = None]
  <2>1. v.shown = ui.shown /\ v.asked = ui.asked
    BY TokensUi
  <2> HIDE DEF v
  <2>2. Waits /\ ui' = v /\ calls' = calls \ {c}
    BY <1>1, <1>2, <1>4, EndForm DEF v
  <2> QED BY <1>2, <1>4, <2>1, <2>2 DEF TokensRevoked
<1> QED BY <1>3, <1>4

LEMMA TokensTypedForm ==
  ASSUME Base, page = "tokens",
         TypeFilters \/ ShowBulkMenu \/ CancelConfirm \/ RevokeToken \/ RevokeByClient \/ RevokeByUser
  PROVE  TokensTyped
<1>1. UNCHANGED <<db, calls, marks>>
  BY DEF TypeFilters, ShowBulkMenu, CancelConfirm, RevokeToken, RevokeByClient, RevokeByUser, ShowConfirm,
         Type, Enter
<1>2. CASE TypeFilters
  BY <1>1, <1>2, TokensUi DEF TypeFilters, Enter, TokensTyped
<1>3. CASE ShowBulkMenu \/ CancelConfirm \/ RevokeToken \/ RevokeByUser
  BY <1>1, <1>3, TokensUi
     DEF ShowBulkMenu, CancelConfirm, RevokeToken, RevokeByUser, ShowConfirm, Type, TokensTyped
<1>4. CASE RevokeByClient
  <2>1. PICK k : ui' = [[ui EXCEPT !.open = {}] EXCEPT !.dialog = [by |-> "client", who |-> k]]
    BY <1>4 DEF RevokeByClient, ShowConfirm, Type
  <2> QED BY <1>1, <2>1, TokensUi DEF TokensTyped
<1> QED BY <1>2, <1>3, <1>4

LEMMA TokensForms ==
  ASSUME Base, page = "tokens", DOMAIN db = {"live"}, TokensPageNext
  PROVE  TokensStep
<1>1. CASE ServeTokens
  BY <1>1, TokensServedForm DEF TokensStep
<1>2. CASE OtherWithTokens
  <2>1. PICK t \in Tokens :
          Elsewhere([db EXCEPT !.live = IF t \in @ THEN @ \ {t} ELSE @ \cup {t}], others)
    BY <1>2 DEF OtherWithTokens
  <2> DEFINE d == [db EXCEPT !.live = IF t \in @ THEN @ \ {t} ELSE @ \cup {t}]
  <2>2. DOMAIN d = DOMAIN db /\ d.live \subseteq db.live \cup Tokens
    OBVIOUS
  <2>3. Elsewhere(d, others)
    BY <2>1
  <2> HIDE DEF d
  <2> QED BY <2>2, <2>3 DEF Elsewhere, TokensElsewhere, TokensStep
<1> QED BY <1>1, <1>2, TokensSearchedForm, TokensFetchedForm, TokensConfirmedForm, TokensRevokedForm,
           TokensTypedForm DEF TokensPageNext, TokensStep

-----------------------------------------------------------------------------
(* What the tokens page shows is what its last search would find now,       *)
(* unless a search is under way or is about to be: a revocation that has    *)
(* struck the tokens has yet to be heard of.                                *)
RevokedTold == \E c \in calls : c.op = "revoke" /\ c.st \in {"half", "ok"}

TokensTypes ==
  /\ DOMAIN db = {"live"} /\ db.live \subseteq Tokens /\ ui.shown \subseteq Tokens
  /\ \A c \in calls : c.op = "search" /\ c.st = "ok" => c.res \subseteq Tokens

TokensCurrent ==
  /\ \A c \in calls : c.op = "search" /\ c.st = "ok" => c.res = Found(c.body, db.live) \/ RevokedTold
  /\ \/ ui.shown = Found(ui.asked, db.live)
     \/ RevokedTold
     \/ \E c \in calls : c.op = "search"

TokensFit == TokensTypes /\ (marks \subseteq {"blind", "misled"} => TokensCurrent)

LEMMA FoundLive == \A q, live : Found(q, live) \subseteq live
BY DEF Found

LEMMA TokensServedFits ==
  ASSUME TokensKinds, ReadsMarked, TokensFit, TokensServed
  PROVE  TokensFit'
<1>1. PICK c \in calls : \E e :
       /\ Turns(e, c) /\ marks \subseteq marks'
       /\ \/ /\ c.op = "search" /\ c.st = "sent" /\ db' = db
             /\ e.st = "ok" => e.res = Found(c.body, db.live)
             /\ e.st = "ok" \/ ~(marks' \subseteq {"blind", "misled"})
          \/ /\ c.op = "revoke" /\ DOMAIN db' = DOMAIN db /\ db'.live \subseteq db.live
             /\ \/ "lost" \in marks'
                \/ c.st = "sent" /\ db' = db
                \/ e.st \in {"half", "ok"}
  BY DEF TokensServed
<1>2. PICK e :
       /\ Turns(e, c) /\ marks \subseteq marks'
       /\ \/ /\ c.op = "search" /\ c.st = "sent" /\ db' = db
             /\ e.st = "ok" => e.res = Found(c.body, db.live)
             /\ e.st = "ok" \/ ~(marks' \subseteq {"blind", "misled"})
          \/ /\ c.op = "revoke" /\ DOMAIN db' = DOMAIN db /\ db'.live \subseteq db.live
             /\ \/ "lost" \in marks'
                \/ c.st = "sent" /\ db' = db
                \/ e.st \in {"half", "ok"}
  BY <1>1
<1>3. calls' = (calls \ {c}) \cup {e} /\ e.op = c.op /\ e.body = c.body /\ ui' = ui
  BY <1>2 DEF TokensServed, Turns, Answers
<1>4. CASE c.op = "search"
  <2>1. /\ db' = db /\ c.st = "sent" /\ (e.st = "ok" => e.res = Found(c.body, db.live))
        /\ (marks' \subseteq {"blind", "misled"} => e.st = "ok")
    BY <1>2, <1>4
  <2>2. TokensTypes'
    BY <1>3, <2>1, FoundLive DEF TokensFit, TokensTypes
  <2>3. RevokedTold => RevokedTold'
    BY <1>3, <2>1 DEF RevokedTold
  <2>4. marks' \subseteq {"blind", "misled"} => TokensCurrent'
    BY <1>2, <1>3, <1>4, <2>1, <2>3 DEF TokensFit, TokensCurrent
  <2> QED BY <2>2, <2>4 DEF TokensFit
<1>5. CASE c.op = "revoke"
  <2>1. /\ DOMAIN db' = DOMAIN db /\ db'.live \subseteq db.live
        /\ "lost" \in marks' \/ (c.st = "sent" /\ db' = db) \/ e.st \in {"half", "ok"}
    BY <1>2, <1>5
  <2>2. TokensTypes'
    BY <1>3, <1>5, <2>1 DEF TokensFit, TokensTypes
  <2>3. marks' \subseteq {"blind", "misled"} =>
          (RevokedTold => RevokedTold') /\ (db' = db \/ RevokedTold')
    BY <1>3, <1>5, <2>1 DEF RevokedTold
  <2>4. marks' \subseteq {"blind", "misled"} => TokensCurrent'
    BY <1>2, <1>3, <1>5, <2>3 DEF TokensFit, TokensCurrent
  <2> QED BY <2>2, <2>4 DEF TokensFit
<1> QED BY <1>2, <1>4, <1>5

LEMMA TokensAskedFits ==
  ASSUME TokensKinds, TokensFit, TokensElsewhere \/ TokensSearched \/ TokensTyped \/ TokensConfirmed
  PROVE  TokensFit'
<1>1. CASE TokensElsewhere
  BY <1>1 DEF TokensElsewhere, TokensFit, TokensTypes
<1>2. CASE TokensSearched
  <2>1. PICK d : New(d, calls) /\ calls' = calls \cup {d} /\ d.op = "search"
    BY <1>2 DEF TokensSearched, Joins
  <2> QED BY <1>2, <2>1 DEF TokensSearched, Waits, New, TokensFit, TokensTypes, TokensCurrent, RevokedTold
<1>3. CASE TokensTyped
  BY <1>3 DEF TokensTyped, TokensFit, TokensTypes, TokensCurrent, RevokedTold
<1>4. CASE TokensConfirmed
  <2>1. PICK d : New(d, calls) /\ calls' = calls \cup {d} /\ d.op = "revoke"
    BY <1>4 DEF TokensConfirmed, Joins
  <2> QED BY <1>4, <2>1 DEF TokensConfirmed, Waits, New, TokensFit, TokensTypes, TokensCurrent, RevokedTold
<1> QED BY <1>1, <1>2, <1>3, <1>4

LEMMA TokensHeardFits ==
  ASSUME TokensKinds, ReadsMarked, TokensFit, TokensFetched \/ TokensRevoked
  PROVE  TokensFit'
<1>1. CASE TokensFetched
  <2>1. PICK c \in calls :
          /\ c.op = "search" /\ c.st \in {"ok", "failed"} /\ calls' = calls \ {c}
          /\ ui'.shown = IF c.st = "ok" THEN c.res ELSE ui.shown
          /\ ui'.asked = IF c.st = "ok" THEN c.body ELSE ui.asked
    BY <1>1 DEF TokensFetched
  <2>2. db' = db /\ marks \subseteq marks'
    BY <1>1 DEF TokensFetched, Waits
  <2>3. c.st = "ok" \/ ~(marks \subseteq {"blind", "misled"})
    BY <2>1 DEF ReadsMarked
  <2>4. marks' \subseteq {"blind", "misled"} => TokensCurrent'
    BY <2>1, <2>2, <2>3 DEF TokensFit, TokensCurrent, RevokedTold
  <2> QED BY <2>1, <2>2, <2>4 DEF TokensFit, TokensTypes
<1>2. CASE TokensRevoked
  <2>1. PICK c \in calls :
          /\ c.op = "revoke"
          /\ \/ c.st = "ok" /\ \E d : \E body : Joins(d, calls \ {c}, "fetchTokens", "search", body, "confirm")
             \/ c.st = "failed" /\ calls' = calls \ {c}
    BY <1>2 DEF TokensRevoked
  <2>2. /\ db' = db /\ marks \subseteq marks'
        /\ ("overlap" \notin marks' => ~Overlap(calls'))
        /\ ui'.shown = ui.shown /\ ui'.asked = ui.asked
    BY <1>2 DEF TokensRevoked, Waits
  <2>3. CASE c.st = "failed" /\ calls' = calls \ {c}
    BY <2>1, <2>2, <2>3 DEF TokensFit, TokensTypes, TokensCurrent, RevokedTold
  <2>4. ASSUME NEW d, NEW body, Joins(d, calls \ {c}, "fetchTokens", "search", body, "confirm")
        PROVE  TokensFit'
    <3>1. /\ calls' = (calls \ {c}) \cup {d} /\ d \notin calls \ {c} /\ d.op = "search" /\ d.st = "sent"
          /\ d.fn = "fetchTokens"
      BY <2>4 DEF Joins, New
    <3>2. \A e \in calls \ {c} : e.op = "search" => Overlap(calls')
      <4>1. \A e \in calls : e.op = "search" => Shows(e) = {"tokens"}
        BY DEF Shows, TokensKinds
      <4>2. Shows(d) = {"tokens"}
        BY <3>1 DEF Shows
      <4> QED BY <3>1, <4>1, <4>2 DEF Overlap
    <3>3. marks' \subseteq {"blind", "misled"} => TokensCurrent'
      BY <2>2, <3>1, <3>2 DEF TokensCurrent
    <3> QED BY <2>1, <2>2, <3>1, <3>3 DEF TokensFit, TokensTypes
  <2> QED BY <2>1, <2>3, <2>4
<1> QED BY <1>1, <1>2

LEMMA TokensStepFits ==
  ASSUME Base, page = "tokens", ReadsMarked, TokensFit, TokensPageNext
  PROVE  TokensFit'
<1>1. TokensKinds /\ TokensStep
  BY TokensKindsHold, TokensForms DEF TokensFit, TokensTypes
<1> QED BY <1>1, TokensServedFits, TokensAskedFits, TokensHeardFits DEF TokensStep

LEMMA TokensMountedFits ==
  ASSUME page = "tokens", TokensMounted
  PROVE  TokensFit
<1>1. Fits("fetchTokens", "search", "none")
  BY DEF Fits, Asks, FlagFits
<1>2. PICK d : /\ Sent({}, "fetchTokens", "search", NoFilters, "none") = {d} /\ d.op = "search"
               /\ Awaits("fetchTokens", "none", {}, d)
  BY <1>1, OneAwaited
<1>3. calls = {d} /\ d.st = "sent" /\ d.op = "search"
  BY <1>2 DEF TokensMounted, Awaits, New
<1>4. DOMAIN db = {"live"} /\ db.live \subseteq Tokens /\ ui.shown = {}
  BY DEF TokensMounted
<1> QED BY <1>3, <1>4 DEF TokensFit, TokensTypes, TokensCurrent

-----------------------------------------------------------------------------
(* The pages that show a table.  The types of what they hold and send.      *)
RowSets == [Rows -> RowVals(page) \cup {None}]

Filled(u) ==
  /\ page \in {"roles", "scopes", "applications"} /\ u.form.name # None =>
       u.form.name \in Rows /\ u.form.val \in RowVals(page)
  /\ "edit" \in u.open =>
       u.sel \in Rows /\ (page \in {"roles", "scopes"} => u.draft \in RowVals(page))

(* What a request of a table asks for.                                      *)
RowRequest(op, body) ==
  /\ op = "read" => body = Rows
  /\ op \in {"create", "update"} => body.val \in RowVals(page)
  /\ op \in {"create", "assign"} => body.name \in Rows
  /\ op = "reset" => body \in Rows

ListTypes ==
  /\ DOMAIN db = {"data", "secret", "roles"}
  /\ db.data \in RowSets
  /\ ui.shown \in RowSets
  /\ db.roles \in [Rows -> SUBSET RoleNames]
  /\ DOMAIN db.secret = Rows
  /\ DOMAIN meant = Rows
  /\ Filled(ui)
  /\ \A c \in calls : /\ RowRequest(c.op, c.body)
                      /\ c.op = "read" /\ c.st = "ok" => c.res \in RowSets

(* The requests whose answer is a secret.                                   *)
Reveals(c) == c.op = "reset" \/ c.fn = "createClient"

ListKinds ==
  \A c \in calls :
    /\ c.op \in {"read", "create", "update", "remove", "reset", "assign"}
    /\ c.fn = "createClient" <=> page = "applications" /\ c.op = "create"
    /\ c.fn = "createClient" => c.flag = "creating"
    /\ c.op = "reset" => page = "applications" /\ c.fn = "resetSecret"
    /\ c.op = "assign" <=> c.fn = "assignRoles"
    /\ c.op = "assign" => page = "users" /\ c.flag = "saving"

LEMMA ListKindsHold ==
  ASSUME Base, page \in ListPageNames
  PROVE  ListKinds
BY DEF Base, CallsFit, IsCall, Fits, Asks, FlagFits, ListKinds, ListPageNames

-----------------------------------------------------------------------------
(* The steps of these pages.  The server: rows are changed by the requests  *)
(* that are told so, secrets by those that reveal them.                     *)
ListServed ==
  /\ UNCHANGED <<ui, others, meant>>
  /\ \E c \in calls : \E e :
       /\ Turns(e, c) /\ c.st \in {"sent", "half"} /\ marks \subseteq marks'
       /\ DOMAIN db' = DOMAIN db /\ db'.data \in RowSets /\ db'.roles = db.roles /\ DOMAIN db'.secret = Rows
       /\ \/ db'.data = db.data
          \/ c.op \in {"create", "update", "remove"} /\ (e.st = "ok" \/ "lost" \in marks')
       /\ \/ db'.secret = db.secret
          \/ (c.op = "create" \/ Reveals(c)) /\ (e.st = "ok" \/ "lost" \in marks')
       /\ c.op = "read" => db' = db /\ (e.st = "ok" => e.res = db.data)
       /\ c.op # "assign"
       /\ Reveals(c) /\ e.st = "ok" => e.res.of \in Rows /\ e.res.n = db'.secret[e.res.of]

ListElsewhere ==
  /\ UNCHANGED <<ui, calls, others, meant>> /\ "other" \in marks'
  /\ DOMAIN db' = DOMAIN db /\ db'.data \in RowSets /\ db'.roles = db.roles /\ db'.secret = db.secret

(* What an assignment does to the roles of its user, who has has: gets.     *)
RolesGo(c, e, has, gets) ==
  \/ "lost" \in marks'
  \/ c.st = "sent" /\ e.st = "failed" /\ gets = has
  \/ /\ c.st = "sent" /\ gets = {}
     /\ IF c.body.val = {} THEN e.st = "ok" ELSE e.st = "half" /\ e.res = c.body.val
  \/ /\ c.st = "half"
     /\ \E r \in c.res : \E fails \in BOOLEAN :
          /\ gets = IF fails THEN has ELSE has \cup ({r} \cap RoleNames)
          /\ \/ e.st = "half" /\ e.res = c.res \ {r} /\ (fails /\ r \in RoleNames => "misled" \in marks')
             \/ e.st = "ok" /\ c.res = {r} /\ ~fails

RolesServed ==
  /\ UNCHANGED <<ui, others, meant>>
  /\ \E c \in calls : \E e :
       /\ Turns(e, c) /\ c.op = "assign" /\ marks \subseteq marks'
       /\ DOMAIN db' = DOMAIN db /\ db'.data = db.data /\ db'.secret = db.secret
       /\ db'.roles \in [Rows -> SUBSET RoleNames]
       /\ \A r \in Rows : r # c.body.name => db'.roles[r] = db.roles[r]
       /\ RolesGo(c, e, db.roles[c.body.name], db'.roles[c.body.name])

(* The component changes, but not in what it shows of the rows; a secret is *)
(* only put away.                                                           *)
Typing ==
  /\ UNCHANGED <<db, calls, marks, others, meant>>
  /\ Filled(ui') /\ ui'.shown = ui.shown
  /\ ui'.secret \in {ui.secret, None}

Keeps == UNCHANGED <<ui.form, ui.open, ui.sel, ui.draft, ui.secret>>

ListAsked ==
  /\ Waits /\ UNCHANGED <<others, meant>> /\ Keeps /\ ui'.shown = ui.shown
  /\ \E d : /\ New(d, calls) /\ calls' = calls \cup {d} /\ d.op # "read"
            /\ RowRequest(d.op, d.body)

ListFetched ==
  /\ Waits /\ UNCHANGED <<others, meant>> /\ Keeps
  /\ \E c \in calls : /\ c.op = "read" /\ c.st \in {"ok", "failed"} /\ calls' = calls \ {c}
                      /\ ui'.shown = IF c.st = "ok" THEN c.res ELSE ui.shown

(* A request that was not a fetch comes back.                               *)
ListHeard ==
  /\ Waits /\ others' = others /\ Filled(ui') /\ ui'.shown = ui.shown
  /\ \E c \in calls :
       /\ c.op # "read" /\ c.st \in {"ok", "failed"}
       /\ IF c.op = "assign" /\ c.st = "ok"
          THEN meant' = [meant EXCEPT ![c.body.name] = c.body.val \cap RoleNames]
          ELSE meant' = meant
       /\ \/ c.st = "failed" /\ calls' = calls \ {c}
          \/ c.op = "reset" /\ calls' = calls \ {c}
          \/ c.st = "ok" /\ \E d : Joins(d, calls \ {c}, FetchOf(page), "read", Rows, c.flag)
       /\ \/ c.st = "ok" /\ Reveals(c) /\ ui'.secret = c.res
          \/ (c.st = "ok" => ~Reveals(c)) /\ ui'.secret = ui.secret

ListStep ==
  \/ ListServed \/ ListElsewhere \/ RolesServed \/ Typing \/ ListAsked \/ ListFetched \/ ListHeard

-----------------------------------------------------------------------------
LEMMA RowUpdate ==
  ASSUME DOMAIN db = {"data", "secret", "roles"}, db.data \in RowSets,
         NEW r, NEW v \in RowVals(page) \cup {None}
  PROVE  /\ DOMAIN [db EXCEPT !.data[r] = v] = {"data", "secret", "roles"}
         /\ [db EXCEPT !.data[r] = v].data \in RowSets
         /\ [db EXCEPT !.data[r] = v].roles = db.roles
         /\ [db EXCEPT !.data[r] = v].secret = db.secret
BY DEF RowSets

LEMMA ListServedForm ==
  ASSUME Base, page \in ListPageNames, ListTypes, ServeList
  PROVE  ListServed
<1>0. ListKinds
  BY ListKindsHold
<1>1. PICK c \in calls :
        /\ c.st \in {"sent", "half"}
        /\ \/ c.op = "read" /\ Reply(c, TRUE, db, db.data)
           \/ c.op = "create" /\ Create(c)
           \/ /\ c.op = "update"
              /\ Reply(c, db.data[c.body.name] # None, [db EXCEPT !.data[c.body.name] = c.body.val], None)
           \/ /\ c.op = "remove"
              /\ Reply(c, db.data[c.body] # None, [db EXCEPT !.data[c.body] = None], None)
           \/ /\ c.op = "reset"
              /\ Reply(c, db.data[c.body] # None, [db EXCEPT !.secret[c.body] = @ + 1],
                       [of |-> c.body, n |-> db.secret[c.body] + 1])
  BY Zenon DEF ServeList
<1>2. ASSUME NEW pre, NEW d, NEW s, Reply(c, pre, d, s),
             DOMAIN d = DOMAIN db, d.data \in RowSets, d.roles = db.roles, DOMAIN d.secret = Rows,
             d.data = db.data \/ c.op \in {"create", "update", "remove"},
             d.secret = db.secret \/ c.op = "create" \/ Reveals(c),
             c.op = "read" => d = db /\ s = db.data,
             c.op # "assign",
             Reveals(c) => s.of \in Rows /\ s.n = d.secret[s.of]
      PROVE  ListServed
  <2>1. PICK e : Turns(e, c) /\ Serves(c, e, d, s)
    BY <1>2, ReplyServes
  <2>2. UNCHANGED <<ui, others, meant>>
    BY <1>2, ReplyServes
  <2>3. /\ db' \in {d, db} /\ marks \subseteq marks'
        /\ db' = db \/ e.st = "ok" \/ "lost" \in marks'
        /\ e.st = "ok" => e.res = s /\ db' = d
    BY <2>1 DEF Serves, Fails
  <2>4. DOMAIN db' = DOMAIN db /\ db'.data \in RowSets /\ db'.roles = db.roles /\ DOMAIN db'.secret = Rows
    BY <1>2, <2>3 DEF ListTypes
  <2>5. /\ \/ db'.data = db.data
           \/ c.op \in {"create", "update", "remove"} /\ (e.st = "ok" \/ "lost" \in marks')
        /\ \/ db'.secret = db.secret
           \/ (c.op = "create" \/ Reveals(c)) /\ (e.st = "ok" \/ "lost" \in marks')
        /\ c.op = "read" => db' = db /\ (e.st = "ok" => e.res = db.data)
        /\ Reveals(c) /\ e.st = "ok" => e.res.of \in Rows /\ e.res.n = db'.secret[e.res.of]
    BY <1>2, <2>3
  <2> QED BY <1>1, <1>2, <2>1, <2>2, <2>3, <2>4, <2>5 DEF ListServed
<1>3. DOMAIN db = {"data", "secret", "roles"} /\ db.data \in RowSets /\ DOMAIN db.secret = Rows
  BY DEF ListTypes
<1>4. RowRequest(c.op, c.body)
  BY DEF ListTypes
<1>5. CASE c.op = "read" /\ Reply(c, TRUE, db, db.data)
  BY <1>0, <1>2, <1>3, <1>5 DEF Reveals, ListKinds
<1>6. CASE c.op = "create" /\ Create(c)
  <2> DEFINE r == c.body.name
             n == IF c.body.val = "PUBLIC" THEN db.secret[r] ELSE db.secret[r] + 1
             pre == (c.st = "half" \/ page \notin {"roles", "scopes"}) /\ db.data[r] = None
             d == [db EXCEPT !.data[r] = c.body.val, !.secret[r] = n]
             s == [of |-> r, n |-> n]
  <2>1. r \in Rows /\ c.body.val \in RowVals(page)
    BY <1>4, <1>6 DEF RowRequest
  <2>2. \/ Reply(c, pre, d, s)
        \/ Answer(c, "half", None) /\ UNCHANGED <<page, ui, db, inputs, marks, others, meant>>
    BY <1>6, Zenon DEF Create
  <2> HIDE DEF n, r
  <2>3. /\ DOMAIN d = DOMAIN db /\ d.data \in RowSets /\ d.roles = db.roles /\ DOMAIN d.secret = Rows
        /\ s.of \in Rows /\ s.n = d.secret[s.of]
    BY <1>3, <2>1 DEF RowSets, r
  <2> HIDE DEF d, s, pre
  <2>4. CASE Reply(c, pre, d, s)
    BY <1>2, <1>6, <2>3, <2>4
  <2>5. CASE Answer(c, "half", None) /\ UNCHANGED <<page, ui, db, inputs, marks, others, meant>>
    <3>1. PICK e : Turns(e, c) /\ e.st = "half"
      BY <2>5, AnswerNew DEF Turns, Base, CallsFit
    <3> QED BY <1>1, <1>3, <1>6, <2>5, <3>1 DEF ListServed
  <2> QED BY <2>2, <2>4, <2>5
<1>7. CASE /\ c.op = "update"
           /\ Reply(c, db.data[c.body.name] # None, [db EXCEPT !.data[c.body.name] = c.body.val], None)
  <2> DEFINE pre == db.data[c.body.name] # None
             d == [db EXCEPT !.data[c.body.name] = c.body.val]
  <2>1. Reply(c, pre, d, None)
    BY <1>7, Zenon
  <2>2. /\ DOMAIN d = DOMAIN db /\ d.data \in RowSets /\ d.roles = db.roles /\ d.secret = db.secret
    BY <1>3, <1>4, <1>7, RowUpdate DEF RowRequest
  <2> HIDE DEF d, pre
  <2> QED BY <1>0, <1>2, <1>3, <1>7, <2>1, <2>2 DEF Reveals, ListKinds
<1>8. CASE /\ c.op = "remove"
           /\ Reply(c, db.data[c.body] # None, [db EXCEPT !.data[c.body] = None], None)
  <2> DEFINE pre == db.data[c.body] # None
             d == [db EXCEPT !.data[c.body] = None]
  <2>1. Reply(c, pre, d, None)
    BY <1>8, Zenon
  <2>2. /\ DOMAIN d = DOMAIN db /\ d.data \in RowSets /\ d.roles = db.roles /\ d.secret = db.secret
    BY <1>3, RowUpdate
  <2> HIDE DEF d, pre
  <2> QED BY <1>0, <1>2, <1>3, <1>8, <2>1, <2>2 DEF Reveals, ListKinds
<1>9. CASE /\ c.op = "reset"
           /\ Reply(c, db.data[c.body] # None, [db EXCEPT !.secret[c.body] = @ + 1],
                    [of |-> c.body, n |-> db.secret[c.body] + 1])
  <2> DEFINE pre == db.data[c.body] # None
             d == [db EXCEPT !.secret[c.body] = @ + 1]
             s == [of |-> c.body, n |-> db.secret[c.body] + 1]
  <2>1. Reply(c, pre, d, s)
    BY <1>9, Zenon
  <2>2. c.body \in Rows
    BY <1>4, <1>9 DEF RowRequest
  <2>3. /\ DOMAIN d = DOMAIN db /\ d.data = db.data /\ d.roles = db.roles /\ DOMAIN d.secret = Rows
        /\ s.of \in Rows /\ s.n = d.secret[s.of]
    BY <1>3, <2>2
  <2> HIDE DEF d, s, pre
  <2> QED BY <1>2, <1>3, <1>9, <2>1, <2>3 DEF Reveals
<1> QED BY <1>1, <1>5, <1>6, <1>7, <1>8, <1>9

LEMMA ListElsewhereForm ==
  ASSUME page \in ListPageNames, ListTypes, OtherInList
  PROVE  ListElsewhere
<1>1. PICK r \in Rows : \E v \in RowVals(page) \cup {None} : Elsewhere([db EXCEPT !.data[r] = v], others)
  BY DEF OtherInList
<1>2. PICK v \in RowVals(page) \cup {None} : Elsewhere([db EXCEPT !.data[r] = v], others)
  BY <1>1
<1> DEFINE d == [db EXCEPT !.data[r] = v]
<1>3. DOMAIN d = DOMAIN db /\ d.data \in RowSets /\ d.roles = db.roles /\ d.secret = db.secret
  BY RowUpdate DEF ListTypes
<1>4. Elsewhere(d, others)
  BY <1>2
<1> HIDE DEF d
<1> QED BY <1>3, <1>4 DEF Elsewhere, ListElsewhere

LEMMA RolesDeletedForm ==
  ASSUME Base, NEW c \in calls, NEW d, RolesDeleted(c, d)
  PROVE  /\ UNCHANGED <<page, ui, inputs, others, meant>> /\ marks \subseteq marks'
         /\ \E e : /\ Turns(e, c)
                   /\ \/ db' = db /\ e.st = "failed"
                      \/ db' = d /\ "lost" \in marks'
                      \/ /\ db' = d
                         /\ IF c.body.val = {} THEN e.st = "ok" ELSE e.st = "half" /\ e.res = c.body.val
<1>1. IsCall(c)
  BY DEF Base, CallsFit
<1>2. UNCHANGED <<page, ui, inputs, others, meant>> /\ marks \subseteq marks'
  BY DEF RolesDeleted
<1>3. CASE UNCHANGED <<db, marks>> /\ Answer(c, "failed", None)
  BY <1>1, <1>2, <1>3, AnswerNew DEF Turns
<1>4. CASE db' = d /\ Answer(c, "failed", None) /\ marks' = marks \cup {"lost"}
  BY <1>1, <1>2, <1>4, AnswerNew DEF Turns
<1>5. CASE /\ db' = d
           /\ IF c.body.val = {} THEN Answer(c, "ok", None) ELSE Answer(c, "half", c.body.val)
  BY <1>1, <1>2, <1>5, AnswerNew DEF Turns
<1> QED BY <1>3, <1>4, <1>5 DEF RolesDeleted

LEMMA RoleInsertedForm ==
  ASSUME Base, NEW c \in calls, NEW held, NEW with, RoleInserted(c, held, with)
  PROVE  /\ UNCHANGED <<page, ui, inputs, others, meant>> /\ marks \subseteq marks'
         /\ \E r \in c.res : \E fails \in BOOLEAN : \E e :
              /\ Turns(e, c) /\ db' = with[IF fails THEN held ELSE held \cup ({r} \cap RoleNames)]
              /\ \/ e.st = "half" /\ e.res = c.res \ {r} /\ (fails /\ r \in RoleNames => "misled" \in marks')
                 \/ e.st = "ok" /\ c.res = {r} /\ ~fails
                 \/ "lost" \in marks'
<1>1. IsCall(c)
  BY DEF Base, CallsFit
<1>2. UNCHANGED <<page, ui, inputs, others, meant>> /\ marks \subseteq marks'
  BY DEF RoleInserted
<1>3. PICK r \in c.res, fails \in BOOLEAN :
        /\ db' = with[IF fails THEN held ELSE held \cup ({r} \cap RoleNames)]
        /\ \/ /\ Answer(c, "half", c.res \ {r})
              /\ marks' = IF fails /\ r \in RoleNames THEN marks \cup {"misled"} ELSE marks
           \/ c.res = {r} /\ ~fails /\ Answer(c, "ok", None)
           \/ Answer(c, "failed", None) /\ marks' = marks \cup {"lost"}
  BY DEF RoleInserted
<1>4. \E e : /\ Turns(e, c)
             /\ \/ e.st = "half" /\ e.res = c.res \ {r} /\ (fails /\ r \in RoleNames => "misled" \in marks')
                \/ e.st = "ok" /\ c.res = {r} /\ ~fails
                \/ "lost" \in marks'
  <2>1. CASE /\ Answer(c, "half", c.res \ {r})
             /\ marks' = IF fails /\ r \in RoleNames THEN marks \cup {"misled"} ELSE marks
    BY <1>1, <2>1, AnswerNew DEF Turns
  <2>2. CASE c.res = {r} /\ ~fails /\ Answer(c, "ok", None)
    BY <1>1, <2>2, AnswerNew DEF Turns
  <2>3. CASE Answer(c, "failed", None) /\ marks' = marks \cup {"lost"}
    BY <1>1, <2>3, AnswerNew DEF Turns
  <2> QED BY <1>3, <2>1, <2>2, <2>3
<1> QED BY <1>2, <1>3, <1>4

(* The roles held are among those said, and all of them unless marks tell   *)
(* of an insert that failed while the page was told success.                *)
Given(has, said, m) == has \subseteq said /\ ("misled" \notin m => has = said)

(* What is inserted is what was asked for, as far as it has come.           *)
LEMMA RolesGoOn ==
  ASSUME NEW c, NEW e, NEW has, NEW gets, RolesGo(c, e, has, gets), e.body = c.body,
         marks \subseteq marks', "lost" \notin marks',
         c.st = "half" => c.res \subseteq c.body.val /\ Given(has, (c.body.val \ c.res) \cap RoleNames, marks)
  PROVE  /\ e.st = "half" =>
              e.res \subseteq e.body.val /\ Given(gets, (e.body.val \ e.res) \cap RoleNames, marks')
         /\ e.st = "ok" => Given(gets, e.body.val \cap RoleNames, marks')
         /\ e.st \in {"half", "ok"} \/ (c.st = "sent" /\ gets = has)
<1>1. CASE c.st = "sent" /\ e.st = "failed" /\ gets = has
  BY <1>1
<1>2. CASE /\ c.st = "sent" /\ gets = {}
           /\ IF c.body.val = {} THEN e.st = "ok" ELSE e.st = "half" /\ e.res = c.body.val
  BY <1>2 DEF Given
<1>3. ASSUME c.st = "half", NEW r \in c.res, NEW fails \in BOOLEAN,
             gets = IF fails THEN has ELSE has \cup ({r} \cap RoleNames),
             \/ e.st = "half" /\ e.res = c.res \ {r} /\ (fails /\ r \in RoleNames => "misled" \in marks')
             \/ e.st = "ok" /\ c.res = {r} /\ ~fails
      PROVE  /\ e.st = "half" =>
                  e.res \subseteq e.body.val /\ Given(gets, (e.body.val \ e.res) \cap RoleNames, marks')
             /\ e.st = "ok" => Given(gets, e.body.val \cap RoleNames, marks')
             /\ e.st \in {"half", "ok"}
  <2>1. /\ c.res \subseteq c.body.val /\ has \subseteq (c.body.val \ c.res) \cap RoleNames
        /\ "misled" \notin marks => has = (c.body.val \ c.res) \cap RoleNames
    BY <1>3 DEF Given
  <2>2. CASE e.st = "half" /\ e.res = c.res \ {r} /\ (fails /\ r \in RoleNames => "misled" \in marks')
    <3>1. (e.body.val \ e.res) \cap RoleNames =
            ((c.body.val \ c.res) \cap RoleNames) \cup ({r} \cap RoleNames)
      BY <1>3, <2>1, <2>2
    <3> QED BY <1>3, <2>1, <2>2, <3>1 DEF Given
  <2>3. CASE e.st = "ok" /\ c.res = {r} /\ ~fails
    BY <1>3, <2>1, <2>3 DEF Given
  <2> QED BY <1>3, <2>2, <2>3
<1> QED BY <1>1, <1>2, <1>3 DEF RolesGo

LEMMA RolesUpdate ==
  ASSUME DOMAIN db = {"data", "secret", "roles"}, db.roles \in [Rows -> SUBSET RoleNames],
         NEW r \in Rows, NEW held \in SUBSET RoleNames, NEW d, d = [db EXCEPT !.roles[r] = held]
  PROVE  /\ DOMAIN d = DOMAIN db /\ d.data = db.data /\ d.secret = db.secret
         /\ d.roles \in [Rows -> SUBSET RoleNames]
         /\ d.roles[r] = held /\ \A q \in Rows : q # r => d.roles[q] = db.roles[q]
OBVIOUS

LEMMA RolesServedForm ==
  ASSUME Base, page \in ListPageNames, ListTypes, ServeAssignInList
  PROVE  RolesServed
<1>1. DOMAIN db = {"data", "secret", "roles"} /\ db.roles \in [Rows -> SUBSET RoleNames]
  BY DEF ListTypes
<1>2. \A c \in calls : c.op = "assign" => c.body.name \in Rows
  BY DEF ListTypes, RowRequest
<1>3. ASSUME NEW c \in Sending("assign"), RolesDeleted(c, [db EXCEPT !.roles[c.body.name] = {}])
      PROVE  RolesServed
  <2> DEFINE d == [db EXCEPT !.roles[c.body.name] = {}]
  <2>1. c \in calls /\ c.op = "assign" /\ c.st = "sent"
    BY DEF Sending
  <2>2. /\ DOMAIN d = DOMAIN db /\ d.data = db.data /\ d.secret = db.secret
        /\ d.roles \in [Rows -> SUBSET RoleNames]
        /\ d.roles[c.body.name] = {} /\ \A q \in Rows : q # c.body.name => d.roles[q] = db.roles[q]
    BY <1>1, <1>2, <2>1, RolesUpdate
  <2>3. RolesDeleted(c, d)
    BY <1>3
  <2> HIDE DEF d
  <2>4. UNCHANGED <<ui, others, meant>> /\ marks \subseteq marks'
    BY <2>1, <2>3, RolesDeletedForm
  <2>5. PICK e : /\ Turns(e, c)
                 /\ \/ db' = db /\ e.st = "failed"
                    \/ db' = d /\ "lost" \in marks'
                    \/ /\ db' = d
                       /\ IF c.body.val = {} THEN e.st = "ok" ELSE e.st = "half" /\ e.res = c.body.val
    BY <2>1, <2>3, RolesDeletedForm
  <2>6. /\ DOMAIN db' = DOMAIN db /\ db'.data = db.data /\ db'.secret = db.secret
        /\ db'.roles \in [Rows -> SUBSET RoleNames]
        /\ \A q \in Rows : q # c.body.name => db'.roles[q] = db.roles[q]
    BY <1>1, <2>2, <2>5
  <2>7. RolesGo(c, e, db.roles[c.body.name], db'.roles[c.body.name])
    BY <2>2, <2>5, <2>1 DEF RolesGo
  <2> QED BY <2>1, <2>4, <2>5, <2>6, <2>7 DEF RolesServed
<1>4. ASSUME NEW c \in Halfway("assign"),
             RoleInserted(c, db.roles[c.body.name],
                          [held \in SUBSET RoleNames |-> [db EXCEPT !.roles[c.body.name] = held]])
      PROVE  RolesServed
  <2> DEFINE q == c.body.name
             with == [held \in SUBSET RoleNames |-> [db EXCEPT !.roles[q] = held]]
  <2>1. c \in calls /\ c.op = "assign" /\ c.st = "half"
    BY DEF Halfway
  <2>2. q \in Rows /\ db.roles[q] \in SUBSET RoleNames
    BY <1>1, <1>2, <2>1
  <2>3. \A held \in SUBSET RoleNames : with[held] = [db EXCEPT !.roles[q] = held]
    OBVIOUS
  <2>4. RoleInserted(c, db.roles[q], with)
    BY <1>4
  <2> HIDE DEF with, q
  <2>5. UNCHANGED <<ui, others, meant>> /\ marks \subseteq marks'
    BY <2>1, <2>4, RoleInsertedForm
  <2>6. PICK r \in c.res, fails \in BOOLEAN : \E e :
          /\ Turns(e, c) /\ db' = with[IF fails THEN db.roles[q] ELSE db.roles[q] \cup ({r} \cap RoleNames)]
          /\ \/ e.st = "half" /\ e.res = c.res \ {r} /\ (fails /\ r \in RoleNames => "misled" \in marks')
             \/ e.st = "ok" /\ c.res = {r} /\ ~fails
             \/ "lost" \in marks'
    BY <2>1, <2>4, RoleInsertedForm
  <2> DEFINE held == IF fails THEN db.roles[q] ELSE db.roles[q] \cup ({r} \cap RoleNames)
  <2>7. PICK e :
          /\ Turns(e, c) /\ db' = with[held]
          /\ \/ e.st = "half" /\ e.res = c.res \ {r} /\ (fails /\ r \in RoleNames => "misled" \in marks')
             \/ e.st = "ok" /\ c.res = {r} /\ ~fails
             \/ "lost" \in marks'
    BY <2>6
  <2>8. held \in SUBSET RoleNames
    BY <2>2
  <2>9. RolesGo(c, e, db.roles[q], held)
    BY <2>1, <2>6, <2>7 DEF RolesGo
  <2> HIDE DEF held
  <2>10. db' = [db EXCEPT !.roles[q] = held]
    BY <2>3, <2>7, <2>8
  <2>11. /\ DOMAIN db' = DOMAIN db /\ db'.data = db.data /\ db'.secret = db.secret
         /\ db'.roles \in [Rows -> SUBSET RoleNames]
         /\ db'.roles[q] = held /\ \A p \in Rows : p # q => db'.roles[p] = db.roles[p]
    BY <1>1, <2>2, <2>8, <2>10, RolesUpdate
  <2>12. RolesGo(c, e, db.roles[q], db'.roles[q])
    BY <2>9, <2>11
  <2> QED BY <2>1, <2>5, <2>7, <2>11, <2>12 DEF RolesServed, q
<1> QED BY <1>3, <1>4 DEF ServeAssignInList

LEMMA FetchedForm ==
  ASSUME Base, page \in ListPageNames, NEW fn \in {FetchOf(page)}, Fetched(fn), UNCHANGED <<others, meant>>
  PROVE  ListFetched
<1>1. PICK c \in Answered(fn) :
        Resume(calls \ {c}, [Drop(ui, c.flag) EXCEPT !.loading = FALSE,
                                                     !.shown = IF c.st = "ok" THEN c.res ELSE @])
  BY DEF Fetched
<1> DEFINE v == Drop(ui, c.flag)
           u == [v EXCEPT !.loading = FALSE, !.shown = IF c.st = "ok" THEN c.res ELSE @]
<1>2. c \in calls /\ c.op = "read" /\ c.st \in {"ok", "failed"}
  BY DEF Answered, Base, CallsFit, IsCall, Fits, Asks, FetchOf, ListPageNames
<1>3. /\ DOMAIN v = DOMAIN ui /\ v.form = ui.form /\ v.open = ui.open /\ v.sel = ui.sel /\ v.draft = ui.draft
      /\ v.secret = ui.secret /\ v.shown = ui.shown
  BY ListUi, DropFields
<1> HIDE DEF v
<1>4. /\ u.form = ui.form /\ u.open = ui.open /\ u.sel = ui.sel /\ u.draft = ui.draft
      /\ u.secret = ui.secret /\ u.shown = IF c.st = "ok" THEN c.res ELSE ui.shown
  BY <1>3, ListUi
<1>5. Resume(calls \ {c}, u)
  BY <1>1 DEF v
<1> HIDE DEF u
<1>6. Waits /\ ui' = u /\ calls' = calls \ {c}
  BY <1>2, <1>5, EndForm
<1> QED BY <1>2, <1>4, <1>6 DEF ListFetched, Keeps

(* A click that sends something about rows.                                 *)
LEMMA ListAskedForm ==
  ASSUME Base, page \in ListPageNames, UNCHANGED <<others, meant>>,
         NEW fn, NEW op, NEW body, NEW flag, Fits(fn, op, flag), op # "read", RowRequest(op, body),
         Start(flag, fn, op, body)
  PROVE  ListAsked
<1> DEFINE u == Raise(flag)
<1>1. /\ u.form = ui.form /\ u.open = ui.open /\ u.sel = ui.sel /\ u.draft = ui.draft
      /\ u.secret = ui.secret /\ u.shown = ui.shown
  BY ListUi DEF Raise
<1>2. Click(Sent(calls, fn, op, body, flag), u)
  BY DEF Start
<1> HIDE DEF u
<1>3. /\ Waits /\ ui' = u
      /\ \E d : Joins(d, calls, fn, op, body, flag)
  BY <1>2, ClickForm
<1>4. PICK d : Joins(d, calls, fn, op, body, flag)
  BY <1>3
<1>5. New(d, calls) /\ calls' = calls \cup {d} /\ d.op # "read" /\ RowRequest(d.op, d.body)
  BY <1>4 DEF Joins
<1> QED BY <1>1, <1>3, <1>5 DEF ListAsked, Keeps

(* A request comes back, and the rows are fetched again when it was done.   *)
LEMMA HeardForm ==
  ASSUME Base, page \in ListPageNames, Filled(ui), NEW fn, fn \notin Loaders, fn # "resetSecret",
         NEW u, ThenFetch(fn, u),
         others' = others, DOMAIN u = DOMAIN ui, u.shown = ui.shown, Filled(u),
         \A c \in Answered(fn) :
           /\ fn = "createClient" /\ c.st = "ok" => u.secret = c.res
           /\ fn # "createClient" => u.secret = ui.secret
           /\ IF fn = "assignRoles" /\ c.st = "ok"
              THEN meant' = [meant EXCEPT ![c.body.name] = c.body.val \cap RoleNames]
              ELSE meant' = meant
  PROVE  ListHeard
<1>1. PICK c \in Answered(fn) :
        IF c.st = "ok"
        THEN Resume(Sent(calls \ {c}, FetchOf(page), "read", Rows, c.flag), [u EXCEPT !.loading = TRUE])
        ELSE Resume(calls \ {c}, Drop(ui, c.flag))
  BY DEF ThenFetch
<1>2. c \in calls /\ c.fn = fn /\ c.st \in {"ok", "failed"} /\ Fits(fn, c.op, c.flag)
  BY DEF Answered, Base, CallsFit, IsCall
<1>3. /\ c.op # "read"
      /\ Reveals(c) <=> fn = "createClient"
      /\ c.op = "assign" <=> fn = "assignRoles"
  BY <1>2 DEF Fits, Asks, ListPageNames, Loaders, Reveals
<1>4. IF c.op = "assign" /\ c.st = "ok"
      THEN meant' = [meant EXCEPT ![c.body.name] = c.body.val \cap RoleNames]
      ELSE meant' = meant
  BY <1>3
<1>5. CASE c.st = "ok"
  <2> DEFINE v == [u EXCEPT !.loading = TRUE]
  <2>1. /\ v.form = u.form /\ v.open = u.open /\ v.sel = u.sel /\ v.draft = u.draft
        /\ v.secret = u.secret /\ v.shown = u.shown
    BY ListUi
  <2>2. Fits(FetchOf(page), "read", c.flag)
    BY <1>2 DEF Fits, Asks, FlagFits, FetchOf, ListPageNames
  <2>3. Resume(Sent(calls \ {c}, FetchOf(page), "read", Rows, c.flag), v)
    BY <1>1, <1>5
  <2> HIDE DEF v
  <2>4. /\ Waits /\ ui' = v
        /\ \E d : Joins(d, calls \ {c}, FetchOf(page), "read", Rows, c.flag)
    BY <1>2, <2>2, <2>3, FollowForm
  <2>5. page' = page
    BY <2>4 DEF Waits
  <2>6. Filled(ui')
    BY <2>1, <2>4 DEF Filled
  <2>7. /\ fn = "createClient" => ui'.secret = c.res
        /\ fn # "createClient" => ui'.secret = ui.secret
    BY <1>1, <1>5, <2>1, <2>4
  <2> QED BY <1>2, <1>3, <1>4, <1>5, <2>1, <2>4, <2>6, <2>7 DEF ListHeard
<1>6. CASE c.st # "ok"
  <2> DEFINE v == Drop(ui, c.flag)
  <2>1. /\ v.form = ui.form /\ v.open = ui.open /\ v.sel = ui.sel /\ v.draft = ui.draft
        /\ v.secret = ui.secret /\ v.shown = ui.shown
    BY ListUi, DropFields
  <2> HIDE DEF v
  <2>2. Waits /\ ui' = v /\ calls' = calls \ {c}
    BY <1>1, <1>2, <1>6, EndForm DEF v
  <2>3. Filled(ui')
    BY <2>1, <2>2 DEF Filled
  <2> QED BY <1>2, <1>3, <1>4, <1>6, <2>1, <2>2, <2>3 DEF ListHeard
<1> QED BY <1>5, <1>6

(* The modals, and what they leave to be sent.                              *)
LEMMA ListUiTyped ==
  ASSUME Base, page \in ListPageNames
  PROVE  /\ Closed("edit").form = ui.form /\ Closed("edit").open = ui.open \ {"edit"}
         /\ Closed("edit").shown = ui.shown /\ Closed("edit").secret = ui.secret
         /\ \A m : /\ DOMAIN Closed(m) = DOMAIN ui
                   /\ Closed(m).form = ui.form /\ Closed(m).open = ui.open \ {m}
                   /\ m # "edit" => Closed(m).sel = ui.sel /\ Closed(m).draft = ui.draft
                   /\ Closed(m).shown = ui.shown /\ Closed(m).secret = ui.secret
BY ListUi DEF Closed

LEMMA ClosedFilled ==
  ASSUME Base, page \in ListPageNames, Filled(ui), NEW m
  PROVE  Filled(Closed(m))
BY ListUiTyped DEF Filled

LEMMA ModalsForm ==
  ASSUME Base, page \in ListPageNames, Filled(ui), NEW template, Modals(template)
  PROVE  Typing
<1>1. /\ UNCHANGED <<db, calls, marks, others, meant>> /\ ui'.shown = ui.shown
      /\ ui'.secret = ui.secret /\ page' = page
  BY ModalsRest
<1>2. DOMAIN ui = {"loading", "busy", "open", "sel", "form", "draft", "shown", "secret"}
  BY ListUi
<1>3. CASE template.add /\ Type([ui EXCEPT !.open = @ \cup {"create"}])
  <2>1. /\ ui'.form = ui.form /\ ui'.open = ui.open \cup {"create"} /\ ui'.sel = ui.sel
        /\ ui'.draft = ui.draft
    BY <1>2, <1>3 DEF Type
  <2> QED BY <1>1, <2>1 DEF Typing, Filled
<1>4. ASSUME NEW r \in Rows, NEW v \in IF page = "applications" THEN RowVals(page) ELSE Typed,
             Type([ui EXCEPT !.form = [name |-> r, val |-> v]])
      PROVE  Typing
  <2>1. /\ ui'.form = [name |-> r, val |-> v] /\ ui'.open = ui.open /\ ui'.sel = ui.sel
        /\ ui'.draft = ui.draft
    BY <1>2, <1>4 DEF Type
  <2>2. page \in {"roles", "scopes", "applications"} => v \in RowVals(page)
    BY ListPagesAssumption DEF RowVals
  <2> QED BY <1>1, <2>1, <2>2 DEF Typing, Filled
<1>5. ASSUME NEW v \in IF page = "users" THEN SUBSET (RoleNames \cup {"unknown"}) ELSE Typed,
             Type([ui EXCEPT !.draft = v])
      PROVE  Typing
  <2>1. ui'.form = ui.form /\ ui'.open = ui.open /\ ui'.sel = ui.sel /\ ui'.draft = v
    BY <1>2, <1>5 DEF Type
  <2>2. page \in {"roles", "scopes"} => v \in RowVals(page)
    BY ListPagesAssumption DEF RowVals
  <2> QED BY <1>1, <2>1, <2>2 DEF Typing, Filled
<1>6. ASSUME NEW m, Type(Closed(m))
      PROVE  Typing
  <2>1. ui' = Closed(m)
    BY <1>6 DEF Type
  <2>2. Filled(ui')
    BY <2>1, ClosedFilled
  <2> QED BY <1>1, <1>6, <2>2 DEF Typing
<1> QED BY <1>3, <1>4, <1>5, <1>6 DEF Modals

LEMMA OpenEditForm ==
  ASSUME Base, page \in ListPageNames, Filled(ui), NEW r \in Rows, NEW v, OpenEdit(r, v),
         page \in {"roles", "scopes"} => v \in RowVals(page)
  PROVE  Typing
<1>1. /\ ui'.form = ui.form /\ ui'.open = ui.open \cup {"edit"} /\ ui'.sel = r /\ ui'.draft = v
      /\ ui'.secret = ui.secret /\ ui'.shown = ui.shown
      /\ UNCHANGED <<page, db, calls, marks, others, meant>>
  BY ListUi DEF OpenEdit, Type
<1> QED BY <1>1 DEF Typing, Filled

(* What the templates offer.                                                *)
LEMMA OfferedRows ==
  /\ Listed \subseteq {r \in Rows : ui.shown[r] # None}
  /\ ModalTable.edit \subseteq Listed /\ ModalTable.delete \subseteq Listed
  /\ ModalTable.create => Free("create", "saving") /\ ui.form.name # None
  /\ ModalTable.save => Free("edit", "saving")
BY DEF Listed, ModalTable

LEMMA FilledRequests ==
  ASSUME Filled(ui), page \in {"roles", "scopes"}
  PROVE  /\ ModalTable.create => RowRequest("create", ui.form)
         /\ ModalTable.save => RowRequest("update", Edited)
         /\ \A r : RowRequest("remove", r)
BY OfferedRows DEF Filled, RowRequest, Edited, Free

(* The form is emptied and the modal closed.                                *)
LEMMA EmptiedFilled ==
  ASSUME Base, page \in ListPageNames, Filled(ui), NEW u,
         u = [ui EXCEPT !.open = @ \ {"create"}, !.form = NoForm]
  PROVE  DOMAIN u = DOMAIN ui /\ Filled(u) /\ u.secret = ui.secret /\ u.shown = ui.shown
<1>1. /\ DOMAIN u = DOMAIN ui /\ u.form = NoForm /\ u.open = ui.open \ {"create"} /\ u.sel = ui.sel
      /\ u.draft = ui.draft /\ u.secret = ui.secret /\ u.shown = ui.shown
  BY ListUi
<1> QED BY <1>1 DEF Filled, NoForm

(* The console's roles and scopes.                                          *)
LEMMA EditedRowsForm ==
  ASSUME Base, page \in {"roles", "scopes"}, ListTypes,
         NEW create \in {"createRole", "createScope"}, NEW update \in {"updateRole", "updateScope"},
         NEW delete \in {"deleteRole", "deleteScope"},
         <<create, "create">> \in Asks(page), <<update, "update">> \in Asks(page),
         <<delete, "remove">> \in Asks(page), UNCHANGED <<others, meant>>,
         \/ ModalTable.create /\ Start("saving", create, "create", ui.form)
         \/ ThenFetch(create, [ui EXCEPT !.open = @ \ {"create"}, !.form = NoForm])
         \/ ModalTable.save /\ Start("saving", update, "update", Edited)
         \/ ThenFetch(update, Closed("edit"))
         \/ \E r \in ModalTable.delete : Start("none", delete, "remove", r)
         \/ ThenFetch(delete, ui)
  PROVE  ListAsked \/ ListHeard
<1>1. Filled(ui) /\ page \in ListPageNames
  BY DEF ListTypes, ListPageNames
<1>2. CASE ModalTable.create /\ Start("saving", create, "create", ui.form)
  BY <1>1, <1>2, FilledRequests, ListAskedForm DEF Fits, FlagFits
<1>3. CASE ThenFetch(create, [ui EXCEPT !.open = @ \ {"create"}, !.form = NoForm])
  <2> DEFINE u == [ui EXCEPT !.open = @ \ {"create"}, !.form = NoForm]
  <2>1. DOMAIN u = DOMAIN ui /\ Filled(u) /\ u.secret = ui.secret /\ u.shown = ui.shown
    BY <1>1, EmptiedFilled
  <2>2. ThenFetch(create, u)
    BY <1>3
  <2> HIDE DEF u
  <2> QED BY <1>1, <2>1, <2>2, HeardForm DEF Loaders
<1>4. CASE ModalTable.save /\ Start("saving", update, "update", Edited)
  BY <1>1, <1>4, FilledRequests, ListAskedForm DEF Fits, FlagFits
<1>5. CASE ThenFetch(update, Closed("edit"))
  BY <1>1, <1>5, ListUiTyped, ClosedFilled, HeardForm DEF Loaders
<1>6. CASE \E r \in ModalTable.delete : Start("none", delete, "remove", r)
  BY <1>1, <1>6, FilledRequests, ListAskedForm DEF Fits, FlagFits
<1>7. CASE ThenFetch(delete, ui)
  BY <1>1, <1>7, HeardForm DEF Loaders
<1> QED BY <1>2, <1>3, <1>4, <1>5, <1>6, <1>7

LEMMA RolesPageForm ==
  ASSUME Base, page = "roles", ListTypes,
         FetchRoles \/ CreateRole \/ OpenEditRole \/ UpdateRole \/ DeleteRole
  PROVE  ListStep
<1>1. Filled(ui) /\ page \in ListPageNames /\ ui.shown \in RowSets
  BY DEF ListTypes, ListPageNames
<1>2. CASE FetchRoles
  BY <1>1, <1>2, FetchedForm DEF FetchRoles, FetchOf, At, ListStep
<1>3. CASE OpenEditRole
  <2>1. PICK r \in Listed : OpenEdit(r, ui.shown[r])
    BY <1>3, OfferedRows DEF OpenEditRole, RolesTemplate
  <2>2. r \in Rows /\ ui.shown[r] \in RowVals(page)
    BY <1>1, OfferedRows DEF RowSets
  <2> QED BY <1>1, <2>1, <2>2, OpenEditForm DEF ListStep
<1>4. CASE CreateRole \/ UpdateRole \/ DeleteRole
  <2>1. /\ <<"createRole", "create">> \in Asks(page) /\ <<"updateRole", "update">> \in Asks(page)
        /\ <<"deleteRole", "remove">> \in Asks(page)
    BY DEF Asks
  <2> QED BY <1>4, <2>1, EditedRowsForm DEF CreateRole, UpdateRole, DeleteRole, RolesTemplate, At, ListStep
<1> QED BY <1>2, <1>3, <1>4

LEMMA ScopesPageForm ==
  ASSUME Base, page = "scopes", ListTypes,
         FetchScopes \/ CreateScope \/ OpenEditScope \/ UpdateScope \/ DeleteScope
  PROVE  ListStep
<1>1. Filled(ui) /\ page \in ListPageNames /\ ui.shown \in RowSets
  BY DEF ListTypes, ListPageNames
<1>2. CASE FetchScopes
  BY <1>1, <1>2, FetchedForm DEF FetchScopes, FetchOf, At, ListStep
<1>3. CASE OpenEditScope
  <2>1. PICK r \in Listed : OpenEdit(r, ui.shown[r])
    BY <1>3, OfferedRows DEF OpenEditScope, ScopesTemplate
  <2>2. r \in Rows /\ ui.shown[r] \in RowVals(page)
    BY <1>1, OfferedRows DEF RowSets
  <2> QED BY <1>1, <2>1, <2>2, OpenEditForm DEF ListStep
<1>4. CASE CreateScope \/ UpdateScope \/ DeleteScope
  <2>1. /\ <<"createScope", "create">> \in Asks(page) /\ <<"updateScope", "update">> \in Asks(page)
        /\ <<"deleteScope", "remove">> \in Asks(page)
    BY DEF Asks
  <2> QED BY <1>4, <2>1, EditedRowsForm
         DEF CreateScope, UpdateScope, DeleteScope, ScopesTemplate, At, ListStep
<1> QED BY <1>2, <1>3, <1>4

(* Users and their roles.                                                   *)
LEMMA OneAssign ==
  ASSUME ListKinds, FlagsFit
  PROVE  \A c, d \in calls : c.op = "assign" /\ d.op = "assign" => c = d
BY DEF ListKinds, FlagsFit, Lone

LEMMA UsersPageForm ==
  ASSUME Base, page = "users", ListTypes, FlagsFit, FetchUsers \/ OpenRoleModal \/ AssignRoles
  PROVE  ListStep
<1>1. Filled(ui) /\ page \in ListPageNames
  BY DEF ListTypes, ListPageNames
<1>2. CASE FetchUsers
  BY <1>1, <1>2, FetchedForm DEF FetchUsers, FetchOf, At, ListStep
<1>3. CASE OpenRoleModal
  <2>1. PICK r \in Listed : OpenEdit(r, {})
    BY <1>3 DEF OpenRoleModal, UsersTemplate
  <2>2. r \in Rows
    BY OfferedRows
  <2> QED BY <1>1, <2>1, <2>2, OpenEditForm DEF ListStep
<1>4. CASE /\ AssignRoles /\ UsersTemplate.save /\ UNCHANGED meant
           /\ Start("saving", "assignRoles", "assign", Edited)
  <2>1. "edit" \in ui.open
    BY <1>4 DEF UsersTemplate, Free
  <2>2. RowRequest("assign", Edited)
    BY <1>1, <2>1 DEF Filled, RowRequest, Edited
  <2>3. Fits("assignRoles", "assign", "saving")
    BY DEF Fits, Asks, FlagFits
  <2> QED BY <1>1, <1>4, <2>2, <2>3, ListAskedForm DEF AssignRoles, ListStep
<1>5. CASE /\ AssignRoles /\ ThenFetch("assignRoles", Closed("edit"))
           /\ \E c \in Answered("assignRoles") : Assigned(c, c.body.name)
  <2>1. PICK c \in Answered("assignRoles") : Assigned(c, c.body.name)
    BY <1>5
  <2>2. \A d \in Answered("assignRoles") : d = c
    BY <1>1, ListKindsHold, OneAssign DEF Answered, ListKinds
  <2>3. \A d \in Answered("assignRoles") :
          IF d.st = "ok"
          THEN meant' = [meant EXCEPT ![d.body.name] = d.body.val \cap RoleNames]
          ELSE meant' = meant
    BY <2>1, <2>2 DEF Assigned
  <2> QED BY <1>1, <1>5, <2>3, ListUiTyped, ClosedFilled, HeardForm DEF AssignRoles, Loaders, ListStep
<1> QED BY <1>2, <1>3, <1>4, <1>5 DEF AssignRoles

(* Applications, whose secrets are shown, and the user's own applications.  *)
LEMMA ShowSecretForm ==
  ASSUME Base, page = "applications", Filled(ui), ShowSecret, UNCHANGED <<others, meant>>
  PROVE  ListHeard
<1> DEFINE u(c) == IF c.st = "ok" THEN [ui EXCEPT !.secret = c.res, !.open = @ \cup {"secret"}] ELSE ui
<1>1. PICK c \in Answered("resetSecret") : Resume(calls \ {c}, u(c))
  BY DEF ShowSecret
<1>2. c \in calls /\ c.op = "reset" /\ c.st \in {"ok", "failed"}
  BY DEF Answered, Base, CallsFit, IsCall, Fits, Asks
<1>3. /\ u(c).form = ui.form /\ u(c).sel = ui.sel /\ u(c).draft = ui.draft /\ u(c).shown = ui.shown
      /\ c.st = "ok" => u(c).open = ui.open \cup {"secret"} /\ u(c).secret = c.res
      /\ c.st # "ok" => u(c).open = ui.open /\ u(c).secret = ui.secret
  BY ListUi DEF ListPageNames
<1> HIDE DEF u
<1>4. Waits /\ ui' = u(c) /\ calls' = calls \ {c}
  BY <1>1, <1>2, EndForm
<1>5. Filled(ui')
  BY <1>2, <1>3, <1>4 DEF Filled, Waits
<1> QED BY <1>2, <1>3, <1>4, <1>5 DEF ListHeard, Reveals

LEMMA OneCreated ==
  ASSUME ListKinds, FlagsFit
  PROVE  \A c, d \in Answered("createClient") : c = d
BY DEF ListKinds, FlagsFit, Lone, Answered

LEMMA CreatedForm ==
  ASSUME Base, page = "applications", Filled(ui), FlagsFit, UNCHANGED <<others, meant>>,
         NEW c \in Answered("createClient"),
         ThenFetch(c.fn, [ui EXCEPT !.secret = c.res, !.form = NoForm,
                                    !.open = (@ \ {"create"}) \cup {"secret"}])
  PROVE  ListHeard
<1> DEFINE u == [ui EXCEPT !.secret = c.res, !.form = NoForm, !.open = (@ \ {"create"}) \cup {"secret"}]
<1>1. c.fn = "createClient" /\ c \in calls /\ page \in ListPageNames
  BY DEF Answered, ListPageNames
<1>2. /\ DOMAIN u = DOMAIN ui /\ u.secret = c.res /\ u.form = NoForm
      /\ u.open = (ui.open \ {"create"}) \cup {"secret"}
      /\ u.sel = ui.sel /\ u.draft = ui.draft /\ u.shown = ui.shown
  BY <1>1, ListUi
<1>3. ThenFetch("createClient", u)
  BY <1>1
<1> HIDE DEF u
<1>4. Filled(u)
  BY <1>2 DEF Filled, NoForm
<1>5. \A d \in Answered("createClient") : u.secret = d.res
  BY <1>1, <1>2, ListKindsHold, OneCreated
<1> QED BY <1>1, <1>2, <1>3, <1>4, <1>5, HeardForm DEF Loaders

LEMMA ApplicationsPageForm ==
  ASSUME Base, page = "applications", ListTypes, FlagsFit,
         FetchClients \/ CreateClient \/ DeleteClient \/ ResetSecret
  PROVE  ListStep
<1>1. Filled(ui) /\ page \in ListPageNames
  BY DEF ListTypes, ListPageNames
<1>2. /\ ApplicationsTemplate.create => Free("create", "creating") /\ ui.form.name # None
      /\ ApplicationsTemplate.delete \subseteq Listed
      /\ ApplicationsTemplate.reset \subseteq Listed
  BY DEF ApplicationsTemplate
<1>3. CASE FetchClients
  BY <1>1, <1>3, FetchedForm DEF FetchClients, FetchOf, At, ListStep
<1>4. CASE /\ CreateClient /\ ApplicationsTemplate.create
           /\ Start("creating", "createClient", "create", ui.form)
  <2>1. RowRequest("create", ui.form)
    BY <1>1, <1>2, <1>4 DEF Filled, RowRequest
  <2>2. Fits("createClient", "create", "creating")
    BY DEF Fits, Asks, FlagFits
  <2> QED BY <1>1, <1>2, <1>4, <2>1, <2>2, ListAskedForm DEF CreateClient, At, ListStep
<1>5. CASE /\ CreateClient
           /\ \E c \in Answered("createClient") :
                ThenFetch(c.fn, [ui EXCEPT !.secret = c.res, !.form = NoForm,
                                           !.open = (@ \ {"create"}) \cup {"secret"}])
  BY <1>1, <1>5, CreatedForm DEF CreateClient, At, ListStep
<1>6. CASE DeleteClient
  <2>1. ASSUME NEW r, Start("none", "deleteClient", "remove", r)
        PROVE  ListAsked
    BY <1>1, <1>6, <2>1, ListAskedForm DEF DeleteClient, At, Fits, Asks, FlagFits, RowRequest
  <2>2. ASSUME ThenFetch("deleteClient", ui)
        PROVE  ListHeard
    BY <1>1, <1>6, <2>2, HeardForm DEF DeleteClient, At, Loaders
  <2> QED BY <1>6, <2>1, <2>2 DEF DeleteClient, ListStep
<1>7. CASE ResetSecret
  <2>1. ASSUME NEW r \in Listed, Start("none", "resetSecret", "reset", r)
        PROVE  ListAsked
    <3>1. r \in Rows
      BY OfferedRows
    <3>2. RowRequest("reset", r)
      BY <3>1 DEF RowRequest
    <3>3. Fits("resetSecret", "reset", "none")
      BY DEF Fits, Asks, FlagFits
    <3> QED BY <1>1, <1>7, <2>1, <3>2, <3>3, ListAskedForm DEF ResetSecret, At
  <2>2. ASSUME ShowSecret
        PROVE  ListHeard
    BY <1>1, <1>7, <2>2, ShowSecretForm DEF ResetSecret, At
  <2>3. ASSUME CloseSecret
        PROVE  Typing
    <3>1. /\ ui'.form = ui.form /\ ui'.open = ui.open \ {"secret"} /\ ui'.sel = ui.sel
          /\ ui'.draft = ui.draft /\ ui'.secret = None /\ ui'.shown = ui.shown
          /\ UNCHANGED <<page, db, calls, marks, others, meant>>
      BY <1>1, <2>3, ListUi DEF CloseSecret, Type
    <3> QED BY <1>1, <3>1 DEF Typing, Filled
  <2> QED BY <1>2, <1>7, <2>1, <2>2, <2>3 DEF ResetSecret, ListStep
<1> QED BY <1>3, <1>4, <1>5, <1>6, <1>7 DEF CreateClient

LEMMA AuthorizedAppsPageForm ==
  ASSUME Base, page = "authorized-apps", ListTypes, FetchApps \/ RevokeApp
  PROVE  ListStep
<1>1. Filled(ui) /\ page \in ListPageNames
  BY DEF ListTypes, ListPageNames
<1>2. CASE FetchApps
  BY <1>1, <1>2, FetchedForm DEF FetchApps, FetchOf, At, ListStep
<1>3. ASSUME NEW r, Start("none", "revokeApp", "remove", r), UNCHANGED <<others, meant>>
      PROVE  ListAsked
  BY <1>1, <1>3, ListAskedForm DEF Fits, Asks, FlagFits, RowRequest
<1>4. ASSUME ThenFetch("revokeApp", ui), UNCHANGED <<others, meant>>
      PROVE  ListHeard
  BY <1>1, <1>4, HeardForm DEF Loaders
<1> QED BY <1>2, <1>3, <1>4 DEF RevokeApp, At, ListStep

LEMMA ListForms ==
  ASSUME Base, ListTypes, FlagsFit, ListPagesNext
  PROVE  ListStep
<1>1. page \in ListPageNames /\ Filled(ui)
  BY DEF ListPagesNext, ListTypes
<1>2. CASE ServeList \/ ServeAssignInList \/ OtherInList
  BY <1>1, <1>2, ListServedForm, RolesServedForm, ListElsewhereForm DEF ListStep
<1>3. CASE Modals(ModalTable) \/ Modals(UsersTemplate) \/ Modals(ApplicationsTemplate)
  BY <1>1, <1>3, ModalsForm DEF ListStep
<1>4. CASE FetchRoles \/ CreateRole \/ OpenEditRole \/ UpdateRole \/ DeleteRole
  BY <1>4, RolesPageForm DEF FetchRoles, CreateRole, OpenEditRole, UpdateRole, DeleteRole, At
<1>5. CASE FetchScopes \/ CreateScope \/ OpenEditScope \/ UpdateScope \/ DeleteScope
  BY <1>5, ScopesPageForm DEF FetchScopes, CreateScope, OpenEditScope, UpdateScope, DeleteScope, At
<1>6. CASE FetchUsers \/ OpenRoleModal \/ AssignRoles
  BY <1>6, UsersPageForm DEF FetchUsers, OpenRoleModal, AssignRoles, At
<1>7. CASE FetchClients \/ CreateClient \/ DeleteClient \/ ResetSecret
  BY <1>7, ApplicationsPageForm DEF FetchClients, CreateClient, DeleteClient, ResetSecret, At
<1>8. CASE FetchApps \/ RevokeApp
  BY <1>8, AuthorizedAppsPageForm DEF FetchApps, RevokeApp, At
<1> QED BY <1>2, <1>3, <1>4, <1>5, <1>6, <1>7, <1>8 DEF ListPagesNext

-----------------------------------------------------------------------------
(* What is true of these pages: the rows shown are the server's, or a fetch *)
(* is under way or about to be; a secret shown is the one there is, or the  *)
(* next is on its way; and the server has given the users the roles the     *)
(* console has told of, or an assignment has yet to be heard of.            *)
Stale == \E c \in calls : c.op \in {"create", "update", "remove"} /\ c.st = "ok"

ListCurrent ==
  /\ \A c \in calls : c.op = "read" /\ c.st = "ok" => c.res = db.data \/ Stale
  /\ ui.shown = db.data \/ Stale \/ \E c \in calls : c.op = "read"

SecretTold == \E c \in calls : Reveals(c) /\ c.st = "ok"

SecretCurrent ==
  /\ ui.secret # None =>
       ui.secret.of \in Rows /\ (ui.secret.n = db.secret[ui.secret.of] \/ SecretTold)
  /\ \A c \in calls : Reveals(c) /\ c.st = "ok" => c.res.of \in Rows /\ c.res.n = db.secret[c.res.of]

RolesTold ==
  /\ \A c \in calls : c.op = "assign" /\ c.st = "half" =>
       c.res \subseteq c.body.val /\ Given(db.roles[c.body.name], (c.body.val \ c.res) \cap RoleNames, marks)
  /\ \A c \in calls : c.op = "assign" /\ c.st = "ok" =>
       Given(db.roles[c.body.name], c.body.val \cap RoleNames, marks)
  /\ \A r \in Rows : \/ Given(db.roles[r], meant[r], marks)
                     \/ \E c \in calls : c.op = "assign" /\ c.st \in {"half", "ok"} /\ c.body.name = r

ListFit ==
  /\ ListTypes
  /\ marks \subseteq {"blind", "misled"} => ListCurrent
  /\ page = "applications" /\ marks \cap {"overlap", "lost", "other"} = {} => SecretCurrent
  /\ page = "users" /\ marks \cap {"lost", "other"} = {} => RolesTold

(* What every step may count on.                                            *)
ListKnown ==
  /\ ListTypes /\ ListKinds /\ page \in ListPageNames
  /\ \A c, d \in calls : c.op = "assign" /\ d.op = "assign" => c = d
  /\ ReadsMarked /\ OverlapMarked /\ NoSecret

LEMMA OneReveals ==
  ASSUME NEW cs, ~Overlap(cs), NEW c \in cs, NEW d \in cs, Reveals(c), Reveals(d),
         c.op \notin {"read", "scopes", "search"}, d.op \notin {"read", "scopes", "search"}
  PROVE  c = d
<1>1. Shows(c) = {"secret"} /\ Shows(d) = {"secret"}
  BY DEF Shows, Reveals
<1> QED BY <1>1 DEF Overlap

LEMMA ListTypesKept ==
  ASSUME ListKnown, ListStep, page' = page
  PROVE  ListTypes'
<1>1. /\ DOMAIN db = {"data", "secret", "roles"} /\ db.data \in RowSets /\ ui.shown \in RowSets
      /\ db.roles \in [Rows -> SUBSET RoleNames] /\ DOMAIN db.secret = Rows /\ DOMAIN meant = Rows
      /\ Filled(ui)
      /\ \A c \in calls : /\ RowRequest(c.op, c.body)
                          /\ c.op = "read" /\ c.st = "ok" => c.res \in RowSets
  BY DEF ListKnown, ListTypes
<1>2. SUFFICES /\ DOMAIN db' = {"data", "secret", "roles"} /\ db'.data \in RowSets /\ ui'.shown \in RowSets
               /\ db'.roles \in [Rows -> SUBSET RoleNames] /\ DOMAIN db'.secret = Rows /\ DOMAIN meant' = Rows
               /\ Filled(ui')
               /\ \A c \in calls' : /\ RowRequest(c.op, c.body)
                                    /\ c.op = "read" /\ c.st = "ok" => c.res \in RowSets
  BY DEF ListTypes, RowSets, Filled, RowRequest
<1>3. CASE ListServed
  <2>1. PICK c \in calls : \E e :
          /\ Turns(e, c)
          /\ DOMAIN db' = DOMAIN db /\ db'.data \in RowSets /\ db'.roles = db.roles
          /\ DOMAIN db'.secret = Rows
          /\ c.op = "read" /\ e.st = "ok" => e.res = db.data
    BY <1>3 DEF ListServed
  <2>2. PICK e :
          /\ Turns(e, c)
          /\ DOMAIN db' = DOMAIN db /\ db'.data \in RowSets /\ db'.roles = db.roles
          /\ DOMAIN db'.secret = Rows
          /\ c.op = "read" /\ e.st = "ok" => e.res = db.data
    BY <2>1
  <2>3. calls' = (calls \ {c}) \cup {e} /\ e.op = c.op /\ e.body = c.body
    BY <2>2 DEF Turns, Answers
  <2>4. ui' = ui /\ meant' = meant
    BY <1>3 DEF ListServed
  <2> QED BY <1>1, <2>2, <2>3, <2>4
<1>4. CASE ListElsewhere
  BY <1>1, <1>4 DEF ListElsewhere
<1>5. CASE RolesServed
  <2>1. PICK c \in calls : \E e :
          /\ Turns(e, c) /\ c.op = "assign"
          /\ DOMAIN db' = DOMAIN db /\ db'.data = db.data /\ db'.secret = db.secret
          /\ db'.roles \in [Rows -> SUBSET RoleNames]
    BY <1>5 DEF RolesServed
  <2>2. PICK e : Turns(e, c)
    BY <2>1
  <2>3. calls' = (calls \ {c}) \cup {e} /\ e.op = c.op /\ e.body = c.body
    BY <2>2 DEF Turns, Answers
  <2>4. ui' = ui /\ meant' = meant
    BY <1>5 DEF RolesServed
  <2> QED BY <1>1, <2>1, <2>3, <2>4
<1>6. CASE Typing
  BY <1>1, <1>6 DEF Typing
<1>7. CASE ListAsked
  <2>1. PICK d : New(d, calls) /\ calls' = calls \cup {d} /\ d.op # "read" /\ RowRequest(d.op, d.body)
    BY <1>7 DEF ListAsked
  <2>2. db' = db /\ meant' = meant /\ ui'.shown = ui.shown /\ (Filled(ui) => Filled(ui'))
    BY <1>7 DEF ListAsked, Waits, Keeps, Filled
  <2> QED BY <1>1, <2>1, <2>2
<1>8. CASE ListFetched
  <2>1. PICK c \in calls : /\ c.op = "read" /\ c.st \in {"ok", "failed"} /\ calls' = calls \ {c}
                           /\ ui'.shown = IF c.st = "ok" THEN c.res ELSE ui.shown
    BY <1>8 DEF ListFetched
  <2>2. db' = db /\ meant' = meant /\ (Filled(ui) => Filled(ui'))
    BY <1>8 DEF ListFetched, Waits, Keeps, Filled
  <2> QED BY <1>1, <2>1, <2>2
<1>9. CASE ListHeard
  <2>1. PICK c \in calls :
          /\ IF c.op = "assign" /\ c.st = "ok"
             THEN meant' = [meant EXCEPT ![c.body.name] = c.body.val \cap RoleNames]
             ELSE meant' = meant
          /\ \/ calls' = calls \ {c}
             \/ \E d : Joins(d, calls \ {c}, FetchOf(page), "read", Rows, c.flag)
    BY <1>9 DEF ListHeard
  <2>2. db' = db /\ ui'.shown = ui.shown /\ Filled(ui')
    BY <1>9 DEF ListHeard, Waits
  <2>3. DOMAIN meant' = Rows
    BY <1>1, <2>1
  <2>4. \A d \in calls' : d \in calls \/ (d.op = "read" /\ d.body = Rows /\ d.st = "sent")
    BY <2>1 DEF Joins, New
  <2>5. \A d \in calls' : RowRequest(d.op, d.body) /\ (d.op = "read" /\ d.st = "ok" => d.res \in RowSets)
    BY <1>1, <2>4 DEF RowRequest
  <2> QED BY <1>1, <2>2, <2>3, <2>5
<1> QED BY <1>3, <1>4, <1>5, <1>6, <1>7, <1>8, <1>9 DEF ListStep

LEMMA ListMarksGrow ==
  ASSUME ListStep
  PROVE  marks \subseteq marks' \/ "other" \in marks'
BY DEF ListStep, ListServed, ListElsewhere, RolesServed, Typing, ListAsked, ListFetched, ListHeard, Waits

LEMMA ListCurrentKept ==
  ASSUME ListKnown, ListStep, marks \subseteq {"blind", "misled"} => ListCurrent, marks' \subseteq {"blind", "misled"}
  PROVE  ListCurrent'
<1>1. ListCurrent
  BY ListMarksGrow
<1>2. CASE ListServed
  <2>1. PICK c \in calls : \E e :
          /\ Turns(e, c) /\ c.st \in {"sent", "half"}
          /\ \/ db'.data = db.data
             \/ c.op \in {"create", "update", "remove"} /\ (e.st = "ok" \/ "lost" \in marks')
          /\ c.op = "read" => db' = db /\ (e.st = "ok" => e.res = db.data)
    BY <1>2 DEF ListServed
  <2>2. PICK e :
          /\ Turns(e, c) /\ c.st \in {"sent", "half"}
          /\ \/ db'.data = db.data
             \/ c.op \in {"create", "update", "remove"} /\ (e.st = "ok" \/ "lost" \in marks')
          /\ c.op = "read" => db' = db /\ (e.st = "ok" => e.res = db.data)
    BY <2>1
  <2>3. calls' = (calls \ {c}) \cup {e} /\ e.op = c.op /\ ui' = ui
    BY <1>2, <2>2 DEF Turns, Answers, ListServed
  <2>4. (Stale => Stale') /\ (db'.data = db.data \/ Stale')
    BY <2>2, <2>3 DEF Stale
  <2> QED BY <1>1, <2>2, <2>3, <2>4 DEF ListCurrent
<1>3. CASE RolesServed
  <2>1. PICK c \in calls : \E e : Turns(e, c) /\ c.op = "assign" /\ db'.data = db.data
    BY <1>3 DEF RolesServed
  <2>2. PICK e : Turns(e, c)
    BY <2>1
  <2>3. calls' = (calls \ {c}) \cup {e} /\ e.op = c.op /\ ui' = ui
    BY <1>3, <2>2 DEF Turns, Answers, RolesServed
  <2>4. Stale => Stale'
    BY <2>1, <2>3 DEF Stale
  <2> QED BY <1>1, <2>1, <2>3, <2>4 DEF ListCurrent
<1>4. CASE ListElsewhere
  BY <1>4 DEF ListElsewhere
<1>5. CASE Typing
  BY <1>1, <1>5 DEF Typing, ListCurrent, Stale
<1>6. CASE ListAsked
  BY <1>1, <1>6 DEF ListAsked, ListCurrent, Stale, Waits, New
<1>7. CASE ListFetched
  <2>1. PICK c \in calls : /\ c.op = "read" /\ c.st \in {"ok", "failed"} /\ calls' = calls \ {c}
                           /\ ui'.shown = IF c.st = "ok" THEN c.res ELSE ui.shown
    BY <1>7 DEF ListFetched
  <2>2. db' = db /\ marks \subseteq marks'
    BY <1>7 DEF ListFetched, Waits
  <2>3. c.st = "ok"
    BY <2>1, <2>2 DEF ListKnown, ReadsMarked
  <2> QED BY <1>1, <2>1, <2>2, <2>3 DEF ListCurrent, Stale
<1>8. CASE ListHeard
  <2>1. PICK c \in calls :
          /\ c.op # "read"
          /\ \/ c.st = "failed" /\ calls' = calls \ {c}
             \/ c.op = "reset" /\ calls' = calls \ {c}
             \/ c.st = "ok" /\ \E d : Joins(d, calls \ {c}, FetchOf(page), "read", Rows, c.flag)
    BY <1>8 DEF ListHeard
  <2>2. db' = db /\ ui'.shown = ui.shown /\ ("overlap" \notin marks' => ~Overlap(calls'))
    BY <1>8 DEF ListHeard, Waits
  <2>3. CASE calls' = calls \ {c} /\ (c.st = "failed" \/ c.op = "reset")
    BY <1>1, <2>1, <2>2, <2>3 DEF ListCurrent, Stale
  <2>4. ASSUME NEW d, Joins(d, calls \ {c}, FetchOf(page), "read", Rows, c.flag)
        PROVE  ListCurrent'
    <3>1. /\ calls' = (calls \ {c}) \cup {d} /\ d \notin calls \ {c} /\ d.op = "read" /\ d.body = Rows
          /\ d.st = "sent" /\ d.fn # "createClient"
      BY <2>4 DEF Joins, New, FetchOf, ListKnown, ListPageNames
    <3>2. ASSUME NEW e \in calls \ {c}, e.op = "read", e.st = "ok"
          PROVE  e.res = db.data
      <4>1. e.body = Rows /\ e.res \in RowSets /\ db.data \in RowSets /\ e.fn # "createClient"
        BY <3>2 DEF ListKnown, ListTypes, RowRequest, ListKinds
      <4>2. e \in calls' /\ d \in calls' /\ e # d /\ ~Overlap(calls')
        BY <2>2, <3>1
      <4>3. e.body \cap d.body = {}
        BY <3>1, <3>2, <4>1, <4>2, ReadsApart
      <4>4. Rows = {}
        BY <3>1, <4>1, <4>3
      <4> QED BY <4>1, <4>4 DEF RowSets
    <3> QED BY <2>2, <3>1, <3>2 DEF ListCurrent
  <2> QED BY <2>1, <2>3, <2>4
<1> QED BY <1>2, <1>3, <1>4, <1>5, <1>6, <1>7, <1>8 DEF ListStep

LEMMA SecretCurrentKept ==
  ASSUME ListKnown, page = "applications", ListStep,
         marks \cap {"overlap", "lost", "other"} = {} => SecretCurrent,
         marks' \cap {"overlap", "lost", "other"} = {}
  PROVE  SecretCurrent'
<1>1. SecretCurrent
  BY ListMarksGrow
<1>2. CASE ListServed
  <2>1. PICK c \in calls : \E e :
          /\ Turns(e, c) /\ c.st \in {"sent", "half"} /\ marks \subseteq marks'
          /\ db'.secret = db.secret \/ (Reveals(c) /\ e.st = "ok")
          /\ Reveals(c) /\ e.st = "ok" => e.res.of \in Rows /\ e.res.n = db'.secret[e.res.of]
    BY <1>2 DEF ListServed, ListKnown, ListKinds, Reveals
  <2>2. PICK e :
          /\ Turns(e, c) /\ c.st \in {"sent", "half"} /\ marks \subseteq marks'
          /\ db'.secret = db.secret \/ (Reveals(c) /\ e.st = "ok")
          /\ Reveals(c) /\ e.st = "ok" => e.res.of \in Rows /\ e.res.n = db'.secret[e.res.of]
    BY <2>1
  <2>3. calls' = (calls \ {c}) \cup {e} /\ e.op = c.op /\ e.fn = c.fn /\ ui' = ui
    BY <1>2, <2>2 DEF Turns, Answers, ListServed
  <2>4. Reveals(e) <=> Reveals(c)
    BY <2>3 DEF Reveals
  <2>5. Reveals(c) => \A d \in calls \ {c} : ~Reveals(d)
    <3>1. ~Overlap(calls)
      BY <2>2 DEF ListKnown, OverlapMarked
    <3>2. \A d \in calls : d.op \notin {"scopes", "search"} /\ (Reveals(d) => d.op # "read")
      BY DEF ListKnown, ListKinds, Reveals
    <3> QED BY <3>1, <3>2, OneReveals
  <2>6. SecretTold => SecretTold'
    BY <2>2, <2>3 DEF SecretTold
  <2>7. CASE Reveals(c) /\ e.st = "ok"
    <3>1. SecretTold'
      BY <2>3, <2>4, <2>7 DEF SecretTold
    <3> QED BY <1>1, <2>2, <2>3, <2>5, <2>7, <3>1 DEF SecretCurrent
  <2>8. CASE ~(Reveals(c) /\ e.st = "ok")
    <3>1. db'.secret = db.secret
      BY <2>2, <2>8
    <3> QED BY <1>1, <2>3, <2>4, <2>6, <2>8, <3>1 DEF SecretCurrent
  <2> QED BY <2>7, <2>8
<1>3. CASE RolesServed
  <2>1. PICK c \in calls : c.op = "assign"
    BY <1>3 DEF RolesServed
  <2> QED BY <2>1 DEF ListKnown, ListKinds
<1>4. CASE ListElsewhere
  BY <1>4 DEF ListElsewhere
<1>5. CASE Typing
  BY <1>1, <1>5 DEF Typing, SecretCurrent, SecretTold
<1>6. CASE ListAsked
  <2>1. PICK d : New(d, calls) /\ calls' = calls \cup {d}
    BY <1>6 DEF ListAsked
  <2>2. db' = db /\ ui'.secret = ui.secret /\ d.st = "sent"
    BY <1>6, <2>1 DEF ListAsked, Waits, Keeps, New
  <2> QED BY <1>1, <2>1, <2>2 DEF SecretCurrent, SecretTold
<1>7. CASE ListFetched
  <2>1. PICK c \in calls : c.op = "read" /\ calls' = calls \ {c}
    BY <1>7 DEF ListFetched
  <2>2. db' = db /\ ui'.secret = ui.secret /\ ~Reveals(c)
    BY <1>7, <2>1 DEF ListFetched, Waits, Keeps, Reveals, ListKnown, ListKinds
  <2> QED BY <1>1, <2>1, <2>2 DEF SecretCurrent, SecretTold
<1>8. CASE ListHeard
  <2>1. PICK c \in calls :
       /\ c.op # "read" /\ c.st \in {"ok", "failed"}
       /\ \/ calls' = calls \ {c}
          \/ \E d : Joins(d, calls \ {c}, FetchOf(page), "read", Rows, c.flag)
       /\ \/ c.st = "ok" /\ Reveals(c) /\ ui'.secret = c.res
          \/ (c.st = "ok" => ~Reveals(c)) /\ ui'.secret = ui.secret
    BY <1>8 DEF ListHeard
  <2>2. db' = db
    BY <1>8 DEF ListHeard, Waits
  <2>3. calls \ {c} \subseteq calls' /\ \A d \in calls' : Reveals(d) => d \in calls
    BY <2>1 DEF Joins, Reveals, FetchOf, ListKnown, ListPageNames
  <2>4. CASE c.st = "ok" /\ Reveals(c) /\ ui'.secret = c.res
    BY <1>1, <2>2, <2>3, <2>4 DEF SecretCurrent
  <2>5. CASE (c.st = "ok" => ~Reveals(c)) /\ ui'.secret = ui.secret
    <3>1. SecretTold => SecretTold'
      BY <2>1, <2>3, <2>5 DEF SecretTold
    <3> QED BY <1>1, <2>2, <2>3, <2>5, <3>1 DEF SecretCurrent
  <2> QED BY <2>1, <2>4, <2>5
<1> QED BY <1>2, <1>3, <1>4, <1>5, <1>6, <1>7, <1>8 DEF ListStep

LEMMA GivenStays ==
  ASSUME marks \subseteq marks', NEW has, NEW said, Given(has, said, marks)
  PROVE  Given(has, said, marks')
BY DEF Given

LEMMA RolesToldKept ==
  ASSUME ListKnown, page = "users", ListStep, marks \cap {"lost", "other"} = {} => RolesTold,
         marks' \cap {"lost", "other"} = {}
  PROVE  RolesTold'
<1>1. RolesTold /\ marks \subseteq marks'
  BY ListMarksGrow
<1>2. /\ \A c \in calls : c.op = "assign" => c.body.name \in Rows
      /\ \A c, d \in calls : c.op = "assign" /\ d.op = "assign" => c = d
  BY DEF ListKnown, ListTypes, RowRequest
<1>3. \A has, said : Given(has, said, marks) => Given(has, said, marks')
  BY <1>1, GivenStays
<1>4. CASE ListServed
  <2>1. PICK c \in calls : \E e : Turns(e, c) /\ c.op # "assign" /\ db'.roles = db.roles
    BY <1>4 DEF ListServed
  <2>2. PICK e : Turns(e, c)
    BY <2>1
  <2>3. calls' = (calls \ {c}) \cup {e} /\ e.op = c.op /\ meant' = meant
    BY <1>4, <2>2 DEF Turns, Answers, ListServed
  <2> QED BY <1>1, <1>3, <2>1, <2>3 DEF RolesTold
<1>5. CASE RolesServed
  <2>1. PICK c \in calls : \E e :
          /\ Turns(e, c) /\ c.op = "assign"
          /\ \A r \in Rows : r # c.body.name => db'.roles[r] = db.roles[r]
          /\ RolesGo(c, e, db.roles[c.body.name], db'.roles[c.body.name])
    BY <1>5 DEF RolesServed
  <2>2. PICK e :
          /\ Turns(e, c) /\ c.op = "assign"
          /\ \A r \in Rows : r # c.body.name => db'.roles[r] = db.roles[r]
          /\ RolesGo(c, e, db.roles[c.body.name], db'.roles[c.body.name])
    BY <2>1
  <2>3. calls' = (calls \ {c}) \cup {e} /\ e.op = c.op /\ e.body = c.body /\ meant' = meant
    BY <1>5, <2>2 DEF Turns, Answers, RolesServed
  <2>4. \A d \in calls' : d.op = "assign" => d = e
    BY <1>2, <2>2, <2>3
  <2> DEFINE has == db.roles[c.body.name]
             gets == db'.roles[c.body.name]
  <2>5. /\ e.st = "half" =>
             e.res \subseteq e.body.val /\ Given(gets, (e.body.val \ e.res) \cap RoleNames, marks')
        /\ e.st = "ok" => Given(gets, e.body.val \cap RoleNames, marks')
        /\ e.st \in {"half", "ok"} \/ (c.st = "sent" /\ gets = has)
    <3>1. RolesGo(c, e, has, gets) /\ "lost" \notin marks'
      BY <2>2
    <3>2. c.st = "half" =>
            c.res \subseteq c.body.val /\ Given(has, (c.body.val \ c.res) \cap RoleNames, marks)
      BY <1>1, <2>2 DEF RolesTold
    <3> HIDE DEF has, gets
    <3> QED BY <1>1, <2>3, <3>1, <3>2, RolesGoOn
  <2>6. \A r \in Rows : \/ Given(db'.roles[r], meant[r], marks')
                        \/ e.st \in {"half", "ok"} /\ e.body.name = r
    <3> SUFFICES ASSUME NEW r \in Rows, ~(e.st \in {"half", "ok"} /\ e.body.name = r)
                 PROVE  Given(db'.roles[r], meant[r], marks')
      OBVIOUS
    <3>1. db'.roles[r] = db.roles[r] /\ (c.body.name = r => c.st = "sent")
      BY <2>2, <2>3, <2>5
    <3>2. Given(db.roles[r], meant[r], marks)
      BY <1>1, <1>2, <2>2, <3>1 DEF RolesTold
    <3> QED BY <1>3, <3>1, <3>2
  <2>7. /\ \A d \in calls' : d.op = "assign" /\ d.st = "half" =>
             d.res \subseteq d.body.val
             /\ Given(db'.roles[d.body.name], (d.body.val \ d.res) \cap RoleNames, marks')
        /\ \A d \in calls' : d.op = "assign" /\ d.st = "ok" =>
             Given(db'.roles[d.body.name], d.body.val \cap RoleNames, marks')
    BY <2>3, <2>4, <2>5
  <2>8. \A r \in Rows : \/ Given(db'.roles[r], meant'[r], marks')
                        \/ \E d \in calls' : d.op = "assign" /\ d.st \in {"half", "ok"} /\ d.body.name = r
    BY <2>2, <2>3, <2>6
  <2> HIDE DEF has, gets
  <2> QED BY <2>7, <2>8 DEF RolesTold
<1>6. CASE ListElsewhere
  BY <1>6 DEF ListElsewhere
<1>7. CASE Typing
  BY <1>1, <1>7 DEF Typing, RolesTold
<1>8. CASE ListAsked
  BY <1>1, <1>3, <1>8 DEF ListAsked, Waits, New, RolesTold
<1>9. CASE ListFetched
  BY <1>1, <1>3, <1>9 DEF ListFetched, Waits, RolesTold
<1>10. CASE ListHeard
  <2>1. PICK c \in calls :
       /\ c.op # "read" /\ c.st \in {"ok", "failed"}
       /\ IF c.op = "assign" /\ c.st = "ok"
          THEN meant' = [meant EXCEPT ![c.body.name] = c.body.val \cap RoleNames]
          ELSE meant' = meant
       /\ \/ calls' = calls \ {c}
          \/ \E d : Joins(d, calls \ {c}, FetchOf(page), "read", Rows, c.flag)
    BY <1>10 DEF ListHeard
  <2>2. db' = db /\ DOMAIN meant = Rows
    BY <1>10 DEF ListHeard, Waits, ListKnown, ListTypes
  <2>3. (\A d \in calls' : d.op = "assign" => d \in calls) /\ calls \ {c} \subseteq calls'
    BY <2>1 DEF Joins
  <2>4. \A r \in Rows : \/ Given(db.roles[r], meant'[r], marks)
                        \/ \E d \in calls' : d.op = "assign" /\ d.st \in {"half", "ok"} /\ d.body.name = r
    <3>1. CASE c.op = "assign" /\ c.st = "ok"
      <4>1. /\ c.body.name \in Rows /\ Given(db.roles[c.body.name], meant'[c.body.name], marks)
            /\ \A r \in Rows : r # c.body.name => meant'[r] = meant[r]
        <5>1. c.body.name \in Rows /\ Given(db.roles[c.body.name], c.body.val \cap RoleNames, marks)
          BY <1>1, <1>2, <3>1 DEF RolesTold
        <5>2. meant' = [meant EXCEPT ![c.body.name] = c.body.val \cap RoleNames]
          BY <2>1, <3>1
        <5> QED BY <2>2, <5>1, <5>2
      <4> QED BY <1>1, <1>2, <3>1, <4>1 DEF RolesTold
    <3>2. CASE ~(c.op = "assign" /\ c.st = "ok")
      BY <1>1, <2>1, <2>3, <3>2 DEF RolesTold
    <3> QED BY <3>1, <3>2
  <2>5. /\ \A d \in calls' : d.op = "assign" /\ d.st = "half" =>
             d.res \subseteq d.body.val
             /\ Given(db'.roles[d.body.name], (d.body.val \ d.res) \cap RoleNames, marks')
        /\ \A d \in calls' : d.op = "assign" /\ d.st = "ok" =>
             Given(db'.roles[d.body.name], d.body.val \cap RoleNames, marks')
    BY <1>1, <1>3, <2>2, <2>3 DEF RolesTold
  <2>6. \A r \in Rows : \/ Given(db'.roles[r], meant'[r], marks')
                        \/ \E d \in calls' : d.op = "assign" /\ d.st \in {"half", "ok"} /\ d.body.name = r
    BY <1>3, <2>2, <2>4
  <2> QED BY <2>5, <2>6 DEF RolesTold
<1> QED BY <1>4, <1>5, <1>6, <1>7, <1>8, <1>9, <1>10 DEF ListStep

(* Every step of these pages keeps this.                                    *)
LEMMA ListStepFits ==
  ASSUME PageInv, ListFit, ListPagesNext, page' = page
  PROVE  ListFit'
<1>1. page \in ListPageNames /\ Base /\ FlagsFit /\ ListTypes /\ ReadsMarked /\ OverlapMarked /\ NoSecret
  BY DEF ListPagesNext, PageInv, ListFit
<1>2. ListKnown /\ ListStep
  BY <1>1, ListKindsHold, OneAssign, ListForms DEF ListKnown
<1>3. ListTypes'
  BY <1>2, ListTypesKept
<1>4. marks' \subseteq {"blind", "misled"} => ListCurrent'
  BY <1>2, ListCurrentKept DEF ListFit
<1>5. page' = "applications" /\ marks' \cap {"overlap", "lost", "other"} = {} => SecretCurrent'
  BY <1>2, SecretCurrentKept DEF ListFit
<1>6. page' = "users" /\ marks' \cap {"lost", "other"} = {} => RolesTold'
  BY <1>2, RolesToldKept DEF ListFit
<1> QED BY <1>3, <1>4, <1>5, <1>6 DEF ListFit

LEMMA ListMountedFits ==
  ASSUME page \in ListPageNames, ListMounted(page), meant = [r \in Rows |-> {}]
  PROVE  ListFit
<1>1. Fits(FetchOf(page), "read", "none")
  BY DEF Fits, Asks, FlagFits, FetchOf, ListPageNames
<1>2. PICK d : /\ Sent({}, FetchOf(page), "read", Rows, "none") = {d} /\ d.op = "read" /\ d.body = Rows
               /\ Awaits(FetchOf(page), "none", {}, d)
  BY <1>1, OneAwaited
<1>3. calls = {d} /\ d.st = "sent" /\ d.op = "read" /\ d.body = Rows /\ d.fn # "createClient"
  BY <1>2 DEF ListMounted, Awaits, New, FetchOf, ListPageNames
<1>4. /\ ui.shown = [r \in Rows |-> None] /\ ui.open = {} /\ ui.form = NoForm /\ ui.secret = None
  BY DEF ListMounted, Fresh
<1>5. /\ DOMAIN db = {"data", "secret", "roles"} /\ db.data \in RowSets
      /\ db.secret = [r \in Rows |-> 0] /\ db.roles = [r \in Rows |-> {}]
  BY DEF ListMounted, RowSets
<1>6. ListTypes
  BY <1>3, <1>4, <1>5 DEF ListTypes, RowSets, Filled, NoForm, RowRequest
<1>7. ListCurrent /\ SecretCurrent /\ RolesTold
  BY <1>3, <1>4, <1>5 DEF ListCurrent, SecretCurrent, RolesTold, Given
<1> QED BY <1>6, <1>7 DEF ListFit

-----------------------------------------------------------------------------
(* The pages that show one thing.  The types of what they hold and send.    *)
LEMMA OverIs ==
  ASSUME NEW new, NEW old
  PROVE  /\ DOMAIN Over(new, old) = DOMAIN new \cup DOMAIN old
         /\ \A k \in DOMAIN new : Over(new, old)[k] = new[k]
         /\ \A k \in DOMAIN old \ DOMAIN new : Over(new, old)[k] = old[k]
BY DEF Over

LEMMA FieldValsAre ==
  /\ FieldVals("roles") = SUBSET RoleNames
  /\ FieldVals("scopes") = SUBSET ScopeNames
  /\ FieldVals("uris") = Texts
  /\ \A k : k \notin {"roles", "scopes", "uris"} => FieldVals(k) = Texts \ {Odd}
BY DEF FieldVals

LEMMA FieldsAre ==
  /\ RecordPageNames = {"user-detail", "application-detail", "settings", "admin-dashboard", "profile"}
  /\ Fields["user-detail"] = {"email", "verified", "locked", "roles"}
  /\ Fields["application-detail"] = {"name", "uris", "scopes"}
  /\ Fields["settings"] = {"scopes", "keys"}
  /\ Fields["admin-dashboard"] = {"health", "stats"}
  /\ Fields["profile"] = {"verified"}
BY DEF Fields, RecordPageNames

LEMMA TidyIs ==
  /\ \A v \in Texts : Tidy(v) \in Texts \ {Odd}
  /\ \A v : v # Odd => Tidy(v) = v
  /\ \A v \in Texts : OrBlank(v) = v
  /\ OrBlank(None) = Blank /\ Blank \in Texts \ {Odd}
BY RecordPagesAssumption DEF Tidy, OrBlank

LEMMA OverIsFcn ==
  ASSUME NEW new, NEW old, NEW f, f = Over(new, old)
  PROVE  f = [k \in DOMAIN f |-> f[k]]
BY DEF Over

(* The fields that a save may send.                                         *)
Sendable(k) ==
  \/ page = "user-detail" /\ k \in {"email", "verified", "locked"}
  \/ page = "application-detail" /\ k \in {"name", "uris"}

IsForm(f) ==
  /\ DOMAIN f = {"email", "verified", "name", "uris", "roles", "scopes"}
  /\ f["roles"] \subseteq RoleNames
  /\ f["scopes"] \subseteq ScopeNames
  /\ f["email"] \in Texts /\ f["verified"] \in Texts /\ f["name"] \in Texts /\ f["uris"] \in Texts
  /\ page = "user-detail" => f["email"] # Odd /\ f["verified"] # Odd

(* What a request asks for.                                                 *)
RecordRequest(op, body) ==
  /\ op = "read" =>
       /\ body \subseteq Fields[page]
       /\ page \in {"user-detail", "application-detail"} => body = Fields[page]
       /\ page = "admin-dashboard" => body \in {{"health"}, {"stats"}}
  /\ op = "put" => \A k \in DOMAIN body : Sendable(k) /\ body[k] \in FieldVals(k)
  /\ op = "scopes" => DOMAIN body = {"scopes"} /\ body["scopes"] \in FieldVals("scopes")
  /\ op = "assign" => body.val \subseteq RoleNames

IsFcn(f) == f = [k \in DOMAIN f |-> f[k]]

IsData(f) ==
  /\ DOMAIN f = Fields[page] /\ IsFcn(f)
  /\ \A k \in Fields[page] : f[k] \in FieldVals(k)

IsShown(f) ==
  /\ DOMAIN f = Fields[page] /\ IsFcn(f)
  /\ \A k \in Fields[page] : f[k] = None \/ f[k] \in FieldVals(k)
  /\ page = "user-detail" => (f["email"] = None <=> f["verified"] = None)

IsAnswer(body, f) == DOMAIN f = body /\ \A k \in body : f[k] \in FieldVals(k)

(* What has been read for c so far.                                         *)
Part(c) == IF c.st = "half" THEN c.body \ {"scopes"} ELSE c.body

RecordTypes ==
  /\ DOMAIN db = {"data", "secret", "sent", "pending"}
  /\ \A set \in db.pending : set \in FieldVals("scopes") /\ \A other \in db.pending : other = set
  /\ db.pending # {} => page = "application-detail"
  /\ IsData(db.data)
  /\ DOMAIN db.secret = {"this"}
  /\ IsShown(ui.shown)
  /\ IsForm(ui.draft)
  /\ DOMAIN others \subseteq Fields[page]
  /\ \A c \in calls :
       /\ RecordRequest(c.op, c.body)
       /\ c.op = "read" /\ c.st \in {"half", "ok"} => IsAnswer(Part(c), c.res)
       /\ c.op = "scopes" /\ c.st = "ok" => c.res = c.body
  /\ page = "admin-dashboard" => \A c, d \in calls : c.body = d.body => c = d

RecordKinds ==
  \A c \in calls :
    /\ c.op \in {"read", "put", "scopes", "assign", "reset", "mail"} /\ c.fn # "createClient"
    /\ c.op = "put" => page \in {"user-detail", "application-detail"}
    /\ c.op = "assign" => page = "user-detail" /\ c.flag = "saving"
    /\ c.op = "assign" <=> c.fn = "saveRoles"
    /\ c.op = "scopes" <=> c.fn = "saveScopes"
    /\ c.op = "reset" <=> c.fn = "resetClientSecret"
    /\ c.op \in {"scopes", "reset"} => page = "application-detail"
    /\ page = "admin-dashboard" => c.op = "read"

LEMMA RecordKindsHold ==
  ASSUME Base, page \in RecordPageNames
  PROVE  RecordKinds
<1>1. \A c \in calls : <<c.fn, c.op>> \in Asks(page) /\ FlagFits(c.fn, c.flag)
  BY DEF Base, CallsFit, IsCall, Fits
<1>2. ASSUME NEW c \in calls
      PROVE  /\ c.op \in {"read", "put", "scopes", "assign", "reset", "mail"} /\ c.fn # "createClient"
             /\ c.op = "put" => page \in {"user-detail", "application-detail"}
             /\ c.op = "assign" => page = "user-detail"
             /\ c.op = "assign" <=> c.fn = "saveRoles"
             /\ c.op = "scopes" <=> c.fn = "saveScopes"
             /\ c.op = "reset" <=> c.fn = "resetClientSecret"
             /\ c.op \in {"scopes", "reset"} => page = "application-detail"
             /\ page = "admin-dashboard" => c.op = "read"
  <2>1. CASE page = "user-detail"
    BY <1>1, <2>1 DEF Asks
  <2>2. CASE page = "application-detail"
    BY <1>1, <2>2 DEF Asks
  <2>3. CASE page \in {"settings", "admin-dashboard", "profile"}
    BY <1>1, <2>3 DEF Asks
  <2> QED BY <2>1, <2>2, <2>3, FieldsAre
<1>3. \A c \in calls : c.fn = "saveRoles" => c.flag = "saving"
  BY <1>1 DEF FlagFits
<1> QED BY <1>2, <1>3 DEF RecordKinds

-----------------------------------------------------------------------------
(* The steps of these pages.                                                *)
(* A read goes on: what is there is answered, but for the scopes once the   *)
(* server has misled the page about them.                                   *)
ReadOn(c, e) ==
  \/ e.st = "failed"
  \/ /\ e.st \in {"half", "ok"} /\ (e.st = "half" => page = "application-detail")
     /\ DOMAIN e.res = Part(e)
     /\ \A k \in DOMAIN e.res :
          \/ e.res[k] = db.data[k] /\ (k = "scopes" => db.pending = {})
          \/ c.st = "half" /\ k # "scopes" /\ e.res[k] = c.res[k]
          \/ k = "scopes" /\ "misled" \in marks' /\ e.res[k] \in FieldVals("scopes")

RecordServed ==
  /\ UNCHANGED <<ui, others, meant>>
  /\ \E c \in calls : \E e :
       /\ Turns(e, c) /\ c.op # "assign" /\ c.st \in {"sent", "half"} /\ marks \subseteq marks'
       /\ DOMAIN db' = DOMAIN db /\ IsData(db'.data) /\ DOMAIN db'.secret = DOMAIN db.secret
       /\ \/ db'.data = db.data
          \/ /\ c.op = "put" /\ (e.st = "ok" \/ "lost" \in marks')
             /\ \A k \in Fields[page] : db'.data[k] = IF k \in DOMAIN c.body THEN c.body[k] ELSE db.data[k]
       /\ \/ db'.pending = db.pending
          \/ c.op = "scopes" /\ (e.st = "ok" \/ "lost" \in marks') /\ db'.pending = {c.body["scopes"]}
       /\ db'.secret = db.secret \/ (c.op = "reset" /\ (e.st = "ok" \/ "lost" \in marks'))
       /\ c.op = "read" => db' = db /\ ReadOn(c, e)
       /\ c.op = "scopes" /\ e.st = "ok" => e.res = c.body /\ db'.pending = {c.body["scopes"]}
       /\ c.op = "reset" /\ e.st = "ok" => e.res.of = "this" /\ e.res.n = db'.secret["this"]

(* An update of the scopes is committed, or fails.                          *)
RecordCommitted ==
  /\ UNCHANGED <<ui, calls, others, meant>> /\ marks \subseteq marks'
  /\ DOMAIN db' = DOMAIN db /\ db'.secret = db.secret /\ IsData(db'.data) /\ db'.pending = {}
  /\ \A k \in Fields[page] \ {"scopes"} : db'.data[k] = db.data[k]
  /\ \E set \in db.pending : db'.data["scopes"] = set \/ "misled" \in marks'

TheirRolesServed ==
  /\ UNCHANGED <<ui, others, meant>>
  /\ \E c \in calls : \E e :
       /\ Turns(e, c) /\ c.op = "assign" /\ marks \subseteq marks'
       /\ DOMAIN db' = DOMAIN db /\ db'.secret = db.secret /\ db'.pending = db.pending
       /\ IsData(db'.data) /\ \A k \in Fields[page] \ {"roles"} : db'.data[k] = db.data[k]
       /\ RolesGo(c, e, db.data["roles"], db'.data["roles"])

(* Somebody else sets field k to v.                                         *)
RecordElsewhere ==
  /\ UNCHANGED <<ui, calls, meant>> /\ marks' = marks \cup {"other"}
  /\ DOMAIN db' = DOMAIN db /\ db'.secret = db.secret /\ db'.pending = db.pending /\ IsData(db'.data)
  /\ \E k \in Fields[page] :
       /\ \A j \in Fields[page] \ {k} : db'.data[j] = db.data[j]
       /\ \/ /\ \/ k \notin FormFields
                \/ ~Untouched(k)
                \/ \E c \in calls : c.op = "put" /\ k \in DOMAIN c.body
             /\ others' = others
          \/ /\ k \in FormFields /\ Untouched(k)
             /\ \A c \in calls : c.op = "put" => k \notin DOMAIN c.body
             /\ others' = Over([j \in {k} |-> db'.data[k]], others)

(* The component holds on to what it shows and to what was entered.         *)
Holds == UNCHANGED <<ui.shown, ui.draft>>

SecretHeld == ui'.secret = ui.secret

RecordTyped ==
  /\ UNCHANGED <<db, calls, marks, others, meant>> /\ Holds
  /\ SecretHeld \/ ui'.secret = None

RecordEdited ==
  /\ UNCHANGED <<db, calls, marks, meant>> /\ ui'.shown = ui.shown /\ SecretHeld
  /\ IsForm(ui'.draft)
  /\ \E k : /\ \A j \in DOMAIN ui.draft \ {k} : ui'.draft[j] = ui.draft[j]
            /\ others' = [j \in DOMAIN others \ {k} |-> others[j]]

RecordAsked ==
  /\ Waits /\ UNCHANGED <<others, meant>> /\ Holds /\ SecretHeld
  /\ \E d : /\ New(d, calls) /\ calls' = calls \cup {d} /\ d.op # "read"
            /\ RecordRequest(d.op, d.body)
            /\ d.op = "put" => \A k \in DOMAIN d.body : k \notin FormFields

(* A save sends what has been edited, unless it is marked.                  *)
RecordSaved ==
  /\ UNCHANGED <<page, db, others, meant>> /\ Holds /\ SecretHeld
  /\ marks \subseteq marks' /\ marks' \subseteq marks \cup {"blind"}
  /\ \E d : /\ New(d, calls) /\ calls' = calls \cup {d} /\ d.op = "put"
            /\ RecordRequest(d.op, d.body)
            /\ "blind" \notin marks' => \A k \in DOMAIN d.body : ~Untouched(k)

(* What a form takes over from an answer.                                   *)
Refill(r, f) ==
  [k \in DOMAIN r \cap DOMAIN f |-> IF k \in {"roles", "scopes"} THEN r[k] ELSE Tidy(r[k])]

RecordLoaded ==
  /\ Waits /\ UNCHANGED <<others, meant>> /\ SecretHeld
  /\ \E c \in calls :
       /\ c.op \in {"read", "scopes"} /\ calls' = calls \ {c}
       /\ \/ /\ c.st = "ok"
             /\ ui'.shown = Over(c.res, ui.shown)
             /\ ui'.draft = Over(Refill(c.res, ui.draft), ui.draft)
          \/ c.st = "failed" /\ Holds

RecordHeard ==
  /\ Waits /\ others' = others /\ Holds /\ SecretHeld
  /\ \E c \in calls :
       /\ c.op \in {"put", "assign"}
       /\ meant' = IF c.op = "assign" /\ c.st = "ok" THEN {c.body.val} ELSE meant
       /\ \/ c.st = "failed" /\ calls' = calls \ {c}
          \/ /\ c.st = "ok"
             /\ \E d : /\ New(d, calls \ {c}) /\ calls' = (calls \ {c}) \cup {d}
                       /\ d.op = "read" /\ d.body = Fields[page] /\ d.fn # "createClient"

(* The answer to a reset, or to a mail, is heard.                           *)
RecordRevealed ==
  /\ Waits /\ UNCHANGED <<others, meant>> /\ Holds
  /\ \E c \in calls :
       /\ c.op \in {"reset", "mail"} /\ c.st \in {"ok", "failed"} /\ calls' = calls \ {c}
       /\ \/ c.op = "reset" /\ c.st = "ok" /\ ui'.secret = c.res
          \/ (c.op = "reset" => c.st = "failed") /\ SecretHeld

DashboardLoaded ==
  /\ Waits /\ UNCHANGED <<others, meant>> /\ SecretHeld /\ ui'.draft = ui.draft /\ calls' = {}
  /\ \/ \E c, d \in calls : c.st = "ok" /\ d.st = "ok" /\ c # d /\ ui'.shown = Over(c.res, d.res)
     \/ ui'.shown = [ui.shown EXCEPT !["health"] = Blank] /\ \E c \in calls : c.st = "failed"

RecordStep ==
  \/ RecordServed \/ RecordCommitted \/ TheirRolesServed \/ RecordElsewhere
  \/ RecordTyped \/ RecordEdited \/ RecordAsked \/ RecordSaved
  \/ RecordLoaded \/ RecordHeard \/ RecordRevealed
  \/ (page = "admin-dashboard" /\ DashboardLoaded)

-----------------------------------------------------------------------------
LEMMA DataUpdate ==
  ASSUME DOMAIN db = {"data", "secret", "sent", "pending"}, NEW f, NEW d, d = [db EXCEPT !.data = f]
  PROVE  DOMAIN d = DOMAIN db /\ d.data = f /\ d.secret = db.secret /\ d.pending = db.pending
OBVIOUS

(* What a save leaves of the data.                                          *)
LEMMA PutUpdate ==
  ASSUME page \in RecordPageNames, IsData(db.data), NEW body, RecordRequest("put", body)
  PROVE  /\ IsData(Over(body, db.data))
         /\ \A k \in Fields[page] :
              Over(body, db.data)[k] = IF k \in DOMAIN body THEN body[k] ELSE db.data[k]
<1>1. \A k \in DOMAIN body : k \in Fields[page] /\ body[k] \in FieldVals(k)
  BY FieldsAre DEF RecordRequest, Sendable
<1>2. DOMAIN db.data = Fields[page] /\ \A k \in Fields[page] : db.data[k] \in FieldVals(k)
  BY DEF IsData
<1> DEFINE f == Over(body, db.data)
<1>3. /\ DOMAIN f = DOMAIN body \cup DOMAIN db.data
      /\ \A k \in DOMAIN body : f[k] = body[k]
      /\ \A k \in DOMAIN db.data \ DOMAIN body : f[k] = db.data[k]
  BY OverIs
<1>5. IsFcn(f)
  BY OverIsFcn DEF IsFcn
<1> HIDE DEF f
<1>4. IsData(f) /\ \A k \in Fields[page] : f[k] = IF k \in DOMAIN body THEN body[k] ELSE db.data[k]
  BY <1>1, <1>2, <1>3, <1>5 DEF IsData
<1> QED BY <1>4 DEF f

(* The two queries of an application.                                       *)
LEMMA GetClientForm ==
  ASSUME Base, page = "application-detail", RecordTypes, NEW c \in calls, c.op = "read", GetClient(c)
  PROVE  RecordServed
<1>1. /\ DOMAIN db = {"data", "secret", "sent", "pending"} /\ IsData(db.data)
      /\ c.body = {"name", "uris", "scopes"} /\ Fields[page] = {"name", "uris", "scopes"}
      /\ c.st = "half" => DOMAIN c.res = c.body \ {"scopes"}
  BY FieldsAre DEF RecordTypes, RecordRequest, IsAnswer, Part
<1>2. /\ UNCHANGED <<page, ui, db, others, meant>> /\ marks \subseteq marks'
      /\ c.st \in {"sent", "half"} /\ IsCall(c)
  BY DEF GetClient, Base, CallsFit
<1>3. ASSUME NEW e, Turns(e, c), ReadOn(c, e)
      PROVE  RecordServed
  BY <1>1, <1>2, <1>3 DEF RecordServed
<1>4. CASE Answer(c, "failed", None)
  <2>1. PICK e : Turns(e, c) /\ e.st = "failed"
    BY <1>2, <1>4, AnswerNew DEF Turns
  <2> QED BY <1>3, <2>1 DEF ReadOn
<1>5. CASE Answer(c, "half", [k \in c.body \ {"scopes"} |-> db.data[k]])
  <2> DEFINE f == [k \in c.body \ {"scopes"} |-> db.data[k]]
  <2>1. DOMAIN f = c.body \ {"scopes"} /\ \A k \in DOMAIN f : f[k] = db.data[k] /\ k # "scopes"
    OBVIOUS
  <2>2. Answer(c, "half", f)
    BY <1>5
  <2> HIDE DEF f
  <2>3. PICK e : Turns(e, c) /\ e.st = "half" /\ e.res = f
    BY <1>2, <2>2, AnswerNew DEF Turns
  <2>4. e.body = c.body
    BY <2>3 DEF Turns, Answers
  <2> QED BY <1>3, <2>1, <2>3, <2>4 DEF ReadOn, Part
<1>6. ASSUME NEW v \in FieldVals("scopes"), c.st = "half",
             (v = db.data["scopes"] /\ db.pending = {}) \/ "misled" \in marks',
             Answer(c, "ok", Over([k \in {"scopes"} |-> v], c.res))
      PROVE  RecordServed
  <2> DEFINE new == [k \in {"scopes"} |-> v]
             f == Over(new, c.res)
  <2>1. DOMAIN new = {"scopes"} /\ new["scopes"] = v
    OBVIOUS
  <2>2. Answer(c, "ok", f)
    BY <1>6
  <2> HIDE DEF new
  <2>3. /\ DOMAIN f = c.body /\ f["scopes"] = v
        /\ \A k \in c.body \ {"scopes"} : f[k] = c.res[k]
    <3>1. /\ DOMAIN f = DOMAIN new \cup DOMAIN c.res
          /\ \A k \in DOMAIN new : f[k] = new[k]
          /\ \A k \in DOMAIN c.res \ DOMAIN new : f[k] = c.res[k]
      BY OverIs
    <3> HIDE DEF f
    <3>2. DOMAIN c.res = c.body \ {"scopes"} /\ "scopes" \in c.body
      BY <1>1, <1>6
    <3> QED BY <2>1, <3>1, <3>2
  <2> HIDE DEF f
  <2>4. PICK e : Turns(e, c) /\ e.st = "ok" /\ e.res = f
    BY <1>2, <2>2, AnswerNew DEF Turns
  <2>5. e.body = c.body
    BY <2>4 DEF Turns, Answers
  <2> QED BY <1>3, <1>6, <2>3, <2>4, <2>5 DEF ReadOn, Part
<1>7. {} \in FieldVals("scopes") /\ db.data["scopes"] \in FieldVals("scopes")
  BY <1>1, FieldValsAre DEF IsData
<1>8. CASE /\ c.st = "half" /\ Answer(c, "ok", Over([k \in {"scopes"} |-> db.data[k]], c.res))
           /\ marks' = IF db.pending # {} THEN marks \cup {"misled"} ELSE marks
  <2> DEFINE v == db.data["scopes"]
  <2>1. [k \in {"scopes"} |-> db.data[k]] = [k \in {"scopes"} |-> v]
    OBVIOUS
  <2>2. Answer(c, "ok", Over([k \in {"scopes"} |-> v], c.res))
    BY <1>8, <2>1
  <2>3. (v = db.data["scopes"] /\ db.pending = {}) \/ "misled" \in marks'
    BY <1>8
  <2> HIDE DEF v
  <2> QED BY <1>6, <1>7, <1>8, <2>2, <2>3 DEF v
<1>9. CASE /\ c.st = "half" /\ Answer(c, "ok", Over([k \in {"scopes"} |-> {}], c.res))
           /\ marks' = marks \cup {"misled"}
  BY <1>6, <1>7, <1>9
<1> QED BY <1>4, <1>5, <1>8, <1>9 DEF GetClient

LEMMA RecordServedForm ==
  ASSUME Base, page \in RecordPageNames, RecordTypes, ServeRecord
  PROVE  RecordServed
<1>0. RecordKinds
  BY RecordKindsHold
<1>1. PICK c \in calls :
        \/ c.op = "read" /\ page = "application-detail" /\ GetClient(c)
        \/ /\ c.st = "sent"
           /\ \/ /\ c.op = "read" /\ page # "application-detail"
                 /\ Reply(c, TRUE, db, [k \in c.body |-> db.data[k]])
              \/ c.op = "put" /\ Reply(c, TRUE, [db EXCEPT !.data = Over(c.body, @)], c.body)
              \/ c.op = "scopes" /\ UpdateClientScopes(c)
              \/ /\ c.op = "reset"
                 /\ Reply(c, TRUE, [db EXCEPT !.secret["this"] = @ + 1],
                          [of |-> "this", n |-> db.secret["this"] + 1])
              \/ c.op = "mail" /\ Reply(c, TRUE, [db EXCEPT !.sent = @ + 1], None)
  BY Zenon DEF ServeRecord
<1>2. /\ DOMAIN db = {"data", "secret", "sent", "pending"} /\ IsData(db.data) /\ DOMAIN db.secret = {"this"}
      /\ RecordRequest(c.op, c.body) /\ (db.pending # {} => page = "application-detail")
  BY DEF RecordTypes
<1>3. ASSUME NEW pre, NEW d, NEW s, Reply(c, pre, d, s), c.st = "sent", c.op # "assign",
             DOMAIN d = DOMAIN db, IsData(d.data), DOMAIN d.secret = DOMAIN db.secret,
             \/ d.data = db.data
             \/ /\ c.op = "put"
                /\ \A k \in Fields[page] : d.data[k] = IF k \in DOMAIN c.body THEN c.body[k] ELSE db.data[k],
             d.secret = db.secret \/ c.op = "reset",
             d.pending = IF c.op = "scopes" THEN {c.body["scopes"]} ELSE db.pending,
             c.op = "read" => d = db /\ DOMAIN s = c.body
                              /\ \A k \in c.body : s[k] = db.data[k] /\ (k = "scopes" => db.pending = {}),
             c.op = "scopes" => s = c.body,
             c.op = "reset" => s.of = "this" /\ s.n = d.secret["this"]
      PROVE  RecordServed
  <2>1. PICK e : Turns(e, c) /\ Serves(c, e, d, s)
    BY <1>3, ReplyServes
  <2>2. UNCHANGED <<ui, others, meant>>
    BY <1>3, ReplyServes
  <2>3. /\ db' \in {d, db} /\ marks \subseteq marks' /\ e.st \in {"ok", "failed"}
        /\ db' = db \/ e.st = "ok" \/ "lost" \in marks'
        /\ e.st = "ok" => e.res = s /\ db' = d
    BY <2>1 DEF Serves, Fails
  <2>4. DOMAIN db' = DOMAIN db /\ IsData(db'.data) /\ DOMAIN db'.secret = DOMAIN db.secret
    BY <1>2, <1>3, <2>3
  <2>5. /\ \/ db'.data = db.data
           \/ /\ c.op = "put" /\ (e.st = "ok" \/ "lost" \in marks')
              /\ \A k \in Fields[page] : db'.data[k] = IF k \in DOMAIN c.body THEN c.body[k] ELSE db.data[k]
        /\ \/ db'.pending = db.pending
           \/ c.op = "scopes" /\ (e.st = "ok" \/ "lost" \in marks') /\ db'.pending = {c.body["scopes"]}
        /\ db'.secret = db.secret \/ (c.op = "reset" /\ (e.st = "ok" \/ "lost" \in marks'))
    BY <1>3, <2>3
  <2>6. /\ c.op = "scopes" /\ e.st = "ok" => e.res = c.body /\ db'.pending = {c.body["scopes"]}
        /\ c.op = "reset" /\ e.st = "ok" => e.res.of = "this" /\ e.res.n = db'.secret["this"]
    BY <1>3, <2>3
  <2>7. e.body = c.body
    BY <2>1 DEF Turns, Answers
  <2>8. c.op = "read" => db' = db /\ ReadOn(c, e)
    BY <1>3, <2>3, <2>7 DEF ReadOn, Part
  <2> QED BY <1>3, <2>1, <2>2, <2>3, <2>4, <2>5, <2>6, <2>8 DEF RecordServed
<1>4. CASE /\ c.st = "sent" /\ c.op = "read" /\ page # "application-detail"
           /\ Reply(c, TRUE, db, [k \in c.body |-> db.data[k]])
  <2> DEFINE s == [k \in c.body |-> db.data[k]]
  <2>1. Reply(c, TRUE, db, s)
    BY <1>4
  <2>2. DOMAIN s = c.body /\ \A k \in c.body : s[k] = db.data[k]
    OBVIOUS
  <2> HIDE DEF s
  <2> QED BY <1>2, <1>3, <1>4, <2>1, <2>2
<1>5. CASE c.st = "sent" /\ c.op = "put" /\ Reply(c, TRUE, [db EXCEPT !.data = Over(c.body, @)], c.body)
  <2> DEFINE f == Over(c.body, db.data)
             d == [db EXCEPT !.data = f]
  <2>1. Reply(c, TRUE, d, c.body)
    BY <1>5
  <2>3. IsData(f) /\ \A k \in Fields[page] : f[k] = IF k \in DOMAIN c.body THEN c.body[k] ELSE db.data[k]
    BY <1>2, <1>5, PutUpdate
  <2>4. DOMAIN d = DOMAIN db /\ d.data = f /\ d.secret = db.secret /\ d.pending = db.pending
    BY <1>2, DataUpdate
  <2> HIDE DEF f, d
  <2> QED BY <1>2, <1>3, <1>5, <2>1, <2>3, <2>4
<1>6. CASE c.st = "sent" /\ c.op = "scopes" /\ UpdateClientScopes(c)
  <2> DEFINE d == [db EXCEPT !.pending = {c.body["scopes"]}]
             pre == db.pending = {}
  <2>1. Reply(c, pre, d, c.body)
    BY <1>6 DEF UpdateClientScopes
  <2>2. /\ DOMAIN d = DOMAIN db /\ d.data = db.data /\ d.secret = db.secret
        /\ d.pending = {c.body["scopes"]}
    BY <1>2
  <2> HIDE DEF d, pre
  <2> QED BY <1>2, <1>3, <1>6, <2>1, <2>2
<1>7. CASE /\ c.st = "sent" /\ c.op = "reset"
           /\ Reply(c, TRUE, [db EXCEPT !.secret["this"] = @ + 1],
                    [of |-> "this", n |-> db.secret["this"] + 1])
  <2> DEFINE d == [db EXCEPT !.secret["this"] = @ + 1]
             s == [of |-> "this", n |-> db.secret["this"] + 1]
  <2>1. Reply(c, TRUE, d, s)
    BY <1>7
  <2>2. /\ DOMAIN d = DOMAIN db /\ d.data = db.data /\ DOMAIN d.secret = DOMAIN db.secret
        /\ d.pending = db.pending /\ s.of = "this" /\ s.n = d.secret["this"]
    BY <1>2
  <2> HIDE DEF d, s
  <2> QED BY <1>2, <1>3, <1>7, <2>1, <2>2
<1>8. CASE c.st = "sent" /\ c.op = "mail" /\ Reply(c, TRUE, [db EXCEPT !.sent = @ + 1], None)
  <2> DEFINE d == [db EXCEPT !.sent = @ + 1]
  <2>1. Reply(c, TRUE, d, None)
    BY <1>8
  <2>2. DOMAIN d = DOMAIN db /\ d.data = db.data /\ d.secret = db.secret /\ d.pending = db.pending
    BY <1>2
  <2> HIDE DEF d
  <2> QED BY <1>2, <1>3, <1>8, <2>1, <2>2
<1>9. CASE c.op = "read" /\ page = "application-detail" /\ GetClient(c)
  BY <1>9, GetClientForm
<1> QED BY <1>1, <1>4, <1>5, <1>6, <1>7, <1>8, <1>9

LEMMA RecordCommittedForm ==
  ASSUME page \in RecordPageNames, RecordTypes, EndUpdate
  PROVE  RecordCommitted
<1>1. /\ DOMAIN db = {"data", "secret", "sent", "pending"} /\ IsData(db.data) /\ db.pending # {}
      /\ page = "application-detail" /\ \A set \in db.pending : set \in FieldVals("scopes")
  BY DEF RecordTypes, EndUpdate
<1>2. /\ DOMAIN db.data = Fields[page] /\ "scopes" \in Fields[page]
      /\ \A k \in Fields[page] : db.data[k] \in FieldVals(k)
  BY <1>1, FieldsAre DEF IsData
<1>3. UNCHANGED <<ui, calls, others, meant>> /\ marks \subseteq marks'
  BY DEF EndUpdate
<1>4. ASSUME NEW set \in db.pending, db' = [db EXCEPT !.data["scopes"] = set, !.pending = {}]
      PROVE  RecordCommitted
  <2>1. /\ DOMAIN db' = DOMAIN db /\ db'.secret = db.secret /\ db'.pending = {}
        /\ db'.data = [db.data EXCEPT !["scopes"] = set]
    BY <1>1, <1>4
  <2>2. db'.data["scopes"] = set /\ \A k \in Fields[page] \ {"scopes"} : db'.data[k] = db.data[k]
    BY <1>2, <2>1
  <2>3. IsData(db'.data)
    <3>1. IsFcn(db'.data)
      BY <2>1 DEF IsFcn
    <3> QED BY <1>1, <1>2, <2>1, <2>2, <3>1 DEF IsData
  <2> QED BY <1>3, <2>1, <2>2, <2>3 DEF RecordCommitted
<1>5. CASE db' = [db EXCEPT !.pending = {}] /\ marks' = marks \cup {"misled"}
  <2>1. DOMAIN db' = DOMAIN db /\ db'.secret = db.secret /\ db'.pending = {} /\ db'.data = db.data
    BY <1>1, <1>5
  <2> QED BY <1>1, <1>3, <1>5, <2>1 DEF RecordCommitted
<1> QED BY <1>4, <1>5 DEF EndUpdate

LEMMA TheirRolesServedForm ==
  ASSUME Base, page \in RecordPageNames, RecordTypes, ServeAssignInRecord
  PROVE  TheirRolesServed
<1>1. DOMAIN db = {"data", "secret", "sent", "pending"} /\ IsData(db.data)
  BY DEF RecordTypes
<1>2. \A c \in calls : c.op = "assign" => page = "user-detail"
  BY RecordKindsHold DEF RecordKinds
<1>3. page = "user-detail" => db.data["roles"] \in SUBSET RoleNames
  BY <1>1, FieldsAre, FieldValsAre DEF IsData
<1>4. ASSUME NEW held \in SUBSET RoleNames, db' = [db EXCEPT !.data["roles"] = held], page = "user-detail"
      PROVE  /\ DOMAIN db' = DOMAIN db /\ db'.secret = db.secret /\ db'.pending = db.pending
             /\ IsData(db'.data) /\ db'.data["roles"] = held
             /\ \A k \in Fields[page] \ {"roles"} : db'.data[k] = db.data[k]
  <2>1. /\ DOMAIN db' = DOMAIN db /\ db'.secret = db.secret /\ db'.pending = db.pending
        /\ db'.data = [db.data EXCEPT !["roles"] = held]
    BY <1>1, <1>4
  <2>2. /\ DOMAIN db.data = Fields[page] /\ "roles" \in Fields[page] /\ FieldVals("roles") = SUBSET RoleNames
        /\ \A k \in Fields[page] : db.data[k] \in FieldVals(k)
    BY <1>1, <1>4, FieldsAre, FieldValsAre DEF IsData
  <2>3. /\ DOMAIN db'.data = Fields[page]
        /\ db'.data["roles"] = held /\ \A k \in Fields[page] \ {"roles"} : db'.data[k] = db.data[k]
    BY <2>1, <2>2
  <2>4. IsData(db'.data)
    <3>1. IsFcn(db'.data)
      BY <2>1 DEF IsFcn
    <3> QED BY <1>4, <2>2, <2>3, <3>1 DEF IsData
  <2> QED BY <2>1, <2>3, <2>4
<1>5. ASSUME NEW c \in Sending("assign"), RolesDeleted(c, [db EXCEPT !.data["roles"] = {}])
      PROVE  TheirRolesServed
  <2> DEFINE held == {}
             d == [db EXCEPT !.data["roles"] = held]
  <2>1. c \in calls /\ c.op = "assign" /\ c.st = "sent" /\ page = "user-detail"
    BY <1>2 DEF Sending
  <2>2. held \in SUBSET RoleNames /\ RolesDeleted(c, d)
    BY <1>5
  <2> HIDE DEF d
  <2>3. UNCHANGED <<ui, others, meant>> /\ marks \subseteq marks'
    BY <2>1, <2>2, RolesDeletedForm
  <2>4. PICK e : /\ Turns(e, c)
                 /\ \/ db' = db /\ e.st = "failed"
                    \/ db' = d /\ "lost" \in marks'
                    \/ /\ db' = d
                       /\ IF c.body.val = {} THEN e.st = "ok" ELSE e.st = "half" /\ e.res = c.body.val
    BY <2>1, <2>2, RolesDeletedForm
  <2>5. CASE db' = db /\ e.st = "failed"
    BY <1>1, <2>1, <2>3, <2>4, <2>5 DEF TheirRolesServed, RolesGo
  <2>6. CASE /\ db' = d
             /\ \/ "lost" \in marks'
                \/ IF c.body.val = {} THEN e.st = "ok" ELSE e.st = "half" /\ e.res = c.body.val
    <3>1. db' = [db EXCEPT !.data["roles"] = held]
      BY <2>6 DEF d
    <3> HIDE DEF held
    <3>2. /\ DOMAIN db' = DOMAIN db /\ db'.secret = db.secret /\ db'.pending = db.pending
          /\ IsData(db'.data) /\ db'.data["roles"] = held
          /\ \A k \in Fields[page] \ {"roles"} : db'.data[k] = db.data[k]
      BY <1>4, <2>1, <2>2, <3>1
    <3>3. RolesGo(c, e, db.data["roles"], db'.data["roles"])
      BY <2>1, <2>6, <3>2 DEF RolesGo, held
    <3> QED BY <2>1, <2>3, <2>4, <3>2, <3>3 DEF TheirRolesServed
  <2> QED BY <2>4, <2>5, <2>6
<1>6. ASSUME NEW c \in Halfway("assign"),
             RoleInserted(c, db.data["roles"],
                          [held \in SUBSET RoleNames |-> [db EXCEPT !.data["roles"] = held]])
      PROVE  TheirRolesServed
  <2> DEFINE with == [held \in SUBSET RoleNames |-> [db EXCEPT !.data["roles"] = held]]
             has == db.data["roles"]
  <2>1. c \in calls /\ c.op = "assign" /\ c.st = "half" /\ page = "user-detail"
    BY <1>2 DEF Halfway
  <2>2. has \in SUBSET RoleNames
    BY <1>3, <2>1
  <2>3. \A held \in SUBSET RoleNames : with[held] = [db EXCEPT !.data["roles"] = held]
    OBVIOUS
  <2>4. RoleInserted(c, has, with)
    BY <1>6
  <2> HIDE DEF with, has
  <2>5. UNCHANGED <<ui, others, meant>> /\ marks \subseteq marks'
    BY <2>1, <2>4, RoleInsertedForm
  <2>6. PICK r \in c.res, fails \in BOOLEAN : \E e :
          /\ Turns(e, c) /\ db' = with[IF fails THEN has ELSE has \cup ({r} \cap RoleNames)]
          /\ \/ e.st = "half" /\ e.res = c.res \ {r} /\ (fails /\ r \in RoleNames => "misled" \in marks')
             \/ e.st = "ok" /\ c.res = {r} /\ ~fails
             \/ "lost" \in marks'
    BY <2>1, <2>4, RoleInsertedForm
  <2> DEFINE gets == IF fails THEN has ELSE has \cup ({r} \cap RoleNames)
  <2>7. PICK e :
          /\ Turns(e, c) /\ db' = with[gets]
          /\ \/ e.st = "half" /\ e.res = c.res \ {r} /\ (fails /\ r \in RoleNames => "misled" \in marks')
             \/ e.st = "ok" /\ c.res = {r} /\ ~fails
             \/ "lost" \in marks'
    BY <2>6
  <2>8. gets \in SUBSET RoleNames
    BY <2>2
  <2>9. RolesGo(c, e, has, gets)
    BY <2>1, <2>6, <2>7 DEF RolesGo
  <2> HIDE DEF gets
  <2>10. db' = [db EXCEPT !.data["roles"] = gets]
    BY <2>3, <2>7, <2>8
  <2>11. /\ DOMAIN db' = DOMAIN db /\ db'.secret = db.secret /\ db'.pending = db.pending
         /\ IsData(db'.data) /\ db'.data["roles"] = gets
         /\ \A k \in Fields[page] \ {"roles"} : db'.data[k] = db.data[k]
    BY <1>4, <2>1, <2>8, <2>10
  <2>12. RolesGo(c, e, db.data["roles"], db'.data["roles"])
    BY <2>9, <2>11 DEF has
  <2> QED BY <2>1, <2>5, <2>7, <2>11, <2>12 DEF TheirRolesServed
<1> QED BY <1>5, <1>6 DEF ServeAssignInRecord

LEMMA RecordElsewhereForm ==
  ASSUME Base, page \in RecordPageNames, RecordTypes, OtherInRecord
  PROVE  RecordElsewhere
<1> DEFINE Mine(k) ==
      k \notin FormFields \/ ~Untouched(k) \/ \E c \in calls : c.op = "put" /\ k \in DOMAIN c.body
<1>1. PICK k \in Fields[page] : \E v \in FieldVals(k) \ {db.data[k]} :
        Elsewhere([db EXCEPT !.data[k] = v], IF Mine(k) THEN others ELSE Over([j \in {k} |-> v], others))
  BY DEF OtherInRecord
<1>2. PICK v \in FieldVals(k) :
        Elsewhere([db EXCEPT !.data[k] = v], IF Mine(k) THEN others ELSE Over([j \in {k} |-> v], others))
  BY <1>1
<1>3. /\ DOMAIN db = {"data", "secret", "sent", "pending"} /\ DOMAIN db.data = Fields[page]
      /\ \A j \in Fields[page] : db.data[j] \in FieldVals(j)
  BY DEF RecordTypes, IsData
<1>4. /\ db' = [db EXCEPT !.data[k] = v]
      /\ others' = IF Mine(k) THEN others ELSE Over([j \in {k} |-> v], others)
      /\ UNCHANGED <<ui, calls, meant>> /\ marks' = marks \cup {"other"}
  BY <1>2 DEF Elsewhere
<1>5. /\ DOMAIN db' = DOMAIN db /\ db'.secret = db.secret /\ db'.pending = db.pending
      /\ db'.data = [db.data EXCEPT ![k] = v]
  BY <1>3, <1>4
<1>6. db'.data[k] = v /\ \A j \in Fields[page] \ {k} : db'.data[j] = db.data[j]
  BY <1>3, <1>5
<1>7. IsData(db'.data)
  <2>1. IsFcn(db'.data)
    BY <1>5 DEF IsFcn
  <2> QED BY <1>3, <1>5, <1>6, <2>1 DEF IsData
<1>8. CASE Mine(k)
  BY <1>4, <1>5, <1>6, <1>7, <1>8 DEF RecordElsewhere
<1>9. CASE ~Mine(k)
  <2>1. others' = Over([j \in {k} |-> db'.data[k]], others)
    BY <1>4, <1>6, <1>9
  <2> QED BY <1>4, <1>5, <1>6, <1>7, <1>9, <2>1 DEF RecordElsewhere
<1> QED BY <1>8, <1>9

-----------------------------------------------------------------------------
LEMMA DropKeeps ==
  ASSUME Base, page \in RecordPageNames, NEW flag
  PROVE  /\ DOMAIN Drop(ui, flag) = DOMAIN ui
         /\ Drop(ui, flag).shown = ui.shown /\ Drop(ui, flag).draft = ui.draft
         /\ Drop(ui, flag).secret = ui.secret /\ Drop(ui, flag).open = ui.open
BY RecordUi, DropFields

LEMMA LoadedIs ==
  ASSUME NEW u, {"shown", "draft", "secret", "open"} \subseteq DOMAIN u, NEW r
  PROVE  /\ Loaded(u, r).shown = Over(r, u.shown)
         /\ Loaded(u, r).draft = Over(Refill(r, u.draft), u.draft)
         /\ Loaded(u, r).secret = u.secret /\ Loaded(u, r).open = u.open
BY DEF Loaded, Refill

LEMMA GotRecordForm ==
  ASSUME Base, page \in RecordPageNames, UNCHANGED <<others, meant>>, NEW fn, NEW hides \in BOOLEAN,
         GotRecord(fn, hides), \A c \in Answered(fn) : c.op \in {"read", "scopes"}
  PROVE  RecordLoaded
<1> DEFINE v(c) == IF hides THEN [Drop(ui, c.flag) EXCEPT !.loading = FALSE] ELSE Drop(ui, c.flag)
<1>1. PICK c \in Answered(fn) :
        Resume(calls \ {c}, IF c.st = "ok" THEN Loaded(v(c), c.res) ELSE v(c))
  BY DEF GotRecord
<1>2. c \in calls /\ c.op \in {"read", "scopes"} /\ c.st \in {"ok", "failed"}
  BY DEF Answered
<1> DEFINE w == v(c)
<1>3. /\ {"shown", "draft", "secret", "open"} \subseteq DOMAIN w
      /\ w.shown = ui.shown /\ w.draft = ui.draft /\ w.secret = ui.secret /\ w.open = ui.open
  <2>1. CASE hides
    <3> DEFINE x == Drop(ui, c.flag)
    <3>1. /\ {"shown", "draft", "secret", "open"} \subseteq DOMAIN x
          /\ x.shown = ui.shown /\ x.draft = ui.draft /\ x.secret = ui.secret /\ x.open = ui.open
      BY RecordUi, DropKeeps
    <3>2. w = [x EXCEPT !.loading = FALSE]
      BY <2>1
    <3> HIDE DEF x, w
    <3> QED BY <3>1, <3>2
  <2>2. CASE ~hides
    <3>1. w = Drop(ui, c.flag)
      BY <2>2
    <3> HIDE DEF w
    <3> QED BY <3>1, RecordUi, DropKeeps
  <2> QED BY <2>1, <2>2
<1> HIDE DEF w
<1> DEFINE u == IF c.st = "ok" THEN Loaded(w, c.res) ELSE w
<1>4. Resume(calls \ {c}, u)
  BY <1>1 DEF w
<1>5. /\ u.secret = ui.secret /\ u.open = ui.open
      /\ c.st = "ok" =>
           /\ u.shown = Over(c.res, ui.shown)
           /\ u.draft = Over(Refill(c.res, ui.draft), ui.draft)
      /\ c.st = "failed" => u.shown = ui.shown /\ u.draft = ui.draft
  BY <1>3, LoadedIs
<1> HIDE DEF u
<1>6. Waits /\ ui' = u /\ calls' = calls \ {c}
  BY <1>2, <1>4, EndForm
<1> QED BY <1>2, <1>5, <1>6 DEF RecordLoaded, SecretHeld, Holds

LEMMA ThenGetForm ==
  ASSUME Base, page \in RecordPageNames, others' = others, NEW fn, NEW get \in {"fetchUser", "fetchClient"},
         NEW flag \in {"none", "saving"}, ThenGet(fn, get, flag),
         \A c \in Answered(fn) :
           /\ c.op \in {"put", "assign"}
           /\ meant' = IF c.op = "assign" /\ c.st = "ok" THEN {c.body.val} ELSE meant,
         Fits(get, "read", flag)
  PROVE  RecordHeard
<1>1. PICK c \in Answered(fn) :
        IF c.st = "ok"
        THEN Resume(Sent(calls \ {c}, get, "read", Fields[page], flag),
                    [Drop(ui, IF flag = "none" THEN c.flag ELSE "none") EXCEPT !.loading = TRUE])
        ELSE Resume(calls \ {c}, Drop(ui, c.flag))
  BY DEF ThenGet
<1>2. /\ c \in calls /\ c.op \in {"put", "assign"} /\ c.st \in {"ok", "failed"}
      /\ meant' = IF c.op = "assign" /\ c.st = "ok" THEN {c.body.val} ELSE meant
  BY DEF Answered
<1>3. CASE c.st = "ok"
  <2> DEFINE w == Drop(ui, IF flag = "none" THEN c.flag ELSE "none")
             u == [w EXCEPT !.loading = TRUE]
  <2>1. /\ {"shown", "draft", "secret", "open"} \subseteq DOMAIN w
        /\ w.shown = ui.shown /\ w.draft = ui.draft /\ w.secret = ui.secret /\ w.open = ui.open
    BY RecordUi, DropKeeps
  <2> HIDE DEF w
  <2>2. u.shown = ui.shown /\ u.draft = ui.draft /\ u.secret = ui.secret /\ u.open = ui.open
    BY <2>1
  <2>3. Resume(Sent(calls \ {c}, get, "read", Fields[page], flag), u)
    BY <1>1, <1>3 DEF w
  <2> HIDE DEF u
  <2>4. Waits /\ ui' = u /\ \E d : Joins(d, calls \ {c}, get, "read", Fields[page], flag)
    BY <1>2, <2>3, FollowForm
  <2> QED BY <1>2, <1>3, <2>2, <2>4 DEF RecordHeard, Joins, Holds, SecretHeld
<1>4. CASE c.st # "ok"
  <2> DEFINE u == Drop(ui, c.flag)
  <2>1. u.shown = ui.shown /\ u.draft = ui.draft /\ u.secret = ui.secret /\ u.open = ui.open
    BY DropKeeps
  <2>2. Resume(calls \ {c}, u)
    BY <1>1, <1>4
  <2> HIDE DEF u
  <2>3. Waits /\ ui' = u /\ calls' = calls \ {c}
    BY <1>2, <2>2, EndForm
  <2> QED BY <1>2, <1>4, <2>1, <2>3 DEF RecordHeard, Holds, SecretHeld
<1> QED BY <1>3, <1>4

LEMMA RecordAskedForm ==
  ASSUME Base, page \in RecordPageNames, UNCHANGED <<others, meant>>,
         NEW fn, NEW op, NEW body, NEW flag, Fits(fn, op, flag), op # "read", RecordRequest(op, body),
         op = "put" => \A k \in DOMAIN body : k \notin FormFields,
         Start(flag, fn, op, body)
  PROVE  RecordAsked
<1> DEFINE u == Raise(flag)
<1>1. u.shown = ui.shown /\ u.draft = ui.draft /\ u.secret = ui.secret /\ u.open = ui.open
  BY RecordUi DEF Raise
<1>2. Click(Sent(calls, fn, op, body, flag), u)
  BY DEF Start
<1> HIDE DEF u
<1>3. Waits /\ ui' = u /\ \E d : Joins(d, calls, fn, op, body, flag)
  BY <1>2, ClickForm
<1>4. PICK d : Joins(d, calls, fn, op, body, flag)
  BY <1>3
<1>5. /\ New(d, calls) /\ calls' = calls \cup {d} /\ d.op # "read" /\ RecordRequest(d.op, d.body)
      /\ d.op = "put" => \A k \in DOMAIN d.body : k \notin FormFields
  BY <1>4 DEF Joins
<1> QED BY <1>1, <1>3, <1>5 DEF RecordAsked, Holds, SecretHeld

LEMMA RecordSavedForm ==
  ASSUME Base, page \in RecordPageNames, UNCHANGED <<others, meant>>,
         NEW fn, NEW body, NEW unfilled \in BOOLEAN, Fits(fn, "put", "saving"), RecordRequest("put", body),
         unfilled \/ \A k \in DOMAIN body : ~Untouched(k),
         Save(fn, body, unfilled)
  PROVE  RecordSaved
<1> DEFINE u == Raise("saving")
           cs == Sent(calls, fn, "put", body, "saving")
<1>1. u.shown = ui.shown /\ u.draft = ui.draft /\ u.secret = ui.secret /\ u.open = ui.open
  BY RecordUi DEF Raise
<1>2. /\ calls' = cs /\ ui' = u /\ UNCHANGED <<page, db>>
      /\ marks' = IF unfilled THEN marks \cup {"blind"} ELSE marks
  BY DEF Save
<1> HIDE DEF u
<1>3. PICK d : cs = calls \cup {d} /\ New(d, calls) /\ d.op = "put" /\ d.body = body
  BY SentNew DEF Base, CallsFit
<1> HIDE DEF cs
<1>4. /\ New(d, calls) /\ calls' = calls \cup {d} /\ d.op = "put" /\ RecordRequest(d.op, d.body)
      /\ "blind" \notin marks' => \A k \in DOMAIN d.body : ~Untouched(k)
  BY <1>2, <1>3
<1> QED BY <1>1, <1>2, <1>4 DEF RecordSaved, Holds, SecretHeld

LEMMA RecordEditedForm ==
  ASSUME Base, page \in RecordPageNames, RecordTypes, NEW k, NEW v, Edit(k, v),
         \/ k \in {"email", "verified", "name", "uris"} /\ v \in Texts /\ (page = "user-detail" => v # Odd)
         \/ k = "roles" /\ v \in SUBSET RoleNames
         \/ k = "scopes" /\ v \in SUBSET ScopeNames
  PROVE  RecordEdited
<1>1. IsForm(ui.draft)
  BY DEF RecordTypes
<1>2. /\ ui'.shown = ui.shown /\ ui'.secret = ui.secret /\ ui'.open = ui.open
      /\ ui'.draft = [ui.draft EXCEPT ![k] = v]
  BY RecordUi DEF Edit, Enter
<1>3. /\ UNCHANGED <<page, db, calls, marks, meant>>
      /\ others' = [j \in DOMAIN others \ {k} |-> others[j]]
  BY DEF Edit, Enter
<1>4. /\ DOMAIN ui'.draft = DOMAIN ui.draft
      /\ ui'.draft[k] = v /\ \A j \in DOMAIN ui.draft \ {k} : ui'.draft[j] = ui.draft[j]
  BY <1>1, <1>2 DEF IsForm
<1>5. IsForm(ui'.draft)
  BY <1>1, <1>4 DEF IsForm
<1> QED BY <1>2, <1>3, <1>4, <1>5 DEF RecordEdited, SecretHeld

-----------------------------------------------------------------------------
(* What a save sends has been edited, unless the form was not filled, or    *)
(* holds redirect URIs that it writes differently.                          *)
LEMMA ChangedInfoFits ==
  ASSUME page = "user-detail", RecordTypes
  PROVE  /\ RecordRequest("put", ChangedInfo)
         /\ ui.shown["email"] = None \/ \A k \in DOMAIN ChangedInfo : ~Untouched(k)
<1>1. /\ IsForm(ui.draft) /\ IsShown(ui.shown) /\ FormFields = {"email", "verified"}
      /\ Fields[page] = {"email", "verified", "locked", "roles"}
      /\ FieldVals("email") = Texts \ {Odd} /\ FieldVals("verified") = Texts \ {Odd}
  BY FieldsAre, FieldValsAre DEF RecordTypes, FormFields
<1>2. /\ DOMAIN ChangedInfo = {j \in FormFields : ui.draft[j] # IF j = "email" THEN OrBlank(ui.shown[j])
                                                                ELSE ui.shown[j]}
      /\ \A k \in DOMAIN ChangedInfo : ChangedInfo[k] = ui.draft[k]
  BY DEF ChangedInfo
<1>3. RecordRequest("put", ChangedInfo)
  BY <1>1, <1>2 DEF RecordRequest, Sendable, IsForm
<1>4. ASSUME ui.shown["email"] # None, NEW k \in DOMAIN ChangedInfo
      PROVE  ~Untouched(k)
  <2>1. k \in {"email", "verified"} /\ ui.shown[k] \in Texts \ {Odd}
    BY <1>1, <1>2, <1>4 DEF IsShown
  <2>2. Tidy(OrBlank(ui.shown[k])) = ui.shown[k] /\ OrBlank(ui.shown[k]) = ui.shown[k]
    BY <2>1, TidyIs
  <2>3. ui.draft[k] # ui.shown[k]
    BY <1>2, <2>2
  <2> QED BY <2>2, <2>3 DEF Untouched
<1> QED BY <1>3, <1>4

LEMMA ChangedClientFits ==
  ASSUME page = "application-detail", RecordTypes
  PROVE  /\ RecordRequest("put", ChangedClient)
         /\ ui.shown["uris"] = Odd \/ \A k \in DOMAIN ChangedClient : ~Untouched(k)
<1>1. /\ IsForm(ui.draft) /\ IsShown(ui.shown) /\ FormFields = {"name", "uris"}
      /\ Fields[page] = {"name", "uris", "scopes"}
      /\ FieldVals("name") = Texts \ {Odd} /\ FieldVals("uris") = Texts
  BY FieldsAre, FieldValsAre DEF RecordTypes, FormFields
<1>2. /\ DOMAIN ChangedClient = {j \in FormFields : Tidy(ui.draft[j]) # OrBlank(ui.shown[j])}
      /\ \A k \in DOMAIN ChangedClient : ChangedClient[k] = Tidy(ui.draft[k])
  BY DEF ChangedClient
<1>3. \A k \in FormFields : Tidy(ui.draft[k]) \in Texts \ {Odd}
  BY <1>1, TidyIs DEF IsForm
<1>4. RecordRequest("put", ChangedClient)
  BY <1>1, <1>2, <1>3 DEF RecordRequest, Sendable
<1>5. ASSUME ui.shown["uris"] # Odd, NEW k \in DOMAIN ChangedClient
      PROVE  ~Untouched(k)
  <2>1. k \in {"name", "uris"} /\ (ui.shown[k] = None \/ ui.shown[k] \in Texts \ {Odd})
    BY <1>1, <1>2, <1>5 DEF IsShown
  <2>2. OrBlank(ui.shown[k]) \in Texts \ {Odd}
    BY <2>1, TidyIs
  <2>3. Tidy(OrBlank(ui.shown[k])) = OrBlank(ui.shown[k])
    BY <2>2, TidyIs
  <2>4. Tidy(ui.draft[k]) # OrBlank(ui.shown[k])
    BY <1>2
  <2>5. Tidy(ui.draft[k]) = ui.draft[k] \/ ui.draft[k] = Odd
    BY TidyIs
  <2> QED BY <2>2, <2>3, <2>4, <2>5 DEF Untouched
<1> QED BY <1>4, <1>5

(* The console's page of a user.                                            *)
LEMMA UserPageForm ==
  ASSUME Base, page = "user-detail", RecordTypes, FlagsFit,
         FetchUser \/ SaveInfo \/ SaveRoles \/ DisableUser \/ EnableUser
  PROVE  RecordStep
<1>0. page \in RecordPageNames /\ FormFields = {"email", "verified"} /\ IsForm(ui.draft)
  BY FieldsAre DEF FormFields, RecordTypes
<1>1. /\ \A c \in calls : <<c.fn, c.op>> \in Asks(page)
      /\ Fits("fetchUser", "read", "saving") /\ Fits("fetchUser", "read", "none")
      /\ Fits("saveInfo", "put", "saving") /\ Fits("saveRoles", "assign", "saving")
      /\ Fits("disableUser", "put", "none") /\ Fits("enableUser", "put", "none")
  BY DEF Base, CallsFit, IsCall, Fits, Asks, FlagFits
<1>2. /\ \A c \in Answered("fetchUser") : c.op = "read"
      /\ \A fn \in {"saveInfo", "disableUser", "enableUser"} : \A c \in Answered(fn) : c.op = "put"
      /\ \A c \in Answered("saveRoles") : c.op = "assign" /\ c.flag = "saving"
  <2>1. \A c \in calls : c.fn = "saveRoles" => c.flag = "saving"
    BY RecordKindsHold, <1>0, <1>1 DEF RecordKinds, Asks
  <2> QED BY <1>1, <2>1 DEF Answered, Asks
<1>3. CASE FetchUser
  BY <1>0, <1>2, <1>3, GotRecordForm DEF FetchUser, At, RecordStep
<1>4. CASE SaveInfo
  <2>1. UNCHANGED <<others, meant>>
    BY <1>4 DEF SaveInfo, At
  <2>2. CASE Save("saveInfo", ChangedInfo, ui.shown["email"] = None)
    <3> DEFINE body == ChangedInfo
               unfilled == ui.shown["email"] = None
    <3>1. Save("saveInfo", body, unfilled)
      BY <2>2
    <3>2. RecordRequest("put", body) /\ (unfilled \/ \A k \in DOMAIN body : ~Untouched(k))
      BY ChangedInfoFits
    <3>3. unfilled \in BOOLEAN
      OBVIOUS
    <3> HIDE DEF body, unfilled
    <3> QED BY <1>0, <1>1, <2>1, <3>1, <3>2, <3>3, RecordSavedForm DEF RecordStep
  <2>3. CASE ThenGet("saveInfo", "fetchUser", "saving")
    BY <1>0, <1>1, <1>2, <2>1, <2>3, ThenGetForm DEF RecordStep
  <2> QED BY <1>4, <2>2, <2>3 DEF SaveInfo
<1>5. CASE SaveRoles
  <2>1. others' = others
    BY <1>5 DEF SaveRoles
  <2>2. CASE /\ Start("saving", "saveRoles", "assign", [name |-> "this", val |-> ui.draft["roles"]])
             /\ UNCHANGED meant
    <3> DEFINE body == [name |-> "this", val |-> ui.draft["roles"]]
    <3>1. RecordRequest("assign", body)
      BY <1>0 DEF RecordRequest, IsForm
    <3>2. Start("saving", "saveRoles", "assign", body)
      BY <2>2
    <3> HIDE DEF body
    <3> QED BY <1>0, <1>1, <2>1, <2>2, <3>1, <3>2, RecordAskedForm DEF RecordStep
  <2>3. CASE /\ ThenGet("saveRoles", "fetchUser", "none")
             /\ \E c \in Answered("saveRoles") : meant' = IF c.st = "ok" THEN {c.body.val} ELSE meant
    <3>1. PICK c \in Answered("saveRoles") : meant' = IF c.st = "ok" THEN {c.body.val} ELSE meant
      BY <2>3
    <3>2. \A d \in Answered("saveRoles") : d = c
      BY <1>2 DEF FlagsFit, Lone, Answered
    <3>3. \A d \in Answered("saveRoles") :
            /\ d.op \in {"put", "assign"}
            /\ meant' = IF d.op = "assign" /\ d.st = "ok" THEN {d.body.val} ELSE meant
      BY <1>2, <3>1, <3>2
    <3> QED BY <1>0, <1>1, <2>1, <2>3, <3>3, ThenGetForm DEF RecordStep
  <2> QED BY <1>5, <2>2, <2>3 DEF SaveRoles
<1>6. CASE DisableUser
  <2>1. UNCHANGED <<others, meant>>
    BY <1>6 DEF DisableUser, At
  <2>2. ASSUME NEW v \in FieldVals("locked") \ {Blank}, Start("none", "disableUser", "put", [locked |-> v])
        PROVE  RecordStep
    <3> DEFINE body == [locked |-> v]
    <3>1. DOMAIN body = {"locked"} /\ body["locked"] = v
      OBVIOUS
    <3>2. Start("none", "disableUser", "put", body)
      BY <2>2
    <3> HIDE DEF body
    <3>3. RecordRequest("put", body) /\ \A k \in DOMAIN body : k \notin FormFields
      BY <1>0, <3>1 DEF RecordRequest, Sendable
    <3> QED BY <1>0, <1>1, <2>1, <3>2, <3>3, RecordAskedForm DEF RecordStep
  <2>3. CASE ThenGet("disableUser", "fetchUser", "none")
    BY <1>0, <1>1, <1>2, <2>1, <2>3, ThenGetForm DEF RecordStep
  <2> QED BY <1>6, <2>2, <2>3 DEF DisableUser
<1>7. CASE EnableUser
  <2>1. UNCHANGED <<others, meant>>
    BY <1>7 DEF EnableUser, At
  <2>2. CASE Start("none", "enableUser", "put", [locked |-> Blank])
    <3> DEFINE body == [locked |-> Blank]
    <3>1. DOMAIN body = {"locked"} /\ body["locked"] = Blank
      OBVIOUS
    <3>2. Start("none", "enableUser", "put", body)
      BY <2>2
    <3> HIDE DEF body
    <3>3. RecordRequest("put", body) /\ \A k \in DOMAIN body : k \notin FormFields
      BY <1>0, <3>1, TidyIs, FieldValsAre DEF RecordRequest, Sendable
    <3> QED BY <1>0, <1>1, <2>1, <3>2, <3>3, RecordAskedForm DEF RecordStep
  <2>3. CASE ThenGet("enableUser", "fetchUser", "none")
    BY <1>0, <1>1, <1>2, <2>1, <2>3, ThenGetForm DEF RecordStep
  <2> QED BY <1>7, <2>2, <2>3 DEF EnableUser
<1> QED BY <1>3, <1>4, <1>5, <1>6, <1>7

(* The answer to a reset of the secret, or to a mail, is heard.             *)
LEMMA RevealedForm ==
  ASSUME Base, page \in RecordPageNames, UNCHANGED <<others, meant>>, NEW c \in calls,
         c.op \in {"reset", "mail"}, c.st \in {"ok", "failed"}, NEW u, Resume(calls \ {c}, u),
         u.shown = ui.shown, u.draft = ui.draft,
         \/ c.op = "reset" /\ c.st = "ok" /\ u.secret = c.res
         \/ (c.op = "reset" => c.st = "failed") /\ u.secret = ui.secret
  PROVE  RecordRevealed
<1>1. Waits /\ ui' = u /\ calls' = calls \ {c}
  BY EndForm
<1> QED BY <1>1 DEF RecordRevealed, Holds, SecretHeld

(* The console's page of an application.                                    *)
LEMMA ApplicationPageForm ==
  ASSUME Base, page = "application-detail", RecordTypes, FlagsFit,
         FetchClient \/ SaveChanges \/ SaveScopes \/ ResetClientSecret \/ DismissSecret
  PROVE  RecordStep
<1>0. page \in RecordPageNames /\ FormFields = {"name", "uris"} /\ IsForm(ui.draft)
  BY FieldsAre DEF FormFields, RecordTypes
<1>1. /\ \A c \in calls : <<c.fn, c.op>> \in Asks(page)
      /\ Fits("fetchClient", "read", "saving")
      /\ Fits("saveChanges", "put", "saving") /\ Fits("saveScopes", "scopes", "savingScopes")
      /\ Fits("resetClientSecret", "reset", "none")
  BY DEF Base, CallsFit, IsCall, Fits, Asks, FlagFits
<1>2. /\ \A c \in Answered("fetchClient") : c.op = "read"
      /\ \A c \in Answered("saveChanges") : c.op = "put"
      /\ \A c \in Answered("saveScopes") : c.op = "scopes"
      /\ \A c \in Answered("resetClientSecret") : c.op = "reset"
  BY <1>1 DEF Answered, Asks
<1>3. CASE FetchClient
  BY <1>0, <1>2, <1>3, GotRecordForm DEF FetchClient, At, RecordStep
<1>4. CASE SaveChanges
  <2>1. UNCHANGED <<others, meant>>
    BY <1>4 DEF SaveChanges, At
  <2>2. CASE Save("saveChanges", ChangedClient, ui.shown["uris"] = Odd)
    <3> DEFINE body == ChangedClient
               unfilled == ui.shown["uris"] = Odd
    <3>1. Save("saveChanges", body, unfilled)
      BY <2>2
    <3>2. RecordRequest("put", body) /\ (unfilled \/ \A k \in DOMAIN body : ~Untouched(k))
      BY ChangedClientFits
    <3>3. unfilled \in BOOLEAN
      OBVIOUS
    <3> HIDE DEF body, unfilled
    <3> QED BY <1>0, <1>1, <2>1, <3>1, <3>2, <3>3, RecordSavedForm DEF RecordStep
  <2>3. CASE ThenGet("saveChanges", "fetchClient", "saving")
    BY <1>0, <1>1, <1>2, <2>1, <2>3, ThenGetForm DEF RecordStep
  <2> QED BY <1>4, <2>2, <2>3 DEF SaveChanges
<1>5. CASE SaveScopes
  <2>1. UNCHANGED <<others, meant>>
    BY <1>5 DEF SaveScopes, At
  <2>2. CASE Start("savingScopes", "saveScopes", "scopes", [scopes |-> ui.draft["scopes"]])
    <3> DEFINE body == [scopes |-> ui.draft["scopes"]]
    <3>1. DOMAIN body = {"scopes"} /\ body["scopes"] = ui.draft["scopes"]
      OBVIOUS
    <3>2. Start("savingScopes", "saveScopes", "scopes", body)
      BY <2>2
    <3> HIDE DEF body
    <3>3. RecordRequest("scopes", body)
      BY <1>0, <3>1, FieldValsAre DEF RecordRequest, IsForm
    <3> QED BY <1>0, <1>1, <2>1, <3>2, <3>3, RecordAskedForm DEF RecordStep
  <2>3. CASE GotRecord("saveScopes", FALSE)
    BY <1>0, <1>2, <2>1, <2>3, GotRecordForm DEF RecordStep
  <2> QED BY <1>5, <2>2, <2>3 DEF SaveScopes
<1>6. CASE ResetClientSecret
  <2>1. UNCHANGED <<others, meant>>
    BY <1>6 DEF ResetClientSecret, At
  <2>2. CASE ApplicationTemplate.reset /\ Start("none", "resetClientSecret", "reset", "this")
    <3>1. RecordRequest("reset", "this")
      BY DEF RecordRequest
    <3> QED BY <1>0, <1>1, <2>1, <2>2, <3>1, RecordAskedForm DEF RecordStep
  <2>3. ASSUME NEW c \in Answered("resetClientSecret"),
               Resume(calls \ {c}, IF c.st = "ok" THEN [ui EXCEPT !.secret = c.res, !.open = {"secret"}]
                                   ELSE ui)
        PROVE  RecordStep
    <3> DEFINE u == IF c.st = "ok" THEN [ui EXCEPT !.secret = c.res, !.open = {"secret"}] ELSE ui
    <3>1. c \in calls /\ c.op = "reset" /\ c.st \in {"ok", "failed"}
      BY <1>2 DEF Answered
    <3>2. /\ u.shown = ui.shown /\ u.draft = ui.draft
          /\ c.st = "ok" => u.secret = c.res
          /\ c.st # "ok" => u.secret = ui.secret
      BY <1>0, RecordUi
    <3>3. Resume(calls \ {c}, u)
      BY <2>3
    <3> HIDE DEF u
    <3> QED BY <1>0, <2>1, <3>1, <3>2, <3>3, RevealedForm DEF RecordStep
  <2> QED BY <1>6, <2>2, <2>3 DEF ResetClientSecret
<1>7. CASE DismissSecret
  <2>1. ui'.shown = ui.shown /\ ui'.draft = ui.draft /\ ui'.secret = None
    BY <1>0, <1>7, RecordUi DEF DismissSecret, Type
  <2> QED BY <1>7, <2>1 DEF DismissSecret, Type, RecordTyped, Holds, RecordStep
<1> QED BY <1>3, <1>4, <1>5, <1>6, <1>7

(* The pages that only show.                                                *)
LEMMA DashboardForm ==
  ASSUME Base, page = "admin-dashboard", DashboardLoad
  PROVE  RecordStep
<1>1. page \in RecordPageNames /\ UNCHANGED <<others, meant>>
  BY FieldsAre DEF DashboardLoad, At
<1>2. ASSUME NEW u, Resume({}, u), u.draft = ui.draft, u.secret = ui.secret, u.open = ui.open,
             \/ \E c, d \in calls : c.st = "ok" /\ d.st = "ok" /\ c # d /\ u.shown = Over(c.res, d.res)
             \/ u.shown = [ui.shown EXCEPT !["health"] = Blank] /\ \E c \in calls : c.st = "failed"
      PROVE  RecordStep
  <2>1. Waits /\ ui' = u /\ calls' = {}
    BY <1>2, AwaitingWaits DEF Resume
  <2> QED BY <1>1, <1>2, <2>1 DEF DashboardLoaded, SecretHeld, RecordStep
<1> DEFINE good == {c \in Answered("dashboard") : c.st = "ok"}
<1>3. ASSUME NEW c \in good, NEW d \in good, c # d,
             Resume({}, [ui EXCEPT !.loading = FALSE, !.shown = Over(c.res, d.res)])
      PROVE  RecordStep
  <2> DEFINE s == Over(c.res, d.res)
             u == [ui EXCEPT !.loading = FALSE, !.shown = s]
  <2>1. u.draft = ui.draft /\ u.secret = ui.secret /\ u.open = ui.open /\ u.shown = s
    BY <1>1, RecordUi
  <2>2. Resume({}, u)
    BY <1>3
  <2>3. c \in calls /\ d \in calls /\ c.st = "ok" /\ d.st = "ok"
    BY DEF Answered
  <2> HIDE DEF u
  <2> QED BY <1>2, <1>3, <2>1, <2>2, <2>3
<1>4. CASE /\ good # Answered("dashboard")
           /\ Resume({}, [ui EXCEPT !.loading = FALSE, !.shown["health"] = Blank])
  <2> DEFINE u == [ui EXCEPT !.loading = FALSE, !.shown["health"] = Blank]
  <2>1. /\ u.draft = ui.draft /\ u.secret = ui.secret /\ u.open = ui.open
        /\ u.shown = [ui.shown EXCEPT !["health"] = Blank]
    BY <1>1, RecordUi
  <2>2. Resume({}, u)
    BY <1>4
  <2>3. \E c \in calls : c.st = "failed"
    BY <1>4 DEF Answered
  <2> HIDE DEF u
  <2> QED BY <1>2, <2>1, <2>2, <2>3
<1> QED BY <1>3, <1>4 DEF DashboardLoad

LEMMA OtherRecordsForm ==
  ASSUME Base, page \in {"settings", "profile"}, RecordTypes,
         SettingsScopes \/ FetchOidcKeys \/ FetchProfile \/ ResendVerification
  PROVE  RecordStep
<1>0. page \in RecordPageNames /\ UNCHANGED <<others, meant>>
  BY FieldsAre DEF SettingsScopes, FetchOidcKeys, FetchProfile, ResendVerification, At
<1>1. \A c \in calls : <<c.fn, c.op>> \in Asks(page)
  BY DEF Base, CallsFit, IsCall, Fits
<1>2. /\ \A fn \in {"fetchScopes", "fetchOidcKeys", "fetchProfile"} : \A c \in Answered(fn) : c.op = "read"
      /\ \A c \in Answered("resendVerification") : c.op = "mail"
  BY <1>1 DEF Answered, Asks
<1>3. CASE SettingsScopes \/ FetchOidcKeys \/ FetchProfile
  BY <1>0, <1>2, <1>3, GotRecordForm DEF SettingsScopes, FetchOidcKeys, FetchProfile, RecordStep
<1>4. CASE ResendVerification
  <2>1. CASE page = "profile" /\ Start("none", "resendVerification", "mail", None)
    <3>1. Fits("resendVerification", "mail", "none") /\ RecordRequest("mail", None)
      BY <2>1 DEF Fits, Asks, FlagFits, RecordRequest
    <3> QED BY <1>0, <2>1, <3>1, RecordAskedForm DEF RecordStep
  <2>2. ASSUME NEW c \in Answered("resendVerification"), Resume(calls \ {c}, ui)
        PROVE  RecordStep
    <3>1. c \in calls /\ c.op = "mail" /\ c.st \in {"ok", "failed"}
      BY <1>2 DEF Answered
    <3> QED BY <1>0, <2>2, <3>1, RevealedForm DEF RecordStep
  <2> QED BY <1>4, <2>1, <2>2 DEF ResendVerification, At
<1> QED BY <1>3, <1>4

LEMMA RecordTypingForm ==
  ASSUME Base, page \in RecordPageNames, RecordTypes, RecordTyping
  PROVE  RecordTyped \/ RecordEdited
<1>1. ASSUME NEW t, Type([ui EXCEPT !.sel = t])
      PROVE  RecordTyped
  <2>1. ui'.shown = ui.shown /\ ui'.draft = ui.draft /\ ui'.secret = ui.secret /\ ui'.open = ui.open
    BY <1>1, RecordUi DEF Type
  <2> QED BY <1>1, <2>1 DEF Type, RecordTyped, Holds, SecretHeld
<1>2. CASE page = "user-detail"
  <2>1. UserTemplate.fields \subseteq {"email", "verified"}
    BY <1>2 DEF UserTemplate, FormFields
  <2>2. \A k \in {"email", "verified"} : FieldVals(k) = Texts \ {Odd}
    BY FieldValsAre
  <2>3. ASSUME NEW k \in UserTemplate.fields, NEW v \in FieldVals(k) \ {ui.draft[k]}, Edit(k, v)
        PROVE  RecordEdited
    BY <2>1, <2>2, <2>3, RecordEditedForm
  <2>4. ASSUME NEW s \in SUBSET RoleNames \ {ui.draft["roles"]}, Edit("roles", s)
        PROVE  RecordEdited
    BY <2>4, RecordEditedForm
  <2> QED BY <1>1, <1>2, <2>3, <2>4 DEF RecordTyping
<1>3. CASE page = "application-detail"
  <2>1. ApplicationTemplate.fields \subseteq {"name", "uris"}
    BY DEF ApplicationTemplate
  <2>2. ASSUME NEW k \in ApplicationTemplate.fields, NEW v \in Texts \ {ui.draft[k]}, Edit(k, v)
        PROVE  RecordEdited
    BY <1>3, <2>1, <2>2, RecordEditedForm
  <2>3. ASSUME NEW s \in SUBSET ScopeNames \ {ui.draft["scopes"]}, Edit("scopes", s)
        PROVE  RecordEdited
    BY <2>3, RecordEditedForm
  <2> QED BY <1>1, <1>3, <2>2, <2>3 DEF RecordTyping
<1> QED BY <1>2, <1>3 DEF RecordTyping

LEMMA RecordForms ==
  ASSUME Base, RecordTypes, FlagsFit, RecordPagesNext
  PROVE  RecordStep
<1>0. page \in RecordPageNames
  BY DEF RecordPagesNext
<1>1. CASE ServeRecord \/ EndUpdate \/ ServeAssignInRecord \/ OtherInRecord \/ RecordTyping
  BY <1>0, <1>1, RecordServedForm, RecordCommittedForm, TheirRolesServedForm, RecordElsewhereForm, RecordTypingForm
  DEF RecordStep
<1>2. CASE FetchUser \/ SaveInfo \/ SaveRoles \/ DisableUser \/ EnableUser
  <2>1. page = "user-detail"
    BY <1>2 DEF FetchUser, SaveInfo, SaveRoles, DisableUser, EnableUser, At
  <2> QED BY <1>2, <2>1, UserPageForm
<1>3. CASE FetchClient \/ SaveChanges \/ SaveScopes \/ ResetClientSecret \/ DismissSecret
  <2>1. page = "application-detail"
    BY <1>3 DEF FetchClient, SaveChanges, SaveScopes, ResetClientSecret, DismissSecret, At
  <2> QED BY <1>3, <2>1, ApplicationPageForm
<1>4. CASE DashboardLoad
  BY <1>4, DashboardForm DEF DashboardLoad, At
<1>5. CASE SettingsScopes \/ FetchOidcKeys \/ FetchProfile \/ ResendVerification
  <2>1. page \in {"settings", "profile"}
    BY <1>5 DEF SettingsScopes, FetchOidcKeys, FetchProfile, ResendVerification, At
  <2> QED BY <1>5, <2>1, OtherRecordsForm
<1> QED BY <1>1, <1>2, <1>3, <1>4, <1>5 DEF RecordPagesNext

-----------------------------------------------------------------------------
(* What is true of these pages: a field shown is the server's, or a fetch   *)
(* of it is under way or about to be; what was set by somebody else is      *)
(* still so, and neither edited nor on its way to be overwritten; a secret  *)
(* shown is the one there is, or the next is on its way; and the user has   *)
(* the roles the console has told of, or an assignment has yet to be heard  *)
(* of.  The scopes that an open transaction sets count as the server's, and *)
(* once it has misled the page about them nothing is said of them.          *)
Due(k, v) == IF k = "scopes" /\ db.pending # {} THEN v \in db.pending ELSE v = db.data[k]

Excused(k) == k = "scopes" /\ "misled" \in marks

Undone(k) ==
  \E c \in calls : \/ c.op = "put" /\ c.st = "ok" /\ k \in DOMAIN c.body
                   \/ c.op = "assign" /\ c.st \in {"half", "ok"} /\ k = "roles"

Fetching(k) ==
  \E c \in calls : \/ c.op = "read" /\ k \in c.body
                   \/ c.op = "scopes" /\ c.st = "ok" /\ k = "scopes"

ReadCurrent ==
  \A c \in calls : c.op = "read" /\ c.st \in {"half", "ok"} =>
    \A k \in DOMAIN c.res : Due(k, c.res[k]) \/ Undone(k) \/ Excused(k)

ScopesSent ==
  \A c \in calls : c.op = "scopes" /\ c.st = "ok" =>
    Due("scopes", c.body["scopes"]) \/ Excused("scopes")

ShownDue ==
  \A k \in Fields[page] : Due(k, ui.shown[k]) \/ Undone(k) \/ Fetching(k) \/ Excused(k)

RecordCurrent == ReadCurrent /\ ScopesSent /\ ShownDue

ThisSecretCurrent ==
  /\ ui.secret # None => ui.secret.of = "this" /\ (ui.secret.n = db.secret["this"] \/ SecretTold)
  /\ \A c \in calls : c.op = "reset" /\ c.st = "ok" => c.res.of = "this" /\ c.res.n = db.secret["this"]

EditsKept ==
  \A k \in DOMAIN others :
     /\ k \in FormFields /\ db.data[k] = others[k] /\ Untouched(k)
     /\ \A c \in calls : c.op = "put" => k \notin DOMAIN c.body

TheirRolesTold ==
  /\ \A c \in calls : c.op = "assign" /\ c.st = "half" =>
       c.res \subseteq c.body.val /\ Given(db.data["roles"], (c.body.val \ c.res) \cap RoleNames, marks)
  /\ \A c \in calls : c.op = "assign" /\ c.st = "ok" =>
       Given(db.data["roles"], c.body.val \cap RoleNames, marks)
  /\ \A said \in meant : \/ Given(db.data["roles"], said, marks)
                          \/ \E c \in calls : c.op = "assign" /\ c.st \in {"half", "ok"}

RecordFit ==
  /\ RecordTypes
  /\ marks \subseteq {"blind", "misled"} => RecordCurrent
  /\ page = "application-detail" /\ marks \cap {"overlap", "lost", "other"} = {} => ThisSecretCurrent
  /\ page = "user-detail" /\ marks \cap {"lost", "other"} = {} => TheirRolesTold
  /\ "blind" \notin marks => EditsKept

(* What every step may count on.                                            *)
RecordKnown ==
  /\ RecordTypes /\ RecordKinds /\ page \in RecordPageNames
  /\ \A c, d \in calls : c.op = "assign" /\ d.op = "assign" => c = d
  /\ ReadsMarked /\ OverlapMarked /\ NoSecret

LEMMA RecordTypesAre ==
  ASSUME RecordTypes
  PROVE  /\ DOMAIN db = {"data", "secret", "sent", "pending"} /\ IsData(db.data)
         /\ \A set \in db.pending : set \in FieldVals("scopes") /\ \A other \in db.pending : other = set
         /\ db.pending # {} => page = "application-detail"
         /\ DOMAIN db.secret = {"this"}
         /\ IsShown(ui.shown) /\ IsForm(ui.draft) /\ DOMAIN others \subseteq Fields[page]
         /\ \A c \in calls : /\ RecordRequest(c.op, c.body)
                             /\ c.op = "read" /\ c.st \in {"half", "ok"} => IsAnswer(Part(c), c.res)
                             /\ c.op = "scopes" /\ c.st = "ok" => c.res = c.body
         /\ page = "admin-dashboard" => \A c, d \in calls : c.body = d.body => c = d
BY DEF RecordTypes

(* What is read fits the fields it is shown in, and the form.               *)
LEMMA ReadAnswers ==
  ASSUME page \in RecordPageNames, RecordTypes, NEW c \in calls, c.op = "read",
         NEW e, e.body = c.body, ReadOn(c, e), e.st \in {"half", "ok"}
  PROVE  IsAnswer(Part(e), e.res)
<1>1. /\ DOMAIN e.res = Part(e) /\ Part(e) \subseteq c.body
      /\ \A k \in DOMAIN e.res :
           \/ e.res[k] = db.data[k]
           \/ c.st = "half" /\ k # "scopes" /\ e.res[k] = c.res[k]
           \/ k = "scopes" /\ e.res[k] \in FieldVals("scopes")
  BY DEF ReadOn, Part
<1>2. c.body \subseteq Fields[page] /\ \A k \in Fields[page] : db.data[k] \in FieldVals(k)
  BY DEF RecordTypes, RecordRequest, IsData
<1>3. c.st = "half" => \A k \in c.body \ {"scopes"} : c.res[k] \in FieldVals(k)
  BY DEF RecordTypes, IsAnswer, Part
<1> QED BY <1>1, <1>2, <1>3 DEF IsAnswer

(* Nothing is pending but on the page of an application.                    *)
LEMMA PendingFits ==
  ASSUME RecordTypes, RecordKinds, NEW c \in calls, c.op = "scopes", db'.pending = {c.body["scopes"]}
  PROVE  /\ \A set \in db'.pending :
              set \in FieldVals("scopes") /\ \A other \in db'.pending : other = set
         /\ page = "application-detail"
BY DEF RecordTypes, RecordKinds, RecordRequest

LEMMA ShownAgain ==
  ASSUME page \in RecordPageNames, IsShown(ui.shown), IsForm(ui.draft),
         NEW c, c.op \in {"read", "scopes"}, RecordRequest(c.op, c.body),
         c.op = "scopes" => page = "application-detail",
         IF c.op = "read" THEN IsAnswer(c.body, c.res) ELSE c.res = c.body,
         ui'.shown = Over(c.res, ui.shown),
         ui'.draft = Over(Refill(c.res, ui.draft), ui.draft)
  PROVE  IsShown(ui'.shown) /\ IsForm(ui'.draft)
<1> DEFINE r == c.res
           f == ui'.shown
           g == ui'.draft
<1>1. /\ \A k \in DOMAIN r : k \in Fields[page] /\ r[k] \in FieldVals(k)
      /\ page = "user-detail" => DOMAIN r = Fields[page]
  BY FieldsAre DEF RecordRequest, IsAnswer
<1>2. /\ DOMAIN f = DOMAIN r \cup DOMAIN ui.shown
      /\ \A k \in DOMAIN r : f[k] = r[k]
      /\ \A k \in DOMAIN ui.shown \ DOMAIN r : f[k] = ui.shown[k]
  BY DEF Over
<1>3. DOMAIN f = Fields[page] /\ \A k \in Fields[page] : f[k] = None \/ f[k] \in FieldVals(k)
  BY <1>1, <1>2 DEF IsShown
<1>4. page = "user-detail" => f["email"] # None /\ f["verified"] # None
  <2>1. None \notin FieldVals("email") /\ None \notin FieldVals("verified")
    BY FieldValsAre, RecordPagesAssumption
  <2> QED BY <1>1, <1>2, <2>1, FieldsAre
<1>5. IsShown(f)
  <2>1. IsFcn(f)
    BY OverIsFcn DEF IsFcn
  <2> QED BY <1>3, <1>4, <2>1 DEF IsShown
<1> DEFINE h == Refill(r, ui.draft)
<1>6. /\ DOMAIN h = DOMAIN r \cap DOMAIN ui.draft
      /\ \A k \in DOMAIN h : h[k] = IF k \in {"roles", "scopes"} THEN r[k] ELSE Tidy(r[k])
  BY DEF Refill
<1>7. g = Over(h, ui.draft)
  OBVIOUS
<1> HIDE DEF h
<1>8. /\ DOMAIN g = DOMAIN h \cup DOMAIN ui.draft
      /\ \A k \in DOMAIN h : g[k] = h[k]
      /\ \A k \in DOMAIN ui.draft \ DOMAIN h : g[k] = ui.draft[k]
  BY <1>7 DEF Over
<1>9. \A k \in DOMAIN h \ {"roles", "scopes"} : h[k] \in Texts \ {Odd}
  <2>1. ASSUME NEW k \in DOMAIN h \ {"roles", "scopes"}
        PROVE  h[k] \in Texts \ {Odd}
    <3>1. r[k] \in FieldVals(k)
      BY <1>1, <1>6
    <3>2. r[k] \in Texts
      BY <3>1, FieldValsAre
    <3> QED BY <1>6, <3>2, TidyIs
  <2> QED BY <2>1
<1>10. /\ "roles" \in DOMAIN h => h["roles"] \subseteq RoleNames
       /\ "scopes" \in DOMAIN h => h["scopes"] \subseteq ScopeNames
  BY <1>1, <1>6, FieldValsAre
<1>11. IsForm(g)
  BY <1>6, <1>8, <1>9, <1>10 DEF IsForm
<1> QED BY <1>5, <1>11

LEMMA RecordTypesKept ==
  ASSUME RecordKnown, RecordStep, page' = page
  PROVE  RecordTypes'
<1>0. page \in RecordPageNames /\ RecordKinds /\ RecordTypes
  BY DEF RecordKnown
<1>1. /\ DOMAIN db = {"data", "secret", "sent", "pending"} /\ IsData(db.data)
      /\ \A set \in db.pending : set \in FieldVals("scopes") /\ \A other \in db.pending : other = set
      /\ db.pending # {} => page = "application-detail"
      /\ DOMAIN db.secret = {"this"}
      /\ IsShown(ui.shown) /\ IsForm(ui.draft) /\ DOMAIN others \subseteq Fields[page]
      /\ \A c \in calls : /\ RecordRequest(c.op, c.body)
                          /\ c.op = "read" /\ c.st \in {"half", "ok"} => IsAnswer(Part(c), c.res)
                          /\ c.op = "scopes" /\ c.st = "ok" => c.res = c.body
      /\ page = "admin-dashboard" => \A c, d \in calls : c.body = d.body => c = d
  BY <1>0, RecordTypesAre
<1>2. SUFFICES
      /\ DOMAIN db' = {"data", "secret", "sent", "pending"} /\ IsData(db'.data)
      /\ \A set \in db'.pending : set \in FieldVals("scopes") /\ \A other \in db'.pending : other = set
      /\ db'.pending # {} => page = "application-detail"
      /\ DOMAIN db'.secret = {"this"}
      /\ IsShown(ui'.shown) /\ IsForm(ui'.draft) /\ DOMAIN others' \subseteq Fields[page]
      /\ \A c \in calls' : /\ RecordRequest(c.op, c.body)
                           /\ c.op = "read" /\ c.st \in {"half", "ok"} => IsAnswer(Part(c), c.res)
                           /\ c.op = "scopes" /\ c.st = "ok" => c.res = c.body
      /\ page = "admin-dashboard" => \A c, d \in calls' : c.body = d.body => c = d
  BY DEF RecordTypes, IsData, IsShown, IsForm, RecordRequest, Sendable, IsAnswer
<1>3. CASE RecordServed
  <2>1. PICK c \in calls : \E e :
          /\ Turns(e, c)
          /\ DOMAIN db' = DOMAIN db /\ IsData(db'.data) /\ DOMAIN db'.secret = DOMAIN db.secret
          /\ \/ db'.pending = db.pending
             \/ c.op = "scopes" /\ db'.pending = {c.body["scopes"]}
          /\ c.op = "read" => ReadOn(c, e)
          /\ c.op = "scopes" /\ e.st = "ok" => e.res = c.body
    BY <1>3 DEF RecordServed
  <2>2. PICK e :
          /\ Turns(e, c)
          /\ c.op = "read" => ReadOn(c, e)
          /\ c.op = "scopes" /\ e.st = "ok" => e.res = c.body
    BY <2>1
  <2>3. calls' = (calls \ {c}) \cup {e} /\ e.op = c.op /\ e.body = c.body
    BY <2>2 DEF Turns, Answers
  <2>4. ui' = ui /\ others' = others
    BY <1>3 DEF RecordServed
  <2>5. e.op = "read" /\ e.st \in {"half", "ok"} => IsAnswer(Part(e), e.res)
    BY <1>0, <2>2, <2>3, ReadAnswers
  <2>6. \A d \in calls' : /\ RecordRequest(d.op, d.body)
                          /\ d.op = "read" /\ d.st \in {"half", "ok"} => IsAnswer(Part(d), d.res)
                          /\ d.op = "scopes" /\ d.st = "ok" => d.res = d.body
    BY <1>1, <2>2, <2>3, <2>5
  <2>7. page = "admin-dashboard" => \A a, b \in calls' : a.body = b.body => a = b
    BY <1>1, <2>3
  <2>8. /\ \A set \in db'.pending : set \in FieldVals("scopes") /\ \A other \in db'.pending : other = set
        /\ db'.pending # {} => page = "application-detail"
    BY <1>0, <1>1, <2>1, PendingFits
  <2> QED BY <1>1, <2>1, <2>4, <2>6, <2>7, <2>8
<1>4. CASE TheirRolesServed
  <2>1. PICK c \in calls : \E e :
          /\ Turns(e, c) /\ c.op = "assign"
          /\ DOMAIN db' = DOMAIN db /\ db'.secret = db.secret /\ db'.pending = db.pending /\ IsData(db'.data)
    BY <1>4 DEF TheirRolesServed
  <2>2. PICK e : Turns(e, c)
    BY <2>1
  <2>3. calls' = (calls \ {c}) \cup {e} /\ e.op = c.op /\ e.body = c.body
    BY <2>2 DEF Turns, Answers
  <2>4. ui' = ui /\ others' = others /\ page # "admin-dashboard"
    BY <1>0, <1>4, <2>1 DEF TheirRolesServed, RecordKinds
  <2>5. \A d \in calls' : d \in calls \/ (d.op = "assign" /\ d.body = c.body)
    BY <2>1, <2>3
  <2>6. \A d \in calls' : /\ RecordRequest(d.op, d.body)
                          /\ d.op = "read" /\ d.st \in {"half", "ok"} => IsAnswer(Part(d), d.res)
                          /\ d.op = "scopes" /\ d.st = "ok" => d.res = d.body
    BY <1>1, <2>1, <2>5
  <2> QED BY <1>1, <2>1, <2>4, <2>6
<1>5. CASE RecordElsewhere
  <2>1. PICK k \in Fields[page] :
          others' = others \/ others' = Over([j \in {k} |-> db'.data[k]], others)
    BY <1>5 DEF RecordElsewhere
  <2>2. DOMAIN others' \subseteq Fields[page]
    BY <1>1, <2>1 DEF Over
  <2> QED BY <1>1, <1>5, <2>2 DEF RecordElsewhere
<1>6. CASE RecordTyped
  BY <1>1, <1>6 DEF RecordTyped, Holds
<1>7. CASE RecordEdited
  BY <1>1, <1>7 DEF RecordEdited
<1>8. CASE RecordAsked \/ RecordSaved
  <2>1. PICK d : New(d, calls) /\ calls' = calls \cup {d} /\ d.op # "read" /\ RecordRequest(d.op, d.body)
    BY <1>8 DEF RecordAsked, RecordSaved
  <2>2. db' = db /\ others' = others /\ ui'.shown = ui.shown /\ ui'.draft = ui.draft
    BY <1>8 DEF RecordAsked, RecordSaved, Waits, Holds
  <2>3. d.st = "sent" /\ IsCall(d)
    BY <2>1 DEF New
  <2>4. page # "admin-dashboard"
    BY <2>1, <2>3 DEF IsCall, Fits, Asks
  <2> QED BY <1>1, <2>1, <2>2, <2>3, <2>4
<1>9. CASE RecordLoaded
  <2>1. PICK c \in calls :
          /\ c.op \in {"read", "scopes"} /\ calls' = calls \ {c}
          /\ \/ /\ c.st = "ok"
                /\ ui'.shown = Over(c.res, ui.shown)
                /\ ui'.draft = Over(Refill(c.res, ui.draft), ui.draft)
             \/ c.st = "failed" /\ Holds
    BY <1>9 DEF RecordLoaded
  <2>2. db' = db /\ others' = others
    BY <1>9 DEF RecordLoaded, Waits
  <2>3. IsShown(ui'.shown) /\ IsForm(ui'.draft)
    <3>1. CASE c.st = "ok"
      <4>1. IF c.op = "read" THEN IsAnswer(c.body, c.res) ELSE c.res = c.body
        BY <1>1, <2>1, <3>1 DEF Part
      <4>2. c.op = "scopes" => page = "application-detail"
        BY <1>0 DEF RecordKinds
      <4>3. /\ ui'.shown = Over(c.res, ui.shown)
            /\ ui'.draft = Over(Refill(c.res, ui.draft), ui.draft)
        BY <2>1, <3>1
      <4> QED BY <1>0, <1>1, <2>1, <4>1, <4>2, <4>3, ShownAgain
    <3>2. CASE c.st # "ok"
      BY <1>1, <2>1, <3>2 DEF Holds
    <3> QED BY <3>1, <3>2
  <2> QED BY <1>1, <2>1, <2>2, <2>3
<1>10. CASE RecordHeard
  <2>1. PICK c \in calls :
          /\ c.op \in {"put", "assign"}
          /\ \/ calls' = calls \ {c}
             \/ \E d : /\ New(d, calls \ {c}) /\ calls' = (calls \ {c}) \cup {d}
                       /\ d.op = "read" /\ d.body = Fields[page]
    BY <1>10 DEF RecordHeard
  <2>2. db' = db /\ others' = others /\ ui'.shown = ui.shown /\ ui'.draft = ui.draft
    BY <1>10 DEF RecordHeard, Waits, Holds
  <2>3. page \in {"user-detail", "application-detail"}
    BY <1>0, <2>1 DEF RecordKinds
  <2>4. \A d \in calls' : d \in calls \/ (d.op = "read" /\ d.body = Fields[page] /\ d.st = "sent")
    BY <2>1 DEF New
  <2>5. RecordRequest("read", Fields[page])
    BY <2>3 DEF RecordRequest
  <2> QED BY <1>1, <2>2, <2>3, <2>4, <2>5
<1>11. CASE RecordRevealed
  BY <1>1, <1>11 DEF RecordRevealed, Waits, Holds
<1>12. CASE page = "admin-dashboard" /\ DashboardLoaded
  <2>1. /\ db' = db /\ others' = others /\ ui'.draft = ui.draft /\ calls' = {}
        /\ \/ \E c, d \in calls : c.st = "ok" /\ d.st = "ok" /\ c # d /\ ui'.shown = Over(c.res, d.res)
           \/ ui'.shown = [ui.shown EXCEPT !["health"] = Blank]
    BY <1>12 DEF DashboardLoaded, Waits
  <2>2. ASSUME NEW c \in calls, NEW d \in calls, c.st = "ok", d.st = "ok", c # d,
               ui'.shown = Over(c.res, d.res)
        PROVE  IsShown(ui'.shown)
    <3>1. /\ c.op = "read" /\ d.op = "read" /\ c.body # d.body
          /\ IsAnswer(c.body, c.res) /\ IsAnswer(d.body, d.res)
          /\ c.body \in {{"health"}, {"stats"}} /\ d.body \in {{"health"}, {"stats"}}
      BY <1>0, <1>1, <1>12, <2>2 DEF RecordKinds, RecordRequest, Part
    <3>2. DOMAIN c.res = c.body /\ DOMAIN d.res = d.body /\ c.body \cup d.body = Fields[page]
      BY <1>12, <3>1, FieldsAre DEF IsAnswer
    <3>3. /\ DOMAIN ui'.shown = Fields[page]
          /\ \A k \in Fields[page] : ui'.shown[k] \in FieldVals(k)
      BY <2>2, <3>1, <3>2 DEF Over, IsAnswer
    <3>4. IsFcn(ui'.shown)
      BY <2>2, OverIsFcn DEF IsFcn
    <3> QED BY <1>12, <3>3, <3>4 DEF IsShown
  <2>3. ASSUME ui'.shown = [ui.shown EXCEPT !["health"] = Blank]
        PROVE  IsShown(ui'.shown)
    <3>1. /\ DOMAIN ui.shown = Fields[page] /\ \A k \in Fields[page] : ui.shown[k] = None \/ ui.shown[k] \in FieldVals(k)
          /\ Blank \in FieldVals("health")
      BY <1>1, FieldValsAre, TidyIs DEF IsShown
    <3>2. /\ DOMAIN ui'.shown = Fields[page]
          /\ \A k \in Fields[page] : ui'.shown[k] = None \/ ui'.shown[k] \in FieldVals(k)
      BY <2>3, <3>1
    <3>3. IsFcn(ui'.shown)
      BY <2>3 DEF IsFcn
    <3> QED BY <1>12, <3>2, <3>3 DEF IsShown
  <2>4. IsShown(ui'.shown)
    BY <2>1, <2>2, <2>3
  <2> QED BY <1>1, <2>1, <2>4
<1>13. CASE RecordCommitted
  BY <1>1, <1>13 DEF RecordCommitted
<1> QED BY <1>3, <1>4, <1>5, <1>6, <1>7, <1>8, <1>9, <1>10, <1>11, <1>12, <1>13 DEF RecordStep

LEMMA RecordMarksGrow ==
  ASSUME RecordStep
  PROVE  marks \subseteq marks'
BY DEF RecordStep, RecordServed, RecordCommitted, TheirRolesServed, RecordElsewhere, RecordTyped, RecordEdited, RecordAsked,
       RecordSaved, RecordLoaded, RecordHeard, RecordRevealed, DashboardLoaded, Waits

(* A request that is answered is not in the way of what is known of others. *)
LEMMA UndoneStays ==
  ASSUME NEW c \in calls, NEW e, Turns(e, c), c.st \in {"sent", "half"}, c.op # "assign"
  PROVE  \A k : Undone(k) => Undone(k)'
<1>1. ~(c.op = "put" /\ c.st = "ok")
  OBVIOUS
<1> QED BY <1>1 DEF Undone, Turns

LEMMA ExcusedStays ==
  ASSUME marks \subseteq marks'
  PROVE  \A k : Excused(k) => Excused(k)'
BY DEF Excused

LEMMA FetchingStays ==
  ASSUME NEW c \in calls, NEW e, Turns(e, c), c.st \in {"sent", "half"}
  PROVE  \A k : Fetching(k) => Fetching(k)'
BY DEF Fetching, Turns, Answers

LEMMA ScopesApart ==
  ASSUME NEW cs, ~Overlap(cs), NEW c \in cs, NEW d \in cs, c # d, c.op = "scopes",
         c.fn # "createClient", d.fn # "createClient",
         d.op = "scopes" \/ (d.op = "read" /\ "scopes" \in d.body)
  PROVE  FALSE
<1>1. Shows(c) = {"scopes"} /\ "scopes" \in Shows(d)
  BY DEF Shows
<1> QED BY <1>1 DEF Overlap

(* What is due stays so, but where a request that is now answered has set   *)
(* the field.                                                               *)
LEMMA ServedDue ==
  ASSUME page' = page, NEW c, NEW e, e.op = c.op, e.body = c.body, e \in calls',
         \/ db'.data = db.data
         \/ /\ c.op = "put" /\ e.st = "ok"
            /\ \A k \in Fields[page] : db'.data[k] = IF k \in DOMAIN c.body THEN c.body[k] ELSE db.data[k],
         \/ db'.pending = db.pending
         \/ c.op = "scopes" /\ e.st = "ok" /\ db'.pending = {c.body["scopes"]}
  PROVE  \A k \in Fields[page] : \A v : Due(k, v) =>
           Due(k, v)' \/ Undone(k)' \/ (c.op = "scopes" /\ e.st = "ok" /\ k = "scopes")
<1> SUFFICES ASSUME NEW k \in Fields[page], NEW v, Due(k, v),
                    ~(c.op = "scopes" /\ e.st = "ok" /\ k = "scopes")
             PROVE  Due(k, v)' \/ Undone(k)'
  OBVIOUS
<1>1. db'.data[k] = db.data[k] \/ Undone(k)'
  BY DEF Undone
<1>2. k = "scopes" => db'.pending = db.pending
  OBVIOUS
<1>3. ASSUME db'.data[k] = db.data[k]
      PROVE  Due(k, v)'
  BY <1>2, <1>3 DEF Due
<1> QED BY <1>1, <1>3

LEMMA RecordServedCurrent ==
  ASSUME RecordKnown, RecordServed, RecordCurrent, marks' \subseteq {"blind", "misled"}, page' = page
  PROVE  RecordCurrent'
<1>1. PICK c \in calls : \E e :
        /\ Turns(e, c) /\ c.op # "assign" /\ c.st \in {"sent", "half"} /\ marks \subseteq marks'
        /\ \/ db'.data = db.data
           \/ /\ c.op = "put" /\ (e.st = "ok" \/ "lost" \in marks')
              /\ \A k \in Fields[page] : db'.data[k] = IF k \in DOMAIN c.body THEN c.body[k] ELSE db.data[k]
        /\ \/ db'.pending = db.pending
           \/ c.op = "scopes" /\ (e.st = "ok" \/ "lost" \in marks') /\ db'.pending = {c.body["scopes"]}
        /\ c.op = "read" => db' = db /\ ReadOn(c, e)
        /\ c.op = "scopes" /\ e.st = "ok" => e.res = c.body /\ db'.pending = {c.body["scopes"]}
  BY DEF RecordServed
<1>2. PICK e :
        /\ Turns(e, c) /\ c.op # "assign" /\ c.st \in {"sent", "half"} /\ marks \subseteq marks'
        /\ \/ db'.data = db.data
           \/ /\ c.op = "put" /\ e.st = "ok"
              /\ \A k \in Fields[page] : db'.data[k] = IF k \in DOMAIN c.body THEN c.body[k] ELSE db.data[k]
        /\ \/ db'.pending = db.pending
           \/ c.op = "scopes" /\ e.st = "ok" /\ db'.pending = {c.body["scopes"]}
        /\ c.op = "read" => db' = db /\ ReadOn(c, e)
        /\ c.op = "scopes" /\ e.st = "ok" => e.res = c.body /\ db'.pending = {c.body["scopes"]}
  BY <1>1
<1>3. calls' = (calls \ {c}) \cup {e} /\ e.op = c.op /\ e.body = c.body
  BY <1>2 DEF Turns, Answers
<1>4. ui' = ui /\ ~Overlap(calls)
  BY <1>2 DEF RecordServed, RecordKnown, OverlapMarked
<1>5. /\ \A k : Undone(k) => Undone(k)'
      /\ \A k : Fetching(k) => Fetching(k)'
      /\ \A k : Excused(k) => Excused(k)'
  BY <1>2, UndoneStays, FetchingStays, ExcusedStays
<1>6. ReadCurrent /\ ScopesSent /\ ShownDue
  BY DEF RecordCurrent
<1>7. \A d \in calls : /\ RecordRequest(d.op, d.body)
                       /\ d.op \in {"scopes", "reset"} => page = "application-detail"
                       /\ d.fn # "createClient"
                       /\ d.op = "read" /\ d.st \in {"half", "ok"} => IsAnswer(Part(d), d.res)
  BY DEF RecordKnown, RecordTypes, RecordKinds
<1>8. \A k \in Fields[page] : \A v : Due(k, v) =>
        Due(k, v)' \/ Undone(k)' \/ (c.op = "scopes" /\ e.st = "ok" /\ k = "scopes")
  <2>1. e \in calls'
    BY <1>3
  <2> QED BY <1>2, <1>3, <2>1, ServedDue
<1>9. \A d \in calls : d.op = "read" /\ d.st \in {"half", "ok"} =>
        \A k \in DOMAIN d.res : k \in d.body /\ k \in Fields[page]
  <2>1. ASSUME NEW d \in calls, d.op = "read", d.st \in {"half", "ok"}, NEW k \in DOMAIN d.res
        PROVE  k \in d.body /\ k \in Fields[page]
    <3>1. k \in Part(d)
      BY <1>7, <2>1 DEF IsAnswer
    <3> QED BY <1>7, <2>1, <3>1 DEF Part, RecordRequest
  <2> QED BY <2>1
<1>10. ReadCurrent'
  <2>1. ASSUME NEW d \in calls', d.op = "read", d.st \in {"half", "ok"}, NEW k \in DOMAIN d.res
        PROVE  Due(k, d.res[k])' \/ Undone(k)' \/ Excused(k)'
    <3>1. CASE d = e
      <4>1. c.op = "read" /\ db' = db /\ ReadOn(c, e) /\ DOMAIN e.res = Part(e) /\ e.st # "failed"
        BY <1>2, <1>3, <2>1, <3>1 DEF ReadOn
      <4>2. \/ e.res[k] = db.data[k] /\ (k = "scopes" => db.pending = {})
            \/ c.st = "half" /\ k # "scopes" /\ e.res[k] = c.res[k]
            \/ k = "scopes" /\ "misled" \in marks'
        BY <2>1, <3>1, <4>1 DEF ReadOn
      <4>3. CASE e.res[k] = db.data[k] /\ (k = "scopes" => db.pending = {})
        BY <3>1, <4>1, <4>3 DEF Due
      <4>4. CASE c.st = "half" /\ k # "scopes" /\ e.res[k] = c.res[k]
        <5>1. k \in DOMAIN c.res
          BY <1>3, <1>7, <2>1, <3>1, <4>1, <4>4 DEF IsAnswer, Part
        <5>2. Due(k, c.res[k]) \/ Undone(k)
          BY <1>6, <4>1, <4>4, <5>1 DEF ReadCurrent, Excused
        <5>3. Due(k, c.res[k]) => Due(k, d.res[k])'
          BY <3>1, <4>1, <4>4 DEF Due
        <5> QED BY <1>5, <5>2, <5>3
      <4>5. CASE k = "scopes" /\ "misled" \in marks'
        BY <4>5 DEF Excused
      <4> QED BY <4>2, <4>3, <4>4, <4>5
    <3>2. CASE d # e
      <4>1. d \in calls /\ d # c
        BY <1>3, <2>1, <3>2
      <4>2. k \in Fields[page] /\ k \in d.body
        BY <1>9, <2>1, <4>1
      <4>3. Due(k, d.res[k]) \/ Undone(k) \/ Excused(k)
        BY <1>6, <2>1, <4>1 DEF ReadCurrent
      <4>4. ~(c.op = "scopes" /\ k = "scopes")
        BY <1>4, <1>7, <2>1, <4>1, <4>2, ScopesApart
      <4> DEFINE v == d.res[k]
      <4>5. Due(k, v) => Due(k, v)' \/ Undone(k)'
        <5> HIDE DEF v
        <5> QED BY <1>8, <4>2, <4>4
      <4> QED BY <1>5, <4>3, <4>5
    <3> QED BY <3>1, <3>2
  <2> QED BY <2>1 DEF ReadCurrent
<1>11. ScopesSent'
  <2>1. ASSUME NEW d \in calls', d.op = "scopes", d.st = "ok"
        PROVE  Due("scopes", d.body["scopes"])' \/ Excused("scopes")'
    <3>1. CASE d = e
      <4>1. db'.pending = {d.body["scopes"]}
        BY <1>2, <1>3, <2>1, <3>1
      <4> QED BY <4>1 DEF Due
    <3>2. CASE d # e
      <4>1. d \in calls /\ d # c
        BY <1>3, <2>1, <3>2
      <4>2. c.op # "scopes"
        BY <1>4, <1>7, <2>1, <4>1, ScopesApart
      <4>3. page = "application-detail"
        BY <1>7, <2>1, <4>1
      <4>4. c.op = "put" => "scopes" \notin DOMAIN c.body
        BY <1>7, <4>3 DEF RecordRequest, Sendable
      <4>5. db'.data["scopes"] = db.data["scopes"] /\ db'.pending = db.pending
        BY <1>2, <4>2, <4>3, <4>4, FieldsAre
      <4>6. Due("scopes", d.body["scopes"]) \/ Excused("scopes")
        BY <1>6, <2>1, <4>1 DEF ScopesSent
      <4>7. Due("scopes", d.body["scopes"]) => Due("scopes", d.body["scopes"])'
        BY <4>5 DEF Due
      <4> QED BY <1>5, <4>6, <4>7
    <3> QED BY <3>1, <3>2
  <2> QED BY <2>1 DEF ScopesSent
<1>12. ShownDue'
  <2>1. ASSUME NEW k \in Fields[page]
        PROVE  Due(k, ui.shown[k])' \/ Undone(k)' \/ Fetching(k)' \/ Excused(k)'
    <3>0. PICK v : v = ui.shown[k]
      OBVIOUS
    <3>1. Due(k, v) \/ Undone(k) \/ Fetching(k) \/ Excused(k)
      BY <1>6, <2>1, <3>0 DEF ShownDue
    <3>2. c.op = "scopes" /\ e.st = "ok" /\ k = "scopes" => Fetching(k)'
      BY <1>3 DEF Fetching
    <3>3. Due(k, v) => Due(k, v)' \/ Undone(k)' \/ Fetching(k)'
      BY <1>8, <2>1, <3>2
    <3>4. Due(k, v)' \/ Undone(k)' \/ Fetching(k)' \/ Excused(k)'
      BY <1>5, <3>1, <3>3
    <3>5. v = ui'.shown[k]
      BY <1>4, <3>0
    <3>6. Due(k, v)' => Due(k, ui.shown[k])'
      BY <3>5 DEF Due
    <3> QED BY <3>4, <3>6
  <2> QED BY <2>1 DEF ShownDue
<1> QED BY <1>10, <1>11, <1>12 DEF RecordCurrent

LEMMA RolesServedCurrent ==
  ASSUME RecordKnown, TheirRolesServed, RecordCurrent, marks' \subseteq {"blind", "misled"}, page' = page
  PROVE  RecordCurrent'
<1>1. PICK c \in calls : \E e :
        /\ Turns(e, c) /\ c.op = "assign" /\ marks \subseteq marks' /\ db'.pending = db.pending
        /\ \A k \in Fields[page] \ {"roles"} : db'.data[k] = db.data[k]
        /\ \/ e.st \in {"half", "ok"}
           \/ c.st = "sent" /\ db'.data["roles"] = db.data["roles"]
  BY DEF TheirRolesServed, RolesGo
<1>2. PICK e :
        /\ Turns(e, c)
        /\ \/ e.st \in {"half", "ok"}
           \/ c.st = "sent" /\ db'.data["roles"] = db.data["roles"]
  BY <1>1
<1>3. calls' = (calls \ {c}) \cup {e} /\ e.op = "assign" /\ e.body = c.body /\ ui' = ui
  BY <1>1, <1>2 DEF Turns, Answers, TheirRolesServed
<1>4. /\ \A d \in calls : RecordRequest(d.op, d.body) /\ d.op # "scopes"
      /\ \A d \in calls' : d.op # "assign" => d \in calls
      /\ db.pending = {} /\ db'.pending = {}
  BY <1>1, <1>3 DEF RecordKnown, RecordTypes, RecordKinds
<1>5. \A k : Undone(k) => Undone(k)'
  BY <1>1, <1>2, <1>3 DEF Undone
<1>6. /\ \A k : Fetching(k) => Fetching(k)'
      /\ \A k : Excused(k) => Excused(k)'
  BY <1>1, <1>3, ExcusedStays DEF Fetching
<1>7. \A k \in Fields[page] : db'.data[k] = db.data[k] \/ Undone(k)'
  BY <1>1, <1>2, <1>3 DEF Undone
<1>8. ReadCurrent'
  <2>1. ASSUME NEW d \in calls', d.op = "read", d.st \in {"half", "ok"}, NEW k \in DOMAIN d.res
        PROVE  Due(k, d.res[k])' \/ Undone(k)' \/ Excused(k)'
    <3>1. d \in calls /\ IsAnswer(Part(d), d.res)
      BY <1>4, <2>1 DEF RecordKnown, RecordTypes
    <3>2. k \in Fields[page]
      BY <1>4, <2>1, <3>1 DEF IsAnswer, Part, RecordRequest
    <3>3. d.res[k] = db.data[k] \/ Undone(k) \/ Excused(k)
      BY <1>4, <2>1, <3>1 DEF RecordCurrent, ReadCurrent, Due
    <3> QED BY <1>4, <1>5, <1>6, <1>7, <3>2, <3>3 DEF Due
  <2> QED BY <2>1 DEF ReadCurrent
<1>9. ScopesSent'
  BY <1>3, <1>4 DEF ScopesSent
<1>10. ShownDue'
  <2>1. ASSUME NEW k \in Fields[page]
        PROVE  Due(k, ui.shown[k])' \/ Undone(k)' \/ Fetching(k)' \/ Excused(k)'
    <3>1. ui.shown[k] = db.data[k] \/ Undone(k) \/ Fetching(k) \/ Excused(k)
      BY <1>4, <2>1 DEF RecordCurrent, ShownDue, Due
    <3> QED BY <1>3, <1>4, <1>5, <1>6, <1>7, <2>1, <3>1 DEF Due
  <2> QED BY <2>1 DEF ShownDue
<1> QED BY <1>8, <1>9, <1>10 DEF RecordCurrent

(* A commit sets what was pending; one that fails excuses the scopes.       *)
LEMMA RecordCommittedCurrent ==
  ASSUME RecordKnown, RecordCommitted, RecordCurrent, page' = page
  PROVE  RecordCurrent'
<1>1. /\ ui' = ui /\ calls' = calls /\ marks \subseteq marks' /\ db'.pending = {}
      /\ \A k \in Fields[page] \ {"scopes"} : db'.data[k] = db.data[k]
      /\ db.pending # {}
      /\ \A set \in db.pending : db'.data["scopes"] = set \/ "misled" \in marks'
  BY DEF RecordCommitted, RecordKnown, RecordTypes
<1>2. /\ \A k : Undone(k) => Undone(k)'
      /\ \A k : Fetching(k) => Fetching(k)'
      /\ \A k : Excused(k) => Excused(k)'
  BY <1>1, ExcusedStays DEF Undone, Fetching
<1>3. \A k \in Fields[page] \cup {"scopes"} : \A v : Due(k, v) => Due(k, v)' \/ Excused(k)'
  <2> SUFFICES ASSUME NEW k \in Fields[page] \cup {"scopes"}, NEW v, Due(k, v)
               PROVE  Due(k, v)' \/ Excused(k)'
    OBVIOUS
  <2>1. CASE k = "scopes"
    BY <1>1, <2>1 DEF Due, Excused
  <2>2. CASE k # "scopes"
    BY <1>1, <2>2 DEF Due
  <2> QED BY <2>1, <2>2
<1>4. ReadCurrent'
  <2>1. ASSUME NEW d \in calls, d.op = "read", d.st \in {"half", "ok"}, NEW k \in DOMAIN d.res
        PROVE  Due(k, d.res[k])' \/ Undone(k)' \/ Excused(k)'
    <3>1. IsAnswer(Part(d), d.res) /\ RecordRequest(d.op, d.body)
      BY <2>1 DEF RecordKnown, RecordTypes
    <3>2. k \in Fields[page]
      BY <2>1, <3>1 DEF IsAnswer, Part, RecordRequest
    <3>3. PICK v : v = d.res[k]
      OBVIOUS
    <3>4. Due(k, v) \/ Undone(k) \/ Excused(k)
      BY <2>1, <3>3 DEF RecordCurrent, ReadCurrent
    <3>5. Due(k, v)' \/ Undone(k)' \/ Excused(k)'
      BY <1>2, <1>3, <3>2, <3>4
    <3> QED BY <3>3, <3>5
  <2> QED BY <1>1, <2>1 DEF ReadCurrent
<1>5. ScopesSent'
  <2>1. ASSUME NEW d \in calls, d.op = "scopes", d.st = "ok"
        PROVE  Due("scopes", d.body["scopes"])' \/ Excused("scopes")'
    <3>1. PICK v : v = d.body["scopes"]
      OBVIOUS
    <3>2. Due("scopes", v) \/ Excused("scopes")
      BY <2>1, <3>1 DEF RecordCurrent, ScopesSent
    <3>3. Due("scopes", v)' \/ Excused("scopes")'
      BY <1>2, <1>3, <3>2
    <3> QED BY <3>1, <3>3
  <2> QED BY <1>1, <2>1 DEF ScopesSent
<1>6. ShownDue'
  <2>1. ASSUME NEW k \in Fields[page]
        PROVE  Due(k, ui.shown[k])' \/ Undone(k)' \/ Fetching(k)' \/ Excused(k)'
    <3>1. PICK v : v = ui.shown[k]
      OBVIOUS
    <3>2. Due(k, v) \/ Undone(k) \/ Fetching(k) \/ Excused(k)
      BY <2>1, <3>1 DEF RecordCurrent, ShownDue
    <3>3. Due(k, v)' \/ Undone(k)' \/ Fetching(k)' \/ Excused(k)'
      BY <1>2, <1>3, <2>1, <3>2
    <3>4. v = ui'.shown[k]
      BY <1>1, <3>1
    <3>5. Due(k, v)' => Due(k, ui.shown[k])'
      BY <3>4 DEF Due
    <3> QED BY <3>3, <3>5
  <2> QED BY <2>1 DEF ShownDue
<1> QED BY <1>4, <1>5, <1>6 DEF RecordCurrent

(* A step that leaves the server and what is shown alone, and that only     *)
(* takes answers away that nothing hinges on.                               *)
LEMMA SameData ==
  ASSUME db' = db, marks \subseteq marks'
  PROVE  \A k, v : Due(k, v) \/ Excused(k) => Due(k, v)' \/ Excused(k)'
BY DEF Due, Excused

LEMMA RecordSame ==
  ASSUME RecordCurrent, db' = db, ui'.shown = ui.shown, marks \subseteq marks', page' = page,
         \A c \in calls' : c \in calls \/ c.st = "sent",
         \A k : Undone(k) => Undone(k)',
         \A k : Fetching(k) => Fetching(k)'
  PROVE  RecordCurrent'
<1>1. \A k, v : Due(k, v) \/ Excused(k) => Due(k, v)' \/ Excused(k)'
  BY SameData
<1>2. ReadCurrent'
  <2>1. ASSUME NEW d \in calls', d.op = "read", d.st \in {"half", "ok"}, NEW k \in DOMAIN d.res
        PROVE  Due(k, d.res[k])' \/ Undone(k)' \/ Excused(k)'
    <3>1. PICK v : v = d.res[k]
      OBVIOUS
    <3>2. Due(k, v) \/ Undone(k) \/ Excused(k)
      BY <2>1, <3>1 DEF RecordCurrent, ReadCurrent
    <3>3. Due(k, v)' \/ Undone(k)' \/ Excused(k)'
      BY <1>1, <3>2
    <3> QED BY <3>1, <3>3
  <2> QED BY <2>1 DEF ReadCurrent
<1>3. ScopesSent'
  <2>1. ASSUME NEW d \in calls', d.op = "scopes", d.st = "ok"
        PROVE  Due("scopes", d.body["scopes"])' \/ Excused("scopes")'
    <3>1. PICK v : v = d.body["scopes"]
      OBVIOUS
    <3>2. Due("scopes", v) \/ Excused("scopes")
      BY <2>1, <3>1 DEF RecordCurrent, ScopesSent
    <3>3. Due("scopes", v)' \/ Excused("scopes")'
      BY <1>1, <3>2
    <3> QED BY <3>1, <3>3
  <2> QED BY <2>1 DEF ScopesSent
<1>4. ShownDue'
  <2>1. ASSUME NEW k \in Fields[page]
        PROVE  Due(k, ui.shown[k])' \/ Undone(k)' \/ Fetching(k)' \/ Excused(k)'
    <3>1. PICK v : v = ui.shown[k]
      OBVIOUS
    <3>2. Due(k, v) \/ Undone(k) \/ Fetching(k) \/ Excused(k)
      BY <2>1, <3>1 DEF RecordCurrent, ShownDue
    <3>3. Due(k, v)' \/ Undone(k)' \/ Fetching(k)' \/ Excused(k)'
      BY <1>1, <3>2
    <3>4. Due(k, v)' => Due(k, ui.shown[k])'
      BY <3>1 DEF Due
    <3> QED BY <3>3, <3>4
  <2> QED BY <2>1 DEF ShownDue
<1> QED BY <1>2, <1>3, <1>4 DEF RecordCurrent

LEMMA RecordLoadedCurrent ==
  ASSUME RecordKnown, RecordLoaded, RecordCurrent, marks' \subseteq {"blind", "misled"}, page' = page
  PROVE  RecordCurrent'
<1>1. PICK c \in calls :
        /\ c.op \in {"read", "scopes"} /\ calls' = calls \ {c}
        /\ \/ c.st = "ok" /\ ui'.shown = Over(c.res, ui.shown)
           \/ c.st = "failed" /\ Holds
  BY DEF RecordLoaded
<1>2. db' = db /\ marks \subseteq marks'
  BY DEF RecordLoaded, Waits
<1>3. /\ DOMAIN ui.shown = Fields[page]
      /\ RecordRequest(c.op, c.body)
      /\ c.op = "read" /\ c.st = "ok" => DOMAIN c.res = c.body
      /\ c.op = "scopes" /\ c.st = "ok" => c.res = c.body
  BY DEF RecordKnown, RecordTypes, IsShown, IsAnswer, Part
<1>4. \A k : Undone(k) => Undone(k)'
  BY <1>1 DEF Undone
<1>5. CASE c.st = "ok"
  <2>1. ui'.shown = Over(c.res, ui.shown)
    BY <1>1, <1>5
  <2>2. \A k : Fetching(k) => Fetching(k)' \/ k \in DOMAIN c.res
    BY <1>1, <1>3, <1>5 DEF Fetching, RecordRequest
  <2>3. \A k \in DOMAIN c.res : Due(k, c.res[k]) \/ Undone(k) \/ Excused(k)
    BY <1>1, <1>3, <1>5 DEF RecordCurrent, ReadCurrent, ScopesSent, RecordRequest
  <2>4. \A k \in Fields[page] : ui'.shown[k] = IF k \in DOMAIN c.res THEN c.res[k] ELSE ui.shown[k]
    BY <1>3, <2>1 DEF Over
  <2>5. \A k, v : Due(k, v) \/ Excused(k) => Due(k, v)' \/ Excused(k)'
    BY <1>2, SameData
  <2>6. ReadCurrent'
    <3>1. ASSUME NEW d \in calls', d.op = "read", d.st \in {"half", "ok"}, NEW k \in DOMAIN d.res
          PROVE  Due(k, d.res[k])' \/ Undone(k)' \/ Excused(k)'
      <4>1. PICK v : v = d.res[k]
        OBVIOUS
      <4>2. Due(k, v) \/ Undone(k) \/ Excused(k)
        BY <1>1, <3>1, <4>1 DEF RecordCurrent, ReadCurrent
      <4>3. Due(k, v)' \/ Undone(k)' \/ Excused(k)'
        BY <1>4, <2>5, <4>2
      <4> QED BY <4>1, <4>3
    <3> QED BY <3>1 DEF ReadCurrent
  <2>7. ScopesSent'
    <3>1. ASSUME NEW d \in calls', d.op = "scopes", d.st = "ok"
          PROVE  Due("scopes", d.body["scopes"])' \/ Excused("scopes")'
      <4>1. PICK v : v = d.body["scopes"]
        OBVIOUS
      <4>2. Due("scopes", v) \/ Excused("scopes")
        BY <1>1, <3>1, <4>1 DEF RecordCurrent, ScopesSent
      <4>3. Due("scopes", v)' \/ Excused("scopes")'
        BY <2>5, <4>2
      <4> QED BY <4>1, <4>3
    <3> QED BY <3>1 DEF ScopesSent
  <2>8. ShownDue'
    <3>1. ASSUME NEW k \in Fields[page]
          PROVE  Due(k, ui.shown[k])' \/ Undone(k)' \/ Fetching(k)' \/ Excused(k)'
      <4>1. PICK v : v = IF k \in DOMAIN c.res THEN c.res[k] ELSE ui.shown[k]
        OBVIOUS
      <4>2. Due(k, v) \/ Undone(k) \/ Fetching(k)' \/ Excused(k)
        BY <2>2, <2>3, <4>1 DEF RecordCurrent, ShownDue
      <4>3. Due(k, v)' \/ Undone(k)' \/ Fetching(k)' \/ Excused(k)'
        BY <1>4, <2>5, <4>2
      <4>4. v = ui'.shown[k]
        BY <2>4, <4>1
      <4>5. Due(k, v)' => Due(k, ui.shown[k])'
        BY <4>4 DEF Due
      <4> QED BY <4>3, <4>5
    <3> QED BY <3>1 DEF ShownDue
  <2> QED BY <2>6, <2>7, <2>8 DEF RecordCurrent
<1>6. CASE c.st = "failed"
  <2>1. c.op = "scopes"
    BY <1>1, <1>2, <1>6 DEF RecordKnown, ReadsMarked
  <2>2. \A k : Fetching(k) => Fetching(k)'
    BY <1>1, <1>6, <2>1 DEF Fetching
  <2>3. ui'.shown = ui.shown /\ calls' \subseteq calls
    BY <1>1, <1>6 DEF Holds
  <2> QED BY <1>2, <1>4, <2>2, <2>3, RecordSame
<1> QED BY <1>1, <1>5, <1>6

LEMMA RecordHeardCurrent ==
  ASSUME RecordKnown, RecordHeard, RecordCurrent, marks' \subseteq {"blind", "misled"}, page' = page
  PROVE  RecordCurrent'
<1>1. PICK c \in calls :
        /\ c.op \in {"put", "assign"}
        /\ \/ c.st = "failed" /\ calls' = calls \ {c}
           \/ /\ c.st = "ok"
              /\ \E d : /\ New(d, calls \ {c}) /\ calls' = (calls \ {c}) \cup {d}
                        /\ d.op = "read" /\ d.body = Fields[page] /\ d.fn # "createClient"
  BY DEF RecordHeard
<1>2. db' = db /\ ui'.shown = ui.shown /\ ~Overlap(calls') /\ marks \subseteq marks'
  BY DEF RecordHeard, Waits, Holds
<1>3. CASE c.st = "failed" /\ calls' = calls \ {c}
  <2>1. /\ \A k : Undone(k) => Undone(k)'
        /\ \A k : Fetching(k) => Fetching(k)'
    BY <1>1, <1>3 DEF Undone, Fetching
  <2> QED BY <1>2, <1>3, <2>1, RecordSame
<1>4. ASSUME NEW d, New(d, calls \ {c}), calls' = (calls \ {c}) \cup {d},
             d.op = "read", d.body = Fields[page], d.fn # "createClient"
      PROVE  RecordCurrent'
  <2>1. d \notin calls \ {c} /\ d.st = "sent"
    BY <1>4 DEF New
  <2>2. ASSUME NEW e \in calls \ {c}, e.op = "read"
        PROVE  e.body = {}
    <3>1. e.fn # "createClient" /\ e.body \subseteq d.body
      BY <1>4, <2>2 DEF RecordKnown, RecordKinds, RecordTypes, RecordRequest
    <3>2. e \in calls' /\ d \in calls' /\ e # d
      BY <1>4, <2>1
    <3>3. e.body \cap d.body = {}
      BY <1>2, <1>4, <2>2, <3>1, <3>2, ReadsApart
    <3> QED BY <3>1, <3>3
  <2>3. ReadCurrent'
    <3>1. ASSUME NEW e \in calls', e.op = "read", e.st \in {"half", "ok"}, NEW k \in DOMAIN e.res
          PROVE  FALSE
      <4>1. e \in calls \ {c}
        BY <1>4, <2>1, <3>1
      <4>2. e.body = {} /\ DOMAIN e.res = Part(e)
        BY <2>2, <3>1, <4>1 DEF RecordKnown, RecordTypes, IsAnswer
      <4> QED BY <3>1, <4>2 DEF Part
    <3> QED BY <3>1 DEF ReadCurrent
  <2>4. ScopesSent'
    <3>1. ASSUME NEW e \in calls', e.op = "scopes", e.st = "ok"
          PROVE  Due("scopes", e.body["scopes"])' \/ Excused("scopes")'
      <4>1. PICK v : v = e.body["scopes"]
        OBVIOUS
      <4>2. Due("scopes", v) \/ Excused("scopes")
        BY <1>4, <3>1, <4>1 DEF RecordCurrent, ScopesSent
      <4>3. Due("scopes", v)' \/ Excused("scopes")'
        BY <1>2, <4>2, SameData
      <4> QED BY <4>1, <4>3
    <3> QED BY <3>1 DEF ScopesSent
  <2>5. \A k \in Fields[page] : Fetching(k)'
    BY <1>4 DEF Fetching
  <2> QED BY <2>3, <2>4, <2>5 DEF RecordCurrent, ShownDue
<1> QED BY <1>1, <1>3, <1>4

LEMMA DashboardCurrent ==
  ASSUME RecordKnown, page = "admin-dashboard", DashboardLoaded, RecordCurrent, marks' \subseteq {"blind", "misled"},
         page' = page
  PROVE  RecordCurrent'
<1>1. /\ db' = db /\ calls' = {} /\ marks \subseteq marks'
      /\ \/ \E c, d \in calls : c.st = "ok" /\ d.st = "ok" /\ c # d /\ ui'.shown = Over(c.res, d.res)
         \/ \E c \in calls : c.st = "failed"
  BY DEF DashboardLoaded, Waits
<1>2. \A c \in calls : c.op = "read" /\ c.st # "failed"
  BY <1>1 DEF RecordKnown, RecordKinds, ReadsMarked
<1>3. PICK c \in calls, d \in calls : c.st = "ok" /\ d.st = "ok" /\ c # d /\ ui'.shown = Over(c.res, d.res)
  BY <1>1, <1>2
<1>4. /\ c.body # d.body /\ DOMAIN c.res = c.body /\ DOMAIN d.res = d.body
      /\ c.body \in {{"health"}, {"stats"}} /\ d.body \in {{"health"}, {"stats"}}
  BY <1>2, <1>3 DEF RecordKnown, RecordTypes, RecordRequest, IsAnswer, Part
<1>5. Fields[page] = c.body \cup d.body /\ "scopes" \notin Fields[page]
  BY <1>4, FieldsAre
<1>6. /\ \A k \in c.body : c.res[k] = db.data[k]
      /\ \A k \in d.body : d.res[k] = db.data[k]
  <2>1. ASSUME NEW e \in calls, e.st = "ok", DOMAIN e.res = e.body, NEW k \in e.body, k # "scopes"
        PROVE  e.res[k] = db.data[k]
    BY <1>2, <2>1 DEF RecordCurrent, ReadCurrent, Undone, Due, Excused
  <2> QED BY <1>3, <1>4, <1>5, <2>1
<1>7. \A k \in Fields[page] : ui'.shown[k] = db'.data[k] /\ k # "scopes"
  BY <1>1, <1>3, <1>4, <1>5, <1>6 DEF Over
<1>8. ShownDue'
  BY <1>7 DEF ShownDue, Due
<1> QED BY <1>1, <1>8 DEF RecordCurrent, ReadCurrent, ScopesSent

LEMMA RecordCurrentKept ==
  ASSUME RecordKnown, RecordStep, marks \subseteq {"blind", "misled"} => RecordCurrent, marks' \subseteq {"blind", "misled"},
         page' = page
  PROVE  RecordCurrent'
<1>1. RecordCurrent
  BY RecordMarksGrow
<1>2. CASE RecordServed
  BY <1>1, <1>2, RecordServedCurrent
<1>3. CASE TheirRolesServed
  BY <1>1, <1>3, RolesServedCurrent
<1>4. CASE RecordElsewhere
  BY <1>4 DEF RecordElsewhere
<1>5. CASE RecordTyped \/ RecordEdited
  <2>1. db' = db /\ calls' = calls /\ ui'.shown = ui.shown
    BY <1>5 DEF RecordTyped, RecordEdited, Holds
  <2>2. /\ \A k : Undone(k) => Undone(k)'
        /\ \A k : Fetching(k) => Fetching(k)'
    BY <2>1 DEF Undone, Fetching
  <2> QED BY <1>1, <2>1, <2>2, RecordMarksGrow, RecordSame
<1>6. CASE RecordAsked \/ RecordSaved
  <2>1. PICK d : New(d, calls) /\ calls' = calls \cup {d} /\ d.op # "read"
    BY <1>6 DEF RecordAsked, RecordSaved
  <2>2. db' = db /\ ui'.shown = ui.shown /\ d.st = "sent"
    BY <1>6, <2>1 DEF RecordAsked, RecordSaved, Waits, Holds, New
  <2>3. /\ \A k : Undone(k) => Undone(k)'
        /\ \A k : Fetching(k) => Fetching(k)'
    BY <2>1 DEF Undone, Fetching
  <2> QED BY <1>1, <2>1, <2>2, <2>3, RecordMarksGrow, RecordSame
<1>7. CASE RecordLoaded
  BY <1>1, <1>7, RecordLoadedCurrent
<1>8. CASE RecordHeard
  BY <1>1, <1>8, RecordHeardCurrent
<1>9. CASE RecordRevealed
  <2>1. PICK c \in calls : c.op \in {"reset", "mail"} /\ calls' = calls \ {c}
    BY <1>9 DEF RecordRevealed
  <2>2. db' = db /\ ui'.shown = ui.shown
    BY <1>9 DEF RecordRevealed, Waits, Holds
  <2>3. /\ \A k : Undone(k) => Undone(k)'
        /\ \A k : Fetching(k) => Fetching(k)'
    BY <2>1 DEF Undone, Fetching
  <2> QED BY <1>1, <2>1, <2>2, <2>3, RecordMarksGrow, RecordSame
<1>10. CASE page = "admin-dashboard" /\ DashboardLoaded
  BY <1>1, <1>10, DashboardCurrent
<1>11. CASE RecordCommitted
  BY <1>1, <1>11, RecordCommittedCurrent
<1> QED BY <1>2, <1>3, <1>4, <1>5, <1>6, <1>7, <1>8, <1>9, <1>10, <1>11 DEF RecordStep

LEMMA OneReset ==
  ASSUME NEW cs, ~Overlap(cs), NEW c \in cs, NEW d \in cs, c.op = "reset", d.op = "reset"
  PROVE  c = d
BY OneReveals DEF Reveals

LEMMA ThisSecretKept ==
  ASSUME RecordKnown, page = "application-detail", RecordStep,
         marks \cap {"overlap", "lost", "other"} = {} => ThisSecretCurrent,
         marks' \cap {"overlap", "lost", "other"} = {}
  PROVE  ThisSecretCurrent'
<1>1. ThisSecretCurrent /\ ~Overlap(calls)
  BY RecordMarksGrow DEF RecordKnown, OverlapMarked
<1>2. CASE RecordServed
  <2>1. PICK c \in calls : \E e :
          /\ Turns(e, c) /\ c.st \in {"sent", "half"} /\ marks \subseteq marks'
          /\ db'.secret = db.secret \/ (c.op = "reset" /\ (e.st = "ok" \/ "lost" \in marks'))
          /\ c.op = "reset" /\ e.st = "ok" => e.res.of = "this" /\ e.res.n = db'.secret["this"]
    BY <1>2 DEF RecordServed
  <2>2. PICK e :
          /\ Turns(e, c) /\ c.st \in {"sent", "half"}
          /\ db'.secret = db.secret \/ (c.op = "reset" /\ e.st = "ok")
          /\ c.op = "reset" /\ e.st = "ok" => e.res.of = "this" /\ e.res.n = db'.secret["this"]
    BY <2>1
  <2>3. calls' = (calls \ {c}) \cup {e} /\ e.op = c.op /\ e.fn = c.fn /\ ui' = ui
    BY <1>2, <2>2 DEF Turns, Answers, RecordServed
  <2>4. SecretTold => SecretTold'
    BY <2>2, <2>3 DEF SecretTold, Reveals
  <2>5. CASE c.op = "reset" /\ e.st = "ok"
    <3>1. SecretTold'
      BY <2>3, <2>5 DEF SecretTold, Reveals
    <3>2. \A d \in calls' : d.op = "reset" => d = e
      BY <1>1, <2>3, <2>5, OneReset
    <3> QED BY <1>1, <2>2, <2>3, <2>5, <3>1, <3>2 DEF ThisSecretCurrent
  <2>6. CASE ~(c.op = "reset" /\ e.st = "ok")
    <3>1. db'.secret = db.secret
      BY <2>2, <2>6
    <3> QED BY <1>1, <2>3, <2>4, <2>6, <3>1 DEF ThisSecretCurrent
  <2> QED BY <2>5, <2>6
<1>3. CASE TheirRolesServed
  <2>1. PICK c \in calls : c.op = "assign"
    BY <1>3 DEF TheirRolesServed
  <2> QED BY <2>1 DEF RecordKnown, RecordKinds
<1>4. CASE RecordElsewhere
  BY <1>4 DEF RecordElsewhere
<1>5. CASE RecordTyped
  BY <1>1, <1>5 DEF RecordTyped, SecretHeld, ThisSecretCurrent, SecretTold
<1>6. CASE RecordEdited
  BY <1>1, <1>6 DEF RecordEdited, SecretHeld, ThisSecretCurrent, SecretTold
<1>7. CASE RecordAsked \/ RecordSaved
  <2>1. PICK d : New(d, calls) /\ calls' = calls \cup {d}
    BY <1>7 DEF RecordAsked, RecordSaved
  <2>2. db' = db /\ ui'.secret = ui.secret /\ d.st = "sent"
    BY <1>7, <2>1 DEF RecordAsked, RecordSaved, Waits, SecretHeld, New
  <2> QED BY <1>1, <2>1, <2>2 DEF ThisSecretCurrent, SecretTold
<1>8. CASE RecordLoaded
  <2>1. PICK c \in calls : c.op \in {"read", "scopes"} /\ calls' = calls \ {c}
    BY <1>8 DEF RecordLoaded
  <2>2. db' = db /\ ui'.secret = ui.secret /\ ~Reveals(c)
    BY <1>8, <2>1 DEF RecordLoaded, Waits, SecretHeld, Reveals, RecordKnown, RecordKinds
  <2> QED BY <1>1, <2>1, <2>2 DEF ThisSecretCurrent, SecretTold
<1>9. CASE RecordHeard
  <2>1. PICK c \in calls :
          /\ c.op \in {"put", "assign"}
          /\ \/ calls' = calls \ {c}
             \/ \E d : calls' = (calls \ {c}) \cup {d} /\ d.op = "read" /\ d.fn # "createClient"
    BY <1>9 DEF RecordHeard
  <2>2. db' = db /\ ui'.secret = ui.secret /\ ~Reveals(c)
    BY <1>9, <2>1 DEF RecordHeard, Waits, SecretHeld, Reveals, RecordKnown, RecordKinds
  <2>3. (SecretTold => SecretTold') /\ \A d \in calls' : d.op = "reset" => d \in calls
    BY <2>1, <2>2 DEF SecretTold
  <2> QED BY <1>1, <2>2, <2>3 DEF ThisSecretCurrent
<1>10. CASE RecordRevealed
  <2>1. PICK c \in calls :
          /\ c.op \in {"reset", "mail"} /\ c.st \in {"ok", "failed"} /\ calls' = calls \ {c}
          /\ \/ c.op = "reset" /\ c.st = "ok" /\ ui'.secret = c.res
             \/ (c.op = "reset" => c.st = "failed") /\ SecretHeld
    BY <1>10 DEF RecordRevealed
  <2>2. db' = db
    BY <1>10 DEF RecordRevealed, Waits
  <2>3. CASE c.op = "reset" /\ c.st = "ok" /\ ui'.secret = c.res
    BY <1>1, <2>1, <2>2, <2>3 DEF ThisSecretCurrent
  <2>4. CASE (c.op = "reset" => c.st = "failed") /\ SecretHeld
    <3>1. ~(Reveals(c) /\ c.st = "ok")
      BY <2>1, <2>4 DEF Reveals, RecordKnown, RecordKinds
    <3>2. SecretTold => SecretTold'
      BY <2>1, <3>1 DEF SecretTold
    <3> QED BY <1>1, <2>1, <2>2, <2>4, <3>2 DEF SecretHeld, ThisSecretCurrent
  <2> QED BY <2>1, <2>3, <2>4
<1>11. CASE RecordCommitted
  BY <1>1, <1>11 DEF RecordCommitted, ThisSecretCurrent, SecretTold
<1> QED BY <1>2, <1>3, <1>4, <1>5, <1>6, <1>7, <1>8, <1>9, <1>10, <1>11, FieldsAre DEF RecordStep

LEMMA TheirRolesKept ==
  ASSUME RecordKnown, page = "user-detail", RecordStep,
         marks \cap {"lost", "other"} = {} => TheirRolesTold,
         marks' \cap {"lost", "other"} = {}
  PROVE  TheirRolesTold'
<1>1. TheirRolesTold /\ marks \subseteq marks'
  BY RecordMarksGrow
<1>2. /\ \A c, d \in calls : c.op = "assign" /\ d.op = "assign" => c = d
      /\ \A c \in calls : RecordRequest(c.op, c.body) /\ c.op # "scopes"
      /\ db.pending = {}
  BY DEF RecordKnown, RecordTypes, RecordKinds
<1>3. \A has, said : Given(has, said, marks) => Given(has, said, marks')
  BY <1>1, GivenStays
<1>4. ASSUME db'.data["roles"] = db.data["roles"], meant' = meant,
             \A d \in calls' : d.op = "assign" /\ d.st \in {"half", "ok"} => d \in calls,
             \A d \in calls : d.op = "assign" => d \in calls'
      PROVE  TheirRolesTold'
  BY <1>1, <1>3, <1>4 DEF TheirRolesTold
<1>5. CASE RecordServed
  <2>1. PICK c \in calls : \E e :
          /\ Turns(e, c) /\ c.op # "assign"
          /\ \/ db'.data = db.data
             \/ /\ c.op = "put"
                /\ \A k \in Fields[page] : db'.data[k] = IF k \in DOMAIN c.body THEN c.body[k] ELSE db.data[k]
    BY <1>5 DEF RecordServed
  <2>2. PICK e : Turns(e, c)
    BY <2>1
  <2>3. calls' = (calls \ {c}) \cup {e} /\ e.op = c.op /\ meant' = meant
    BY <1>5, <2>2 DEF Turns, Answers, RecordServed
  <2>4. db'.data["roles"] = db.data["roles"]
    BY <1>2, <2>1, FieldsAre DEF RecordRequest, Sendable
  <2> QED BY <1>4, <2>1, <2>3, <2>4
<1>6. CASE TheirRolesServed
  <2>1. PICK c \in calls : \E e :
          Turns(e, c) /\ c.op = "assign" /\ RolesGo(c, e, db.data["roles"], db'.data["roles"])
    BY <1>6 DEF TheirRolesServed
  <2>2. PICK e :
          Turns(e, c) /\ c.op = "assign" /\ RolesGo(c, e, db.data["roles"], db'.data["roles"])
    BY <2>1
  <2>3. calls' = (calls \ {c}) \cup {e} /\ e.op = c.op /\ e.body = c.body /\ meant' = meant
    BY <1>6, <2>2 DEF Turns, Answers, TheirRolesServed
  <2>4. \A d \in calls' : d.op = "assign" => d = e
    BY <1>2, <2>2, <2>3
  <2> DEFINE has == db.data["roles"]
             gets == db'.data["roles"]
  <2>5. /\ e.st = "half" =>
             e.res \subseteq e.body.val /\ Given(gets, (e.body.val \ e.res) \cap RoleNames, marks')
        /\ e.st = "ok" => Given(gets, e.body.val \cap RoleNames, marks')
        /\ e.st \in {"half", "ok"} \/ (c.st = "sent" /\ gets = has)
    <3>1. RolesGo(c, e, has, gets) /\ "lost" \notin marks'
      BY <2>2
    <3>2. c.st = "half" =>
            c.res \subseteq c.body.val /\ Given(has, (c.body.val \ c.res) \cap RoleNames, marks)
      BY <1>1, <2>2 DEF TheirRolesTold
    <3> HIDE DEF has, gets
    <3> QED BY <1>1, <2>3, <3>1, <3>2, RolesGoOn
  <2>6. \A said \in meant : Given(gets, said, marks') \/ e.st \in {"half", "ok"}
    <3> SUFFICES ASSUME NEW said \in meant, e.st \notin {"half", "ok"}
                 PROVE  Given(gets, said, marks')
      OBVIOUS
    <3>1. gets = has /\ c.st = "sent"
      BY <2>5
    <3>2. Given(has, said, marks)
      BY <1>1, <1>2, <2>2, <3>1 DEF TheirRolesTold
    <3> QED BY <1>3, <3>1, <3>2
  <2> HIDE DEF has, gets
  <2>7. /\ \A d \in calls' : d.op = "assign" /\ d.st = "half" =>
             d.res \subseteq d.body.val /\ Given(gets, (d.body.val \ d.res) \cap RoleNames, marks')
        /\ \A d \in calls' : d.op = "assign" /\ d.st = "ok" =>
             Given(gets, d.body.val \cap RoleNames, marks')
    BY <2>4, <2>5
  <2>8. \A said \in meant' : \/ Given(gets, said, marks')
                             \/ \E d \in calls' : d.op = "assign" /\ d.st \in {"half", "ok"}
    BY <2>2, <2>3, <2>6
  <2> QED BY <2>7, <2>8 DEF TheirRolesTold, gets
<1>7. CASE RecordElsewhere
  BY <1>7 DEF RecordElsewhere
<1>8. CASE RecordTyped \/ RecordEdited
  BY <1>4, <1>8 DEF RecordTyped, RecordEdited
<1>9. CASE RecordAsked \/ RecordSaved
  <2>1. PICK d : New(d, calls) /\ calls' = calls \cup {d}
    BY <1>9 DEF RecordAsked, RecordSaved
  <2>2. db' = db /\ meant' = meant /\ d.st = "sent"
    BY <1>9, <2>1 DEF RecordAsked, RecordSaved, Waits, New
  <2> QED BY <1>4, <2>1, <2>2
<1>10. CASE RecordLoaded
  <2>1. PICK c \in calls : c.op # "assign" /\ calls' = calls \ {c}
    BY <1>10 DEF RecordLoaded
  <2>2. db' = db /\ meant' = meant
    BY <1>10 DEF RecordLoaded, Waits
  <2> QED BY <1>4, <2>1, <2>2
<1>11. CASE RecordHeard
  <2>1. PICK c \in calls :
          /\ meant' = IF c.op = "assign" /\ c.st = "ok" THEN {c.body.val} ELSE meant
          /\ \/ calls' = calls \ {c}
             \/ \E d : calls' = (calls \ {c}) \cup {d} /\ d.op = "read"
          /\ c.st \in {"ok", "failed"}
    BY <1>11 DEF RecordHeard
  <2>2. db' = db
    BY <1>11 DEF RecordHeard, Waits
  <2>3. (\A d \in calls' : d.op = "assign" => d \in calls) /\ calls \ {c} \subseteq calls'
    BY <2>1
  <2>4. \A said \in meant' : \/ Given(db.data["roles"], said, marks)
                             \/ \E d \in calls' : d.op = "assign" /\ d.st \in {"half", "ok"}
    <3>1. CASE c.op = "assign" /\ c.st = "ok"
      <4>1. c.body.val \cap RoleNames = c.body.val
        BY <1>2, <3>1 DEF RecordRequest
      <4> QED BY <1>1, <2>1, <3>1, <4>1 DEF TheirRolesTold
    <3>2. CASE ~(c.op = "assign" /\ c.st = "ok")
      BY <1>1, <2>1, <2>3, <3>2 DEF TheirRolesTold
    <3> QED BY <3>1, <3>2
  <2>5. /\ \A d \in calls' : d.op = "assign" /\ d.st = "half" =>
             d.res \subseteq d.body.val
             /\ Given(db'.data["roles"], (d.body.val \ d.res) \cap RoleNames, marks')
        /\ \A d \in calls' : d.op = "assign" /\ d.st = "ok" =>
             Given(db'.data["roles"], d.body.val \cap RoleNames, marks')
    BY <1>1, <1>3, <2>2, <2>3 DEF TheirRolesTold
  <2>6. \A said \in meant' : \/ Given(db'.data["roles"], said, marks')
                             \/ \E d \in calls' : d.op = "assign" /\ d.st \in {"half", "ok"}
    BY <1>3, <2>2, <2>4
  <2> QED BY <2>5, <2>6 DEF TheirRolesTold
<1>12. CASE RecordRevealed
  <2>1. PICK c \in calls : c.op # "assign" /\ calls' = calls \ {c}
    BY <1>12 DEF RecordRevealed
  <2>2. db' = db /\ meant' = meant
    BY <1>12 DEF RecordRevealed, Waits
  <2> QED BY <1>4, <2>1, <2>2
<1>13. CASE RecordCommitted
  BY <1>2, <1>13 DEF RecordCommitted
<1> QED BY <1>5, <1>6, <1>7, <1>8, <1>9, <1>10, <1>11, <1>12, <1>13 DEF RecordStep

LEMMA FormFieldsAre ==
  ASSUME page' = page
  PROVE  /\ FormFields' = FormFields /\ FormFields \subseteq {"email", "verified", "name", "uris"}
         /\ page = "admin-dashboard" => FormFields = {}
BY DEF FormFields

LEMMA UntouchedStays ==
  ASSUME NEW k, ui'.draft[k] = ui.draft[k], ui'.shown[k] = ui.shown[k], Untouched(k)
  PROVE  Untouched(k)'
BY DEF Untouched

LEMMA EditsStayKept ==
  ASSUME RecordKnown, RecordStep, "blind" \notin marks => EditsKept, "blind" \notin marks', page' = page
  PROVE  EditsKept'
<1>1. EditsKept
  BY RecordMarksGrow
<1>2. /\ FormFields' = FormFields /\ FormFields \subseteq {"email", "verified", "name", "uris"}
      /\ page = "admin-dashboard" => FormFields = {}
  BY FormFieldsAre
<1>3. /\ IsForm(ui.draft) /\ DOMAIN ui.shown = Fields[page] /\ DOMAIN others \subseteq Fields[page]
      /\ \A c \in calls : RecordRequest(c.op, c.body)
  BY DEF RecordKnown, RecordTypes, IsShown
<1>4. ASSUME \A k \in DOMAIN others' : 
               k \in DOMAIN others /\ others'[k] = others[k] /\ db'.data[k] = db.data[k],
             \A k \in DOMAIN others' : Untouched(k)',
             \A c \in calls' : c.op = "put" => \/ \E d \in calls : d.op = "put" /\ d.body = c.body
                                               \/ \A k \in DOMAIN others : k \notin DOMAIN c.body
      PROVE  EditsKept'
  BY <1>1, <1>2, <1>4 DEF EditsKept
<1>5. CASE RecordServed
  <2>1. PICK c \in calls : \E e :
          /\ Turns(e, c)
          /\ \/ db'.data = db.data
             \/ /\ c.op = "put"
                /\ \A k \in Fields[page] : db'.data[k] = IF k \in DOMAIN c.body THEN c.body[k] ELSE db.data[k]
    BY <1>5 DEF RecordServed
  <2>2. PICK e : Turns(e, c)
    BY <2>1
  <2>3. calls' = (calls \ {c}) \cup {e} /\ e.op = c.op /\ e.body = c.body /\ ui' = ui /\ others' = others
    BY <1>5, <2>2 DEF Turns, Answers, RecordServed
  <2>4. \A k \in DOMAIN others : c.op = "put" => k \notin DOMAIN c.body
    BY <1>1 DEF EditsKept
  <2>5. \A k \in DOMAIN others : db'.data[k] = db.data[k]
    BY <1>3, <2>1, <2>4
  <2>6. \A k \in DOMAIN others' : Untouched(k)'
    BY <1>1, <2>3 DEF EditsKept, Untouched
  <2> QED BY <1>4, <2>3, <2>5, <2>6
<1>6. CASE TheirRolesServed
  <2>1. PICK c \in calls : \E e :
          Turns(e, c) /\ \A k \in Fields[page] \ {"roles"} : db'.data[k] = db.data[k]
    BY <1>6 DEF TheirRolesServed
  <2>2. PICK e : Turns(e, c)
    BY <2>1
  <2>3. calls' = (calls \ {c}) \cup {e} /\ e.op = c.op /\ e.body = c.body /\ ui' = ui /\ others' = others
    BY <1>6, <2>2 DEF Turns, Answers, TheirRolesServed
  <2>4. \A k \in DOMAIN others : db'.data[k] = db.data[k]
    BY <1>1, <1>2, <1>3, <2>1 DEF EditsKept
  <2>5. \A k \in DOMAIN others' : Untouched(k)'
    BY <1>1, <2>3 DEF EditsKept, Untouched
  <2> QED BY <1>4, <2>3, <2>4, <2>5
<1>7. CASE RecordElsewhere
  <2>1. PICK k \in Fields[page] :
          /\ \A j \in Fields[page] \ {k} : db'.data[j] = db.data[j]
          /\ \/ /\ \/ k \notin FormFields
                   \/ ~Untouched(k)
                   \/ \E c \in calls : c.op = "put" /\ k \in DOMAIN c.body
                /\ others' = others
             \/ /\ k \in FormFields /\ Untouched(k)
                /\ \A c \in calls : c.op = "put" => k \notin DOMAIN c.body
                /\ others' = Over([j \in {k} |-> db'.data[k]], others)
    BY <1>7 DEF RecordElsewhere
  <2>2. calls' = calls /\ ui' = ui
    BY <1>7 DEF RecordElsewhere
  <2>3. CASE k \notin DOMAIN others /\ others' = others
    <3>1. \A j \in DOMAIN others' : Untouched(j)'
      BY <1>1, <2>2, <2>3 DEF EditsKept, Untouched
    <3> QED BY <1>3, <1>4, <2>1, <2>2, <2>3, <3>1
  <2>4. CASE /\ k \in FormFields /\ Untouched(k)
             /\ \A c \in calls : c.op = "put" => k \notin DOMAIN c.body
             /\ others' = Over([j \in {k} |-> db'.data[k]], others)
    <3>1. /\ DOMAIN others' = DOMAIN others \cup {k}
          /\ others'[k] = db'.data[k]
          /\ \A j \in DOMAIN others \ {k} : others'[j] = others[j] /\ db'.data[j] = db.data[j]
      BY <1>3, <2>1, <2>4 DEF Over
    <3>2. \A j \in DOMAIN others' : Untouched(j)'
      BY <1>1, <2>2, <2>4, <3>1 DEF EditsKept, Untouched
    <3> QED BY <1>1, <1>2, <2>2, <2>4, <3>1, <3>2 DEF EditsKept
  <2> QED BY <1>1, <2>1, <2>3, <2>4 DEF EditsKept
<1>8. CASE RecordTyped
  <2>1. \A k \in DOMAIN others' : Untouched(k)'
    BY <1>1, <1>8 DEF RecordTyped, Holds, EditsKept, Untouched
  <2> QED BY <1>4, <1>8, <2>1 DEF RecordTyped
<1>9. CASE RecordEdited
  <2>1. /\ UNCHANGED <<db, calls>> /\ ui'.shown = ui.shown
        /\ \E k : /\ \A j \in DOMAIN ui.draft \ {k} : ui'.draft[j] = ui.draft[j]
                  /\ others' = [j \in DOMAIN others \ {k} |-> others[j]]
    BY <1>9 DEF RecordEdited
  <2>2. PICK k : /\ \A j \in DOMAIN ui.draft \ {k} : ui'.draft[j] = ui.draft[j]
                 /\ others' = [j \in DOMAIN others \ {k} |-> others[j]]
    BY <2>1
  <2>3. DOMAIN others' = DOMAIN others \ {k} /\ \A j \in DOMAIN others' : others'[j] = others[j]
    BY <2>2
  <2>4. DOMAIN others \subseteq DOMAIN ui.draft
    BY <1>1, <1>2, <1>3 DEF EditsKept, IsForm
  <2>5. \A j \in DOMAIN others' : Untouched(j)'
    BY <1>1, <2>1, <2>2, <2>3, <2>4 DEF EditsKept, Untouched
  <2> QED BY <1>4, <2>1, <2>3, <2>5
<1>10. CASE RecordAsked \/ RecordSaved
  <2>1. PICK d : /\ calls' = calls \cup {d}
                 /\ d.op = "put" => \A k \in DOMAIN d.body : k \notin FormFields \/ ~Untouched(k)
    BY <1>10 DEF RecordAsked, RecordSaved
  <2>2. db' = db /\ others' = others /\ ui'.shown = ui.shown /\ ui'.draft = ui.draft
    BY <1>10 DEF RecordAsked, RecordSaved, Waits, Holds
  <2>3. \A k \in DOMAIN others' : Untouched(k)'
    BY <1>1, <2>2 DEF EditsKept, Untouched
  <2>4. d.op = "put" => \A k \in DOMAIN others : k \notin DOMAIN d.body
    BY <1>1, <2>1 DEF EditsKept
  <2> QED BY <1>4, <2>1, <2>2, <2>3, <2>4
<1>11. CASE RecordLoaded
  <2>1. PICK c \in calls :
          /\ c.op \in {"read", "scopes"} /\ calls' = calls \ {c}
          /\ \/ /\ c.st = "ok"
                /\ ui'.shown = Over(c.res, ui.shown)
                /\ ui'.draft = Over(Refill(c.res, ui.draft), ui.draft)
             \/ c.st = "failed" /\ Holds
    BY <1>11 DEF RecordLoaded
  <2>2. db' = db /\ others' = others
    BY <1>11 DEF RecordLoaded, Waits
  <2>3. ASSUME NEW k \in DOMAIN others
        PROVE  Untouched(k)'
    <3>1. /\ Untouched(k) /\ k \in {"email", "verified", "name", "uris"} /\ k \in DOMAIN ui.draft
          /\ k \in DOMAIN ui.shown
      BY <1>1, <1>2, <1>3 DEF EditsKept, IsForm
    <3>2. CASE c.st = "ok"
      <4>1. ui'.shown = Over(c.res, ui.shown) /\ ui'.draft = Over(Refill(c.res, ui.draft), ui.draft)
        BY <2>1, <3>2
      <4>2. CASE k \in DOMAIN c.res
        <5>1. c.res[k] \in FieldVals(k)
          BY <2>1, <3>1, <3>2, <4>2 DEF RecordKnown, RecordTypes, IsAnswer, RecordRequest, Part
        <5>2. OrBlank(c.res[k]) = c.res[k]
          BY <3>1, <5>1, FieldValsAre, TidyIs
        <5>3. ui'.shown[k] = c.res[k]
          BY <4>1, <4>2 DEF Over
        <5>4. ui'.draft[k] = Tidy(c.res[k])
          BY <3>1, <4>1, <4>2 DEF Over, Refill
        <5> QED BY <5>2, <5>3, <5>4 DEF Untouched
      <4>3. CASE k \notin DOMAIN c.res
        <5>1. ui'.shown[k] = ui.shown[k] /\ ui'.draft[k] = ui.draft[k]
          BY <3>1, <4>1, <4>3 DEF Over, Refill
        <5> QED BY <3>1, <5>1, UntouchedStays
      <4> QED BY <4>2, <4>3
    <3>3. CASE c.st # "ok"
      BY <2>1, <3>1, <3>3, UntouchedStays DEF Holds
    <3> QED BY <3>2, <3>3
  <2> QED BY <1>4, <2>1, <2>2, <2>3
<1>12. CASE RecordHeard
  <2>1. \A d \in calls' : d.op = "put" => d \in calls
    BY <1>12 DEF RecordHeard
  <2>2. db' = db /\ others' = others /\ ui'.shown = ui.shown /\ ui'.draft = ui.draft
    BY <1>12 DEF RecordHeard, Waits, Holds
  <2>3. \A k \in DOMAIN others' : Untouched(k)'
    BY <1>1, <2>2 DEF EditsKept, Untouched
  <2> QED BY <1>4, <2>1, <2>2, <2>3
<1>13. CASE RecordRevealed
  <2>1. calls' \subseteq calls /\ db' = db /\ others' = others /\ ui'.shown = ui.shown /\ ui'.draft = ui.draft
    BY <1>13 DEF RecordRevealed, Waits, Holds
  <2>2. \A k \in DOMAIN others' : Untouched(k)'
    BY <1>1, <2>1 DEF EditsKept, Untouched
  <2> QED BY <1>4, <2>1, <2>2
<1>14. CASE page = "admin-dashboard" /\ DashboardLoaded
  BY <1>1, <1>2, <1>14 DEF DashboardLoaded, EditsKept
<1>15. CASE RecordCommitted
  <2>1. calls' = calls /\ ui' = ui /\ others' = others
    BY <1>15 DEF RecordCommitted
  <2>2. \A k \in DOMAIN others : db'.data[k] = db.data[k]
    BY <1>1, <1>2, <1>3, <1>15 DEF RecordCommitted, EditsKept
  <2>3. \A k \in DOMAIN others' : Untouched(k)'
    BY <1>1, <2>1 DEF EditsKept, Untouched
  <2> QED BY <1>4, <2>1, <2>2, <2>3
<1> QED BY <1>5, <1>6, <1>7, <1>8, <1>9, <1>10, <1>11, <1>12, <1>13, <1>14, <1>15 DEF RecordStep

(* Every step of these pages keeps this, and it holds when one is mounted.  *)
LEMMA OneAssignInRecord ==
  ASSUME RecordKinds, FlagsFit
  PROVE  \A c, d \in calls : c.op = "assign" /\ d.op = "assign" => c = d
BY DEF RecordKinds, FlagsFit, Lone

LEMMA RecordStepFits ==
  ASSUME PageInv, RecordFit, RecordPagesNext, page' = page
  PROVE  RecordFit'
<1>1. /\ page \in RecordPageNames /\ Base /\ FlagsFit /\ RecordTypes
      /\ ReadsMarked /\ OverlapMarked /\ NoSecret
  BY DEF RecordPagesNext, PageInv, RecordFit
<1>2. RecordStep
  BY <1>1, RecordForms
<1>3. RecordKnown
  BY <1>1, RecordKindsHold, OneAssignInRecord DEF RecordKnown
<1>4. RecordTypes'
  BY <1>2, <1>3, RecordTypesKept
<1>5. marks' \subseteq {"blind", "misled"} => RecordCurrent'
  BY <1>2, <1>3, RecordCurrentKept DEF RecordFit
<1>6. page' = "application-detail" /\ marks' \cap {"overlap", "lost", "other"} = {} => ThisSecretCurrent'
  BY <1>2, <1>3, ThisSecretKept DEF RecordFit
<1>7. page' = "user-detail" /\ marks' \cap {"lost", "other"} = {} => TheirRolesTold'
  BY <1>2, <1>3, TheirRolesKept DEF RecordFit
<1>8. "blind" \notin marks' => EditsKept'
  BY <1>2, <1>3, EditsStayKept DEF RecordFit
<1> QED BY <1>4, <1>5, <1>6, <1>7, <1>8 DEF RecordFit

(* What a page asks for when it is mounted.                                 *)
RecordAwaits ==
  /\ \A c \in calls : c.op = "read" /\ c.st = "sent" /\ c.body \subseteq Fields[page]
  /\ page \in {"user-detail", "application-detail"} => \A c \in calls : c.body = Fields[page]
  /\ page = "admin-dashboard" => \A c \in calls : c.body \in {{"health"}, {"stats"}}
  /\ \A k \in Fields[page] : \E c \in calls : k \in c.body
  /\ \A c, d \in calls : c.body = d.body => c = d

LEMMA OneRecordAwaited ==
  ASSUME page \in RecordPageNames \ {"admin-dashboard"}, NEW fn, Fits(fn, "read", "none"),
         calls = Sent({}, fn, "read", Fields[page], "none")
  PROVE  RecordAwaits
<1>1. PICK d : /\ Awaits(fn, "none", {}, d) /\ calls = {d} /\ d.op = "read" /\ d.body = Fields[page]
  BY OneAwaited
<1> QED BY <1>1 DEF RecordAwaits, Awaits, New

LEMMA TwoRecordsAwaited ==
  ASSUME page \in {"settings", "admin-dashboard"},
         NEW fn, NEW body, NEW fn2, NEW body2, NEW flag, Reading(fn, body, fn2, body2, flag),
         body \cap body2 = {}, body # {}, Fields[page] = body \cup body2,
         page = "admin-dashboard" => body = {"health"} /\ body2 = {"stats"}
  PROVE  RecordAwaits
BY DEF RecordAwaits, Reading, Awaits, New

LEMMA RecordMountedAwaits ==
  ASSUME page \in RecordPageNames, RecordMounted(page)
  PROVE  RecordAwaits
<1>1. CASE page = "user-detail"
  <2>1. Fits("fetchUser", "read", "none")
    BY <1>1 DEF Fits, Asks, FlagFits
  <2> QED BY <1>1, <2>1, OneRecordAwaited DEF RecordMounted
<1>2. CASE page = "application-detail"
  <2>1. Fits("fetchClient", "read", "none")
    BY <1>2 DEF Fits, Asks, FlagFits
  <2> QED BY <1>2, <2>1, OneRecordAwaited DEF RecordMounted
<1>3. CASE page = "profile"
  <2>1. Fits("fetchProfile", "read", "none")
    BY <1>3 DEF Fits, Asks, FlagFits
  <2> QED BY <1>3, <2>1, FieldsAre, OneRecordAwaited DEF RecordMounted
<1>4. CASE page = "settings"
  <2>1. /\ Fits("fetchScopes", "read", "none") /\ "fetchScopes" \in Loaders
        /\ Fits("fetchOidcKeys", "read", "oidcLoading")
    BY <1>4 DEF Fits, Asks, FlagFits, Loaders
  <2>2. calls = Sent(Sent({}, "fetchScopes", "read", {"scopes"}, "none"),
                     "fetchOidcKeys", "read", {"keys"}, "oidcLoading")
    BY <1>4 DEF RecordMounted
  <2>3. /\ DOMAIN ui = UiFields /\ ui.secret = None /\ ui.loading \in BOOLEAN
        /\ ui.busy = {"oidcLoading"} \ {"none"} /\ {"scopes"} \cap {"keys"} = {}
    BY <1>4, FreshFields DEF RecordMounted, UiFields
  <2>4. Reading("fetchScopes", {"scopes"}, "fetchOidcKeys", {"keys"}, "oidcLoading")
    BY <2>1, <2>2, <2>3, TwoStarted
  <2> QED BY <1>4, <2>4, FieldsAre, TwoRecordsAwaited
<1>5. CASE page = "admin-dashboard"
  <2>1. Fits("dashboard", "read", "none") /\ "dashboard" \in Loaders
    BY <1>5 DEF Fits, Asks, FlagFits, Loaders
  <2>2. calls = Sent(Sent({}, "dashboard", "read", {"health"}, "none"),
                     "dashboard", "read", {"stats"}, "none")
    BY <1>5 DEF RecordMounted
  <2>3. /\ DOMAIN ui = UiFields /\ ui.secret = None /\ ui.loading \in BOOLEAN
        /\ ui.busy = {"none"} \ {"none"} /\ {"health"} \cap {"stats"} = {}
    BY <1>5, FreshFields DEF RecordMounted, UiFields
  <2>4. Reading("dashboard", {"health"}, "dashboard", {"stats"}, "none")
    BY <2>1, <2>2, <2>3, TwoStarted
  <2> QED BY <1>5, <2>4, FieldsAre, TwoRecordsAwaited
<1> QED BY <1>1, <1>2, <1>3, <1>4, <1>5, FieldsAre

LEMMA RecordMountedFits ==
  ASSUME page \in RecordPageNames, RecordMounted(page), others = <<>>, meant = {}
  PROVE  RecordFit
<1>1. RecordAwaits
  BY RecordMountedAwaits
<1>2. /\ ui.shown = [k \in Fields[page] |-> None] /\ ui.draft = EmptyForm /\ ui.secret = None
      /\ db \in [data : Records(page), secret : {[a \in {"this"} |-> 0]}, sent : {0}, pending : {{}}]
  BY DEF RecordMounted, Fresh
<1>3. IsData(db.data)
  <2>1. db.data \in Records(page) /\ Plain \in Texts \ {Odd}
    BY <1>2, RecordPagesAssumption
  <2> USE DEF IsFcn
  <2>2. CASE page = "user-detail"
    BY <2>1, <2>2, FieldsAre, FieldValsAre DEF Records, IsData
  <2>3. CASE page = "application-detail"
    BY <2>1, <2>3, FieldsAre, FieldValsAre DEF Records, IsData
  <2>4. CASE page = "settings"
    BY <2>1, <2>4, FieldsAre DEF Records, IsData
  <2>5. CASE page = "admin-dashboard"
    BY <2>1, <2>5, FieldsAre DEF Records, IsData
  <2>6. CASE page = "profile"
    BY <2>1, <2>6, FieldsAre DEF Records, IsData
  <2> QED BY <2>2, <2>3, <2>4, <2>5, <2>6, FieldsAre
<1>4. IsShown(ui.shown)
  BY <1>2, FieldsAre DEF IsShown, IsFcn
<1>5. IsForm(ui.draft)
  BY <1>2, RecordPagesAssumption DEF EmptyForm, IsForm
<1>6. DOMAIN others = {}
  OBVIOUS
<1>7. \A c \in calls : RecordRequest(c.op, c.body)
  BY <1>1 DEF RecordAwaits, RecordRequest
<1>8. DOMAIN db = {"data", "secret", "sent", "pending"} /\ DOMAIN db.secret = {"this"} /\ db.pending = {}
  BY <1>2
<1>9. RecordTypes
  BY <1>1, <1>3, <1>4, <1>5, <1>6, <1>7, <1>8 DEF RecordTypes, RecordAwaits
<1>10. RecordCurrent
  BY <1>1 DEF RecordCurrent, ReadCurrent, ScopesSent, ShownDue, Fetching, RecordAwaits
<1>11. ThisSecretCurrent
  BY <1>1, <1>2 DEF ThisSecretCurrent, RecordAwaits
<1>12. TheirRolesTold
  BY <1>1 DEF TheirRolesTold, RecordAwaits
<1>13. EditsKept
  BY <1>6 DEF EditsKept
<1> QED BY <1>9, <1>10, <1>11, <1>12, <1>13 DEF RecordFit

-----------------------------------------------------------------------------
(* Off the pages that show one thing nothing is kept of others' edits; the  *)
(* pages that submit a form show nothing.                                   *)
LEMMA ListOthersKept ==
  ASSUME PageInv, ListFit, ListPagesNext
  PROVE  others' = others
<1>1. page \in ListPageNames /\ Base /\ FlagsFit /\ ListTypes
  BY DEF ListPagesNext, PageInv, ListFit
<1>2. ListStep
  BY <1>1, ListForms
<1> QED BY <1>2 DEF ListStep, ListServed, RolesServed, ListElsewhere, Typing, ListAsked, ListFetched,
                    ListHeard

LEMMA TokensOthersKept ==
  ASSUME TokensPageNext
  PROVE  others' = others
<1>1. CASE ServeTokens
  BY <1>1 DEF ServeTokens, RevokeOne, RevokeAll, Reply
<1>2. CASE OtherWithTokens
  BY <1>2 DEF OtherWithTokens, Elsewhere
<1>3. CASE \/ FetchTokens \/ ApplyFilters \/ ClearFilters \/ PreviousPage \/ NextPage \/ Revoked
           \/ TypeFilters \/ ExecuteConfirm
  BY <1>3 DEF FetchTokens, ApplyFilters, ClearFilters, PreviousPage, NextPage, Revoked, TypeFilters,
              ExecuteConfirm, At
<1>4. CASE ShowBulkMenu \/ CancelConfirm \/ RevokeToken \/ RevokeByClient \/ RevokeByUser
  BY <1>4 DEF ShowBulkMenu, CancelConfirm, RevokeToken, RevokeByClient, RevokeByUser, ShowConfirm, Type
<1> QED BY <1>1, <1>2, <1>3, <1>4 DEF TokensPageNext

LEMMA SecurityOthersKept ==
  ASSUME SecurityPageNext
  PROVE  others' = others
<1>1. CASE ServeSecurity
  BY <1>1 DEF ServeSecurity, MfaVerifySetup, MfaSetup, MfaDisable, Reply
<1>2. CASE CancelMfaSetup
  BY <1>2 DEF CancelMfaSetup, Type
<1>3. CASE \/ FetchSecurityProfile \/ ChangePassword \/ SetupMfa \/ VerifyMfaSetup
           \/ DisableMfa \/ FetchWebauthnCredentials \/ RegisterPasskey
  BY <1>3 DEF FetchSecurityProfile, ChangePassword, SetupMfa, VerifyMfaSetup, DisableMfa,
              FetchWebauthnCredentials, RegisterPasskey, At
<1> QED BY <1>1, <1>2, <1>3 DEF SecurityPageNext

LEMMA FormsShowNothing ==
  ASSUME Base, FormPagesNext
  PROVE  ui'.shown = ui.shown /\ others' = others
<1>1. page \in FormPageNames /\ "shown" \in DOMAIN ui
  BY DEF FormPagesNext, FormPageNames, Base, UiFits, UiFields
<1>2. CASE ServeForm
  BY <1>2 DEF ServeForm, Reply
<1>3. CASE TryAgain
  BY <1>1, <1>3 DEF TryAgain, Type
<1>4. ASSUME NEW fn, Submit(fn)
      PROVE  ui'.shown = ui.shown
  BY <1>1, <1>4 DEF Submit, Start, Click, Raise
<1>5. ASSUME NEW fn, NEW good, NEW bad, Submitted(fn, good, bad)
      PROVE  ui'.shown = ui.shown
  BY <1>1, <1>5 DEF Submitted, Resume, Drop
<1>6. CASE HandleRegister \/ HandleSubmit \/ HandleReset \/ HandleVerify
  BY <1>4, <1>5, <1>6 DEF HandleRegister, HandleSubmit, HandleReset, HandleVerify, At
<1>7. CASE VerifyEmail
  BY <1>1, <1>7 DEF VerifyEmail, Resume, At
<1>8. CASE HandleConsent
  <2>1. CASE \E fn \in {"approve", "deny"} : ui.busy = {} /\ Start("loading", fn, "submit", None)
    BY <1>1, <1>8, <2>1 DEF HandleConsent, Start, Click, Raise, At
  <2>2. CASE \E fn \in {"approve", "deny"} : Submitted(fn, "leaving", ui.sel)
    BY <1>5, <1>8, <2>2 DEF HandleConsent, At
  <2> QED BY <1>8, <2>1, <2>2 DEF HandleConsent
<1> QED BY <1>2, <1>3, <1>6, <1>7, <1>8 DEF FormPagesNext

-----------------------------------------------------------------------------
(* The inductive invariant of the data that the pages show.                 *)
DataInv ==
  /\ page \in ListPageNames => ListFit
  /\ page \in RecordPageNames => RecordFit
  /\ page = "tokens" => TokensFit
  /\ page = "security" => SecurityCurrent
  /\ page \in FormPageNames => ui.shown = None
  /\ page \notin RecordPageNames => DOMAIN others = {}

LEMMA PagesApart ==
  /\ ListPageNames \cap RecordPageNames = {} /\ ListPageNames \cap FormPageNames = {}
  /\ RecordPageNames \cap FormPageNames = {}
  /\ {"tokens", "security"} \cap (ListPageNames \cup RecordPageNames \cup FormPageNames) = {}
BY DEF ListPageNames, RecordPageNames, Fields, FormPageNames

LEMMA InitDataInv ==
  ASSUME Init
  PROVE  DataInv
<1>1. DOMAIN others = {}
  BY DEF Init
<1>2. CASE page \in ListPageNames /\ ListMounted(page) /\ meant = [r \in Rows |-> {}]
  BY <1>1, <1>2, PagesApart, ListMountedFits DEF DataInv
<1>3. CASE page \in RecordPageNames /\ RecordMounted(page) /\ meant = {}
  <2>1. others = <<>>
    BY DEF Init
  <2> QED BY <1>3, <2>1, PagesApart, RecordMountedFits DEF DataInv
<1>4. CASE page = "tokens" /\ TokensMounted
  BY <1>1, <1>4, PagesApart, TokensMountedFits DEF DataInv
<1>5. CASE page = "security" /\ SecurityMounted
  BY <1>1, <1>5, PagesApart, SecurityMountedCurrent DEF DataInv
<1>6. CASE page \in FormPageNames /\ FormsMounted(page)
  <2>1. ui.shown = None
    BY <1>6 DEF FormsMounted, Fresh
  <2> QED BY <1>1, <1>6, <2>1, PagesApart DEF DataInv
<1> QED BY <1>2, <1>3, <1>4, <1>5, <1>6 DEF Init

LEMMA NextDataInv ==
  ASSUME PageInv, DataInv, Next
  PROVE  DataInv'
<1>1. page' = page
  BY NextEffect DEF PageInv, Effect
<1>2. CASE ListPagesNext
  <2>1. page \in ListPageNames
    BY <1>2 DEF ListPagesNext
  <2>2. ListFit' /\ others' = others
    BY <1>1, <1>2, <2>1, ListStepFits, ListOthersKept DEF DataInv
  <2> QED BY <1>1, <2>1, <2>2, PagesApart DEF DataInv
<1>3. CASE RecordPagesNext
  <2>1. page \in RecordPageNames
    BY <1>3 DEF RecordPagesNext
  <2>2. RecordFit'
    BY <1>1, <1>3, <2>1, RecordStepFits DEF DataInv
  <2> QED BY <1>1, <2>1, <2>2, PagesApart DEF DataInv
<1>4. CASE TokensPageNext
  <2>1. page = "tokens"
    BY <1>4 DEF TokensPageNext, FetchTokens, ApplyFilters, ClearFilters, PreviousPage, NextPage,
               TypeFilters, ShowBulkMenu, ExecuteConfirm, CancelConfirm, Revoked, RevokeToken,
               RevokeByClient, RevokeByUser, At
  <2>2. TokensFit' /\ others' = others
    BY <1>4, <2>1, TokensStepFits, TokensOthersKept DEF PageInv, DataInv
  <2> QED BY <1>1, <2>1, <2>2, PagesApart DEF DataInv
<1>5. CASE SecurityPageNext
  <2>1. page = "security"
    BY <1>5, SecurityForms DEF PageInv
  <2>2. SecurityCurrent' /\ others' = others
    BY <1>5, <2>1, SecurityStepCurrent, SecurityOthersKept DEF DataInv
  <2> QED BY <1>1, <2>1, <2>2, PagesApart DEF DataInv
<1>6. CASE FormPagesNext
  <2>1. page \in FormPageNames
    BY <1>6 DEF FormPagesNext
  <2>2. ui'.shown = ui.shown /\ others' = others
    BY <1>6, FormsShowNothing DEF PageInv
  <2> QED BY <1>1, <2>1, <2>2, PagesApart DEF DataInv
<1> QED BY <1>2, <1>3, <1>4, <1>5, <1>6 DEF Next

(* What a predicate says of these variables it says of them unchanged.      *)
LEMMA ListStutter ==
  ASSUME ListFit, UNCHANGED <<page, ui, db, calls, marks, meant>>
  PROVE  ListFit'
<1>1. ListTypes'
  BY DEF ListFit, ListTypes, RowSets, Filled, RowVals, RowRequest
<1>2. marks' \subseteq {"blind", "misled"} => ListCurrent'
  BY DEF ListFit, ListCurrent, Stale
<1>3. page' = "applications" /\ marks' \cap {"overlap", "lost", "other"} = {} => SecretCurrent'
  BY DEF ListFit, SecretCurrent, SecretTold, Reveals
<1>4. page' = "users" /\ marks' \cap {"lost", "other"} = {} => RolesTold'
  BY DEF ListFit, RolesTold, Given
<1> QED BY <1>1, <1>2, <1>3, <1>4 DEF ListFit

LEMMA RecordStutter ==
  ASSUME RecordFit, UNCHANGED <<page, ui, db, calls, marks, others, meant>>
  PROVE  RecordFit'
<1>1. RecordTypes'
  BY DEF RecordFit, RecordTypes, IsData, IsShown, IsForm, IsAnswer, Part, RecordRequest, Sendable
<1>2. marks' \subseteq {"blind", "misled"} => RecordCurrent'
  BY DEF RecordFit, RecordCurrent, ReadCurrent, ScopesSent, ShownDue, Due, Excused, Undone, Fetching
<1>3. page' = "application-detail" /\ marks' \cap {"overlap", "lost", "other"} = {} => ThisSecretCurrent'
  BY DEF RecordFit, ThisSecretCurrent, SecretTold, Reveals
<1>4. page' = "user-detail" /\ marks' \cap {"lost", "other"} = {} => TheirRolesTold'
  BY DEF RecordFit, TheirRolesTold, Given
<1>5. "blind" \notin marks' => EditsKept'
  BY DEF RecordFit, EditsKept, FormFields, Untouched
<1> QED BY <1>1, <1>2, <1>3, <1>4, <1>5 DEF RecordFit

LEMMA StutterDataInv ==
  ASSUME DataInv, UNCHANGED vars
  PROVE  DataInv'
<1>1. UNCHANGED <<page, ui, db, calls, marks, others, meant>>
  BY DEF vars
<1>2. page' \in ListPageNames => ListFit'
  BY <1>1, ListStutter DEF DataInv
<1>3. page' \in RecordPageNames => RecordFit'
  BY <1>1, RecordStutter DEF DataInv
<1>4. page' = "tokens" => TokensFit'
  BY <1>1 DEF DataInv, TokensFit, TokensTypes, TokensCurrent, RevokedTold
<1>5. page' = "security" => SecurityCurrent'
  BY <1>1 DEF DataInv, SecurityCurrent, SecurityReads, MfaCurrent, KeysCurrent, MfaTold, KeysTold
<1> QED BY <1>1, <1>2, <1>3, <1>4, <1>5 DEF DataInv

(* Every page, in every behaviour, satisfies both inductive invariants.     *)
THEOREM DataInvariant == Spec => [](PageInv /\ DataInv)
<1>1. Init => PageInv /\ DataInv
  BY InitPageInv, InitDataInv
<1>2. PageInv /\ DataInv /\ [Next]_vars => (PageInv /\ DataInv)'
  BY NextPageInv, StutterPageInv, NextDataInv, StutterDataInv
<1> QED BY <1>1, <1>2, PTL DEF Spec

-----------------------------------------------------------------------------
(* What a page shows is data or nothing, never what a failed fetch left;    *)
(* requests under way are told apart by their numbers.                      *)
THEOREM TypeCorrect == Spec => []TypeOK
<1>1. ASSUME PageInv, DataInv
      PROVE  TypeOK
  <2>1. /\ page \in Pages /\ inputs \in 0..MaxInputs[page] /\ marks \subseteq Marks
        /\ ui.loading \in BOOLEAN
        /\ \A c \in calls : c.id \in 1..(MaxCalls + 1) /\ c.st \in {"sent", "half", "ok", "failed"}
        /\ \A c, d \in calls : c.id = d.id => c = d
    BY <1>1 DEF PageInv, Base, Bounded, UiFits, CallsFit, IsCall
  <2>2. DOMAIN others \subseteq UNION {Fields[p] : p \in RecordPageNames}
    BY <1>1 DEF DataInv, RecordFit, RecordTypes
  <2>3. ShowsData
    <3>1. CASE page \in ListPageNames
      BY <1>1, <3>1, PagesApart DEF DataInv, ListFit, ListTypes, RowSets, ShowsData
    <3>2. CASE page \in RecordPageNames
      BY <1>1, <3>2, PagesApart DEF DataInv, RecordFit, RecordTypes, IsShown, ShowsData
    <3>3. CASE page = "tokens"
      BY <1>1, <3>3, PagesApart DEF DataInv, TokensFit, TokensTypes, ShowsData
    <3>4. CASE page = "security"
      BY <1>1, <3>4, PagesApart DEF PageInv, SecurityFits, SecurityTypes, ShowsData
    <3>5. CASE page \in FormPageNames
      BY <1>1, <3>5, PagesApart DEF DataInv, ShowsData
    <3> QED BY <1>1, <3>1, <3>2, <3>3, <3>4, <3>5 DEF PageInv, KnownPages
  <2> QED BY <2>1, <2>2, <2>3 DEF TypeOK
<1> QED BY <1>1, DataInvariant, PTL

(* When every answer has been read, the page shows what the server holds,   *)
(* though it fetches only what it thinks it has changed, but for the scopes *)
(* of an application once the server has misled the page about them; and a  *)
(* secret shown is the one the application has now, unless the next has     *)
(* been asked for.                                                          *)
THEOREM ShownAlwaysCurrent == Spec => []ShownIsCurrent
<1>1. ASSUME PageInv, DataInv
      PROVE  ShownIsCurrent
  <2>1. ASSUME calls = {}, marks \subseteq {"blind", "misled"}
        PROVE  CASE page \in ListPageNames -> ui.shown = db.data
                 [] page \in RecordPageNames ->
                      db.pending = {} =>
                        \A k \in Fields[page] :
                          ui.shown[k] = db.data[k] \/ (k = "scopes" /\ "misled" \in marks)
                 [] page = "tokens" -> ui.shown = Found(ui.asked, db.live)
                 [] page = "security" -> ui.mfa = db.enabled /\ ui.passkeys = db.passkeys
                 [] OTHER -> TRUE
    <3>1. CASE page \in ListPageNames
      BY <1>1, <2>1, <3>1, PagesApart DEF DataInv, ListFit, ListCurrent, Stale
    <3>2. CASE page \in RecordPageNames
      <4>1. db.pending = {} => \A k \in Fields[page] :
              ui.shown[k] = db.data[k] \/ (k = "scopes" /\ "misled" \in marks)
        BY <1>1, <2>1, <3>2
        DEF DataInv, RecordFit, RecordCurrent, ShownDue, Due, Undone, Fetching, Excused
      <4> QED BY <3>2, <4>1, PagesApart
    <3>3. CASE page = "tokens"
      BY <1>1, <2>1, <3>3, PagesApart DEF DataInv, TokensFit, TokensCurrent, RevokedTold
    <3>4. CASE page = "security"
      BY <1>1, <2>1, <3>4, PagesApart DEF DataInv, SecurityCurrent, MfaCurrent, KeysCurrent, MfaTold, KeysTold
    <3> QED BY <3>1, <3>2, <3>3, <3>4
  <2>2. ASSUME ui.secret # None, marks \cap {"overlap", "lost", "other"} = {},
               ~ \E c \in calls : Shows(c) = {"secret"}
        PROVE  ui.secret.n = db.secret[ui.secret.of]
    <3>1. page \in {"applications", "application-detail"}
      BY <1>1, <2>2 DEF PageInv, NoSecret
    <3>2. CASE page = "applications"
      <4>1. ListKinds
        BY <1>1, <3>2, ListKindsHold DEF PageInv, ListPageNames
      <4>2. \A c \in calls : ~Reveals(c)
        BY <2>2, <4>1 DEF ListKinds, Reveals, Shows
      <4> QED BY <1>1, <2>2, <3>2, <4>2 DEF DataInv, ListPageNames, ListFit, SecretCurrent, SecretTold
    <3>3. CASE page = "application-detail"
      <4>1. RecordKinds
        BY <1>1, <3>3, FieldsAre, RecordKindsHold DEF PageInv
      <4>2. \A c \in calls : ~Reveals(c)
        BY <2>2, <4>1 DEF RecordKinds, Reveals, Shows
      <4> QED BY <1>1, <2>2, <3>3, <4>2, FieldsAre DEF DataInv, RecordFit, ThisSecretCurrent, SecretTold
    <3> QED BY <3>1, <3>2, <3>3
  <2> QED BY <2>1, <2>2 DEF ShownIsCurrent, Settled
<1> QED BY <1>1, DataInvariant, PTL

(* What somebody else has set in a field that this page's user had not      *)
(* edited by then, nor has since, is never undone by a save.                *)
THEOREM OthersEditsAlwaysKept == Spec => []OthersEditsKept
<1>1. PageInv /\ DataInv => OthersEditsKept
  BY DEF DataInv, RecordFit, EditsKept, OthersEditsKept
<1> QED BY <1>1, DataInvariant, PTL

(* A user has no role but those the console last said it had given, and all *)
(* of them unless the server misled the console, while no assignment is     *)
(* under way.                                                               *)
THEOREM AskedAlwaysDone == Spec => []AskedIsDone
<1>1. ASSUME PageInv, DataInv
      PROVE  AskedIsDone
  <2>1. ASSUME page = "users", marks \cap {"lost", "other"} = {}, NEW r \in Rows
        PROVE  \/ db.roles[r] \subseteq meant[r] /\ ("misled" \notin marks => db.roles[r] = meant[r])
               \/ \E c \in calls : c.op = "assign" /\ c.body.name = r
    BY <1>1, <2>1 DEF DataInv, ListPageNames, ListFit, RolesTold, Given
  <2>2. ASSUME page = "user-detail", marks \cap {"lost", "other"} = {}, NEW said \in meant
        PROVE  \/ /\ db.data["roles"] \subseteq said
                  /\ "misled" \notin marks => db.data["roles"] = said
               \/ \E c \in calls : c.op = "assign"
    BY <1>1, <2>2, FieldsAre DEF DataInv, RecordFit, TheirRolesTold, Given
  <2> QED BY <2>1, <2>2 DEF AskedIsDone
<1> QED BY <1>1, DataInvariant, PTL

=============================================================================
