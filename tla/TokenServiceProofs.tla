------------------------- MODULE TokenServiceProofs -------------------------
(***************************************************************************)
(* Proofs about TokenService for any sets of clients, codes and requests,  *)
(* any lifetimes and any number of failing statements.                     *)
(***************************************************************************)
EXTENDS TokenService, TLAPS

-----------------------------------------------------------------------------
(* Updating the status column of a row gives a row with the same other      *)
(* columns.                                                                 *)
LEMMA CodeUpdate ==
  ASSUME NEW row \in CodeRow, NEW s \in CodeStatus
  PROVE  /\ [row EXCEPT !.status = s] \in CodeRow
         /\ [row EXCEPT !.status = s].status = s
         /\ [row EXCEPT !.status = s].client = row.client
         /\ [row EXCEPT !.status = s].exp = row.exp
BY DEF CodeRow

LEMMA AccessUpdate ==
  ASSUME NEW row \in AccessRow, NEW s \in TokenStatus
  PROVE  /\ [row EXCEPT !.status = s] \in AccessRow
         /\ [row EXCEPT !.status = s].status = s
         /\ [row EXCEPT !.status = s].client = row.client
         /\ [row EXCEPT !.status = s].exp = row.exp
BY DEF AccessRow

LEMMA RefreshUpdate ==
  ASSUME NEW row \in RefreshRow, NEW s \in TokenStatus
  PROVE  /\ [row EXCEPT !.status = s] \in RefreshRow
         /\ [row EXCEPT !.status = s].status = s
         /\ [row EXCEPT !.status = s].client = row.client
         /\ [row EXCEPT !.status = s].exp = row.exp
         /\ [row EXCEPT !.status = s].family = row.family
BY DEF RefreshRow

(* The effect of an UPDATE or DELETE on the rows in S: status s, the other  *)
(* columns as they were.                                                    *)
CodesMarked(S, s) ==
  /\ codes' \in [Codes -> CodeRow]
  /\ \A c \in Codes : /\ codes'[c].status = IF c \in S THEN s ELSE codes[c].status
                      /\ codes'[c].client = codes[c].client
                      /\ codes'[c].exp = codes[c].exp

AtsMarked(S, s) ==
  /\ ats' \in [Requests -> AccessRow]
  /\ \A t \in Requests : /\ ats'[t].status = IF t \in S THEN s ELSE ats[t].status
                         /\ ats'[t].client = ats[t].client
                         /\ ats'[t].exp = ats[t].exp

RtsMarked(S, s) ==
  /\ rts' \in [Requests -> RefreshRow]
  /\ \A t \in Requests : /\ rts'[t].status = IF t \in S THEN s ELSE rts[t].status
                         /\ rts'[t].client = rts[t].client
                         /\ rts'[t].exp = rts[t].exp
                         /\ rts'[t].family = rts[t].family

(* An UPDATE of all the rows that satisfy a condition.                      *)
LEMMA CodesBulk ==
  ASSUME TypeOK, NEW s \in CodeStatus, NEW S \in SUBSET Codes,
         codes' = [c \in Codes |-> IF c \in S THEN [codes[c] EXCEPT !.status = s] ELSE codes[c]]
  PROVE  CodesMarked(S, s)
BY CodeUpdate DEF TypeOK, CodesMarked

LEMMA AtsBulk ==
  ASSUME TypeOK, NEW s \in TokenStatus, NEW S \in SUBSET Requests,
         ats' = [t \in Requests |-> IF t \in S THEN [ats[t] EXCEPT !.status = s] ELSE ats[t]]
  PROVE  AtsMarked(S, s)
BY AccessUpdate DEF TypeOK, AtsMarked

LEMMA RtsBulk ==
  ASSUME TypeOK, NEW s \in TokenStatus, NEW S \in SUBSET Requests,
         rts' = [t \in Requests |-> IF t \in S THEN [rts[t] EXCEPT !.status = s] ELSE rts[t]]
  PROVE  RtsMarked(S, s)
BY RefreshUpdate DEF TypeOK, RtsMarked

(* An UPDATE of one row.                                                    *)
LEMMA CodesPoint ==
  ASSUME TypeOK, NEW s \in CodeStatus, NEW c \in Codes,
         codes' = [codes EXCEPT ![c].status = s]
  PROVE  CodesMarked({c}, s)
BY CodeUpdate DEF TypeOK, CodesMarked

LEMMA AtsPoint ==
  ASSUME TypeOK, NEW s \in TokenStatus, NEW t \in Requests,
         ats' = [ats EXCEPT ![t].status = s]
  PROVE  AtsMarked({t}, s)
BY AccessUpdate DEF TypeOK, AtsMarked

LEMMA RtsPoint ==
  ASSUME TypeOK, NEW s \in TokenStatus, NEW t \in Requests,
         rts' = [rts EXCEPT ![t].status = s]
  PROVE  RtsMarked({t}, s)
BY RefreshUpdate DEF TypeOK, RtsMarked

(* No update at all.                                                        *)
LEMMA Untouched ==
  ASSUME TypeOK
  PROVE  /\ codes' = codes => CodesMarked({}, "deleted")
         /\ ats' = ats => AtsMarked({}, "deleted")
         /\ rts' = rts => RtsMarked({}, "deleted")
BY DEF TypeOK, CodesMarked, AtsMarked, RtsMarked

-----------------------------------------------------------------------------
(* A step after which no request holds a grant that did not hold it before: *)
(* columns, parameters and spent statuses stay, nothing is minted, nobody   *)
(* wins a CAS.                                                              *)
Quiet ==
  /\ \A t \in Requests :
       /\ rts'[t].client = rts[t].client
       /\ rts'[t].exp = rts[t].exp
       /\ rts'[t].family = rts[t].family
       /\ ats'[t].client = ats[t].client
       /\ rts'[t].status = "none" <=> rts[t].status = "none"
       /\ rts'[t].status \in Usable => rts[t].status \in Usable
       /\ rts[t].status \in {"revoked", "deleted"} => rts'[t].status \in {"revoked", "deleted"}
  /\ \A c \in Codes :
       codes[c].status # "none" =>
         /\ codes'[c].client = codes[c].client
         /\ codes'[c].exp = codes[c].exp
         /\ codes[c].status \in {"used", "deleted"} => codes'[c].status \in {"used", "deleted"}
  /\ \A r \in Requests :
       /\ pc[r] # "idle" => req'[r] = req[r]
       /\ pc'[r] = "check" => pc[r] = "check"
       /\ pc'[r] = "rotate" => pc[r] = "rotate"

(* What the quiet steps preserve.                                           *)
Lineage ==
  /\ RedeemedOnce
  /\ RotatedOnce
  /\ FamilyInherited
  /\ OneUsableRefreshToken
  /\ TokensGoToTheirClient
  /\ MintedInTime

LEMMA Places ==
  ASSUME IInv, NEW r \in Requests
  PROVE  /\ Founder(r) => Minted(r) /\ req[r] \in ExchangeReq /\ req[r].code \in Codes
         /\ Rotator(r) => Minted(r) /\ req[r] \in RefreshReq /\ req[r].token \in Requests
         /\ Minted(r) => rts[r].family \in Requests /\ Founder(rts[r].family) /\ (Founder(r) \/ Rotator(r))
         /\ Redeemed(r) => req[r] \in ExchangeReq /\ req[r].code \in Codes /\ pc[r] # "idle"
         /\ Rotated(r) => req[r] \in RefreshReq /\ req[r].token \in Requests /\ pc[r] # "idle" /\ Minted(req[r].token)
         /\ Minted(r) => pc[r] # "idle"
BY ConstantAssumption DEF IInv, PairFits, RequestFits, Minted, Founder, Rotator, Redeemed, Rotated,
   ExchangeReq, RefreshReq, ExchangePc, RefreshPc, SavePc

LEMMA QuietLineage ==
  ASSUME IInv, Quiet
  PROVE  Lineage'
<1>1. \A r \in Requests : /\ Founder(r)' <=> Founder(r)
                          /\ Rotator(r)' <=> Rotator(r)
                          /\ Minted(r)' <=> Minted(r)
                          /\ Redeemed(r)' => Redeemed(r)
                          /\ Rotated(r)' => Rotated(r)
  BY DEF Quiet, Founder, Rotator, Minted, Redeemed, Rotated
<1>2. \A r \in Requests : Redeemed(r) \/ Rotated(r) \/ Minted(r) => req'[r] = req[r]
  BY Places DEF Quiet
<1>3. RedeemedOnce'
  BY <1>1, <1>2, Places DEF Quiet, IInv, RedeemedOnce
<1>4. RotatedOnce'
  BY <1>1, <1>2, Places DEF Quiet, IInv, RotatedOnce
<1>5. FamilyInherited'
  BY <1>1, <1>2, Places DEF Quiet, IInv, FamilyInherited
<1>6. OneUsableRefreshToken'
  <2>1. \A f \in Requests : Holders(f)' \subseteq Holders(f)
    BY <1>2, Places DEF Quiet, Holders, Rotated
  <2> QED BY <2>1 DEF IInv, OneUsableRefreshToken
<1>7. TokensGoToTheirClient'
  <2> SUFFICES ASSUME NEW r \in Requests, Minted(r)'
               PROVE  /\ rts'[r].client = req'[r].client
                      /\ ats'[r].client = req'[r].client
                      /\ codes'[Origin(r)'].client = req'[r].client
    BY DEF TokensGoToTheirClient
  <2>1. Minted(r) /\ req'[r] = req[r] /\ rts'[r].family = rts[r].family
    BY <1>1, <1>2 DEF Quiet
  <2>2. Founder(rts[r].family) /\ rts[r].family \in Requests
    BY <2>1, Places
  <2>3. /\ Origin(r)' = Origin(r) /\ Origin(r) \in Codes
        /\ codes[Origin(r)].status # "none"
    BY <2>1, <2>2, <1>2, Places DEF Origin, IInv, RedeemedOnce, Redeemed
  <2> QED BY <2>1, <2>3 DEF Quiet, IInv, TokensGoToTheirClient
<1>8. MintedInTime'
  <2> SUFFICES ASSUME NEW r \in Requests
               PROVE  /\ Founder(r)' => rts'[r].exp <= codes'[req'[r].code].exp + RefreshTokenTtl
                      /\ Rotator(r)' => rts'[r].exp <= rts'[req'[r].token].exp + RefreshTokenTtl
    BY DEF MintedInTime
  <2>1. CASE Founder(r)
    <3>1. req'[r] = req[r] /\ req[r].code \in Codes /\ codes[req[r].code].status # "none"
      BY <2>1, <1>2, Places DEF IInv, RedeemedOnce, Redeemed
    <3> QED BY <2>1, <3>1, <1>1 DEF Quiet, IInv, MintedInTime, Founder, Rotator
  <2>2. CASE Rotator(r)
    <3>1. req'[r] = req[r] /\ req[r].token \in Requests
      BY <2>2, <1>2, Places
    <3> QED BY <2>2, <3>1, <1>1 DEF Quiet, IInv, MintedInTime, Founder, Rotator
  <2> QED BY <2>1, <2>2, <1>1
<1> QED BY <1>3, <1>4, <1>5, <1>6, <1>7, <1>8 DEF Lineage

(* What DeadFamilyStaysDead asks of a step.                                 *)
DeadStays ==
  \A f \in Requests : Founder(f) /\ Holders(f) = {} => Holders(f)' = {}

LEMMA QuietDead ==
  ASSUME IInv, Quiet
  PROVE  DeadStays
<1>1. \A r \in Requests : Rotated(r) => req'[r] = req[r] /\ req[r].token \in Requests
  BY Places DEF Quiet
<1>2. \A f \in Requests : Holders(f)' \subseteq Holders(f)
  BY <1>1 DEF Quiet, Holders, Rotated
<1> QED BY <1>2 DEF DeadStays

(* A quiet step of a handler under way: no request starts, and each pair is *)
(* still where its request is.                                              *)
UnderWay ==
  \A s \in Requests :
    /\ req'[s] = req[s]
    /\ pc'[s] \in ExchangePc => pc[s] \in ExchangePc
    /\ pc'[s] \in RefreshPc => pc[s] \in RefreshPc
    /\ pc'[s] \in RevokePc => pc[s] \in RevokePc
    /\ pc'[s] \in SavePc <=> pc[s] \in SavePc
    /\ rts'[s].status = "minted" <=> pc'[s] \in {"save", "saveRt"}

LEMMA QuietInvariance ==
  ASSUME IInv, Quiet, UnderWay, TypeOK'
  PROVE  IInv'
<1>1. \A s \in Requests : /\ Founder(s)' <=> Founder(s)
                          /\ Rotator(s)' <=> Rotator(s)
                          /\ Minted(s)' <=> Minted(s)
  BY DEF Quiet, Founder, Rotator, Minted
<1>2. \A s \in Requests : RequestFits(s)'
  BY <1>1, Places DEF IInv, UnderWay, RequestFits, RefreshReq
<1>3. \A s \in Requests : PairFits(s)'
  BY <1>1 DEF IInv, Quiet, UnderWay, PairFits
<1> QED BY <1>2, <1>3, QuietLineage DEF IInv, Lineage

(* The rows archived are rows other connections saw.                        *)
LEMMA ArchivedRows ==
  ASSUME TypeOK, NEW cutoff \in 0..now, ArchiveExpiredTokens(cutoff)
  PROVE  /\ UNCHANGED <<now, codes, rts, req, pc, faults>>
         /\ \E S \in SUBSET Requests :
              AtsMarked(S, "deleted") /\ \A t \in S : ats[t].status \in Visible
<1>1. PICK S \in SUBSET {t \in Requests : ats[t].status = "revoked"
                                         /\ ats[t].exp < cutoff + AccessTokenTtl} :
        LET archived == S \cup {t \in Requests : Expired(ats[t], cutoff, Visible)} IN
          /\ ats' = [t \in Requests |-> IF t \in archived
                                          THEN [ats[t] EXCEPT !.status = "deleted"] ELSE ats[t]]
          /\ UNCHANGED <<now, codes, rts, req, pc, faults>>
  BY DEF ArchiveExpiredTokens
<1> DEFINE A == S \cup {t \in Requests : Expired(ats[t], cutoff, Visible)}
<1>2. A \in SUBSET Requests /\ \A t \in A : ats[t].status \in Visible
  BY DEF Expired, Visible
<1>3. ats' = [t \in Requests |-> IF t \in A THEN [ats[t] EXCEPT !.status = "deleted"] ELSE ats[t]]
  BY <1>1
<1> HIDE DEF A
<1>4. AtsMarked(A, "deleted")
  BY <1>2, <1>3, AtsBulk DEF TokenStatus
<1> QED BY <1>1, <1>2, <1>4

-----------------------------------------------------------------------------
(* One lemma per action: it preserves the inductive invariant.  First the   *)
(* quiet ones.                                                              *)

LEMMA ReceiveExchangeStep ==
  ASSUME IInv, NEW r \in Requests, NEW q \in ExchangeReq, ReceiveExchange(r, q)
  PROVE  IInv' /\ Quiet
<1> USE DEF ReceiveExchange, Goto, Fault, tables
<1>0. TypeOK /\ \A s \in Requests : RequestFits(s) /\ PairFits(s)
  BY DEF IInv
<1>1. CodesMarked({}, "deleted") /\ AtsMarked({}, "deleted") /\ RtsMarked({}, "deleted")
  BY <1>0, Untouched
<1>2. TypeOK'
  BY <1>0, <1>1 DEF TypeOK, CodesMarked, AtsMarked, RtsMarked,
     Pc, ExchangePc, RefreshPc, RevokePc, SavePc
<1>3. Quiet
  BY <1>0, <1>1 DEF Quiet, CodesMarked, AtsMarked, RtsMarked, TypeOK, PairFits, Usable, Visible, SavePc
<1>4. \A s \in Requests : /\ Founder(s)' <=> Founder(s)
                          /\ Rotator(s)' <=> Rotator(s)
                          /\ Minted(s)' <=> Minted(s)
  BY <1>3 DEF Quiet, Founder, Rotator, Minted
<1>5. /\ req'[r] = q
      /\ ~Founder(r) /\ ~Rotator(r) /\ ~Minted(r)
      /\ pc'[r] \in ExchangePc \cup {"failed"}
      /\ \A s \in Requests \ {r} : req'[s] = req[s] /\ pc'[s] = pc[s]
  BY <1>0, ConstantAssumption DEF TypeOK, PairFits, Founder, Rotator, Minted, SavePc, ExchangePc
<1>6. \A s \in Requests : RequestFits(s)'
  <2>1. RequestFits(r)'
    BY <1>0, <1>4, <1>5 DEF RequestFits, PairFits, HandedOut, RefreshReq, SavePc,
       ExchangePc, RefreshPc, RevokePc
  <2>2. \A s \in Requests \ {r} : RequestFits(s)'
    BY <1>0, <1>4, <1>5, Places DEF RequestFits, RefreshReq
  <2> QED BY <2>1, <2>2
<1>7. \A s \in Requests : PairFits(s)'
  BY <1>0, <1>1, <1>3, <1>4, <1>5 DEF Quiet, PairFits, TypeOK, Minted, SavePc, ExchangePc
<1> QED BY <1>2, <1>3, <1>6, <1>7, QuietLineage DEF IInv, Lineage

LEMMA ReceiveRefreshStep ==
  ASSUME IInv, NEW r \in Requests, NEW q \in RefreshReq, ReceiveRefresh(r, q)
  PROVE  IInv' /\ Quiet
<1> USE DEF ReceiveRefresh, Goto, Fault, tables
<1>0. TypeOK /\ \A s \in Requests : RequestFits(s) /\ PairFits(s)
  BY DEF IInv
<1>1. CodesMarked({}, "deleted") /\ AtsMarked({}, "deleted") /\ RtsMarked({}, "deleted")
  BY <1>0, Untouched
<1>2. TypeOK'
  BY <1>0, <1>1 DEF TypeOK, CodesMarked, AtsMarked, RtsMarked,
     Pc, ExchangePc, RefreshPc, RevokePc, SavePc
<1>3. Quiet
  BY <1>0, <1>1 DEF Quiet, CodesMarked, AtsMarked, RtsMarked, TypeOK, PairFits, Usable, Visible, SavePc
<1>4. \A s \in Requests : /\ Founder(s)' <=> Founder(s)
                          /\ Rotator(s)' <=> Rotator(s)
                          /\ Minted(s)' <=> Minted(s)
  BY <1>3 DEF Quiet, Founder, Rotator, Minted
<1>5. /\ req'[r] = q
      /\ ~Founder(r) /\ ~Rotator(r) /\ ~Minted(r)
      /\ pc'[r] \in RefreshPc \cup {"failed"}
      /\ \A s \in Requests \ {r} : req'[s] = req[s] /\ pc'[s] = pc[s]
  BY <1>0, ConstantAssumption DEF TypeOK, PairFits, Founder, Rotator, Minted, SavePc, RefreshPc
<1>6. \A s \in Requests : RequestFits(s)'
  <2>1. RequestFits(r)'
    BY <1>0, <1>4, <1>5 DEF RequestFits, PairFits, HandedOut, RefreshReq, SavePc,
       ExchangePc, RefreshPc, RevokePc
  <2>2. \A s \in Requests \ {r} : RequestFits(s)'
    BY <1>0, <1>4, <1>5, Places DEF RequestFits, RefreshReq
  <2> QED BY <2>1, <2>2
<1>7. \A s \in Requests : PairFits(s)'
  BY <1>0, <1>1, <1>3, <1>4, <1>5 DEF Quiet, PairFits, TypeOK, Minted, SavePc, RefreshPc
<1> QED BY <1>2, <1>3, <1>6, <1>7, QuietLineage DEF IInv, Lineage

LEMMA ReceiveRevokeStep ==
  ASSUME IInv, NEW r \in Requests, NEW q \in RevokeReq, ReceiveRevoke(r, q)
  PROVE  IInv' /\ Quiet
<1> USE DEF ReceiveRevoke, Goto, Fault, tables
<1>0. TypeOK /\ \A s \in Requests : RequestFits(s) /\ PairFits(s)
  BY DEF IInv
<1>1. CodesMarked({}, "deleted") /\ AtsMarked({}, "deleted") /\ RtsMarked({}, "deleted")
  BY <1>0, Untouched
<1>2. TypeOK'
  BY <1>0, <1>1 DEF TypeOK, CodesMarked, AtsMarked, RtsMarked,
     Pc, ExchangePc, RefreshPc, RevokePc, SavePc
<1>3. Quiet
  BY <1>0, <1>1 DEF Quiet, CodesMarked, AtsMarked, RtsMarked, TypeOK, PairFits, Usable, Visible, SavePc
<1>4. \A s \in Requests : /\ Founder(s)' <=> Founder(s)
                          /\ Rotator(s)' <=> Rotator(s)
                          /\ Minted(s)' <=> Minted(s)
  BY <1>3 DEF Quiet, Founder, Rotator, Minted
<1>5. /\ req'[r] = q
      /\ ~Founder(r) /\ ~Rotator(r) /\ ~Minted(r)
      /\ pc'[r] \in RevokePc \cup {"failed"}
      /\ \A s \in Requests \ {r} : req'[s] = req[s] /\ pc'[s] = pc[s]
  BY <1>0, ConstantAssumption DEF TypeOK, PairFits, Founder, Rotator, Minted, SavePc, RevokePc
<1>6. \A s \in Requests : RequestFits(s)'
  <2>1. RequestFits(r)'
    BY <1>0, <1>4, <1>5 DEF RequestFits, PairFits, HandedOut, RefreshReq, SavePc,
       ExchangePc, RefreshPc, RevokePc
  <2>2. \A s \in Requests \ {r} : RequestFits(s)'
    BY <1>0, <1>4, <1>5, Places DEF RequestFits, RefreshReq
  <2> QED BY <2>1, <2>2
<1>7. \A s \in Requests : PairFits(s)'
  BY <1>0, <1>1, <1>3, <1>4, <1>5 DEF Quiet, PairFits, TypeOK, Minted, SavePc, RevokePc
<1> QED BY <1>2, <1>3, <1>6, <1>7, QuietLineage DEF IInv, Lineage

LEMMA GetRefreshTokenStep ==
  ASSUME IInv, NEW r \in Requests, GetRefreshToken(r)
  PROVE  IInv' /\ Quiet
<1> USE DEF GetRefreshToken, Goto, Fault, tables
<1>0. TypeOK /\ \A s \in Requests : RequestFits(s) /\ PairFits(s)
  BY DEF IInv
<1>1. CodesMarked({}, "deleted") /\ AtsMarked({}, "deleted") /\ RtsMarked({}, "deleted")
  BY <1>0, Untouched
<1>2. TypeOK'
  BY <1>0, <1>1 DEF TypeOK, CodesMarked, AtsMarked, RtsMarked,
     Pc, ExchangePc, RefreshPc, RevokePc, SavePc
<1>3. Quiet
  BY <1>0, <1>1 DEF Quiet, CodesMarked, AtsMarked, RtsMarked, TypeOK, PairFits, Usable, Visible, SavePc
<1>4. UnderWay
  BY <1>0, <1>1 DEF UnderWay, PairFits, TypeOK, RtsMarked, Minted, Usable, Visible,
     ExchangePc, RefreshPc, RevokePc, SavePc
<1> QED BY <1>2, <1>3, <1>4, QuietInvariance

LEMMA IntrospectForRevokeStep ==
  ASSUME IInv, NEW r \in Requests, IntrospectForRevoke(r)
  PROVE  IInv' /\ Quiet
<1> USE DEF IntrospectForRevoke, Goto, Fault, tables
<1>0. TypeOK /\ \A s \in Requests : RequestFits(s) /\ PairFits(s)
  BY DEF IInv
<1>1. CodesMarked({}, "deleted") /\ AtsMarked({}, "deleted") /\ RtsMarked({}, "deleted")
  BY <1>0, Untouched
<1>2. TypeOK'
  BY <1>0, <1>1 DEF TypeOK, CodesMarked, AtsMarked, RtsMarked,
     Pc, ExchangePc, RefreshPc, RevokePc, SavePc
<1>3. Quiet
  BY <1>0, <1>1 DEF Quiet, CodesMarked, AtsMarked, RtsMarked, TypeOK, PairFits, Usable, Visible, SavePc
<1>4. UnderWay
  BY <1>0, <1>1 DEF UnderWay, PairFits, TypeOK, RtsMarked, Minted, Usable, Visible,
     ExchangePc, RefreshPc, RevokePc, SavePc
<1> QED BY <1>2, <1>3, <1>4, QuietInvariance

LEMMA TickStep ==
  ASSUME IInv, Tick
  PROVE  IInv' /\ Quiet
<1> USE DEF Tick, Goto, Fault, tables
<1>0. TypeOK /\ \A s \in Requests : RequestFits(s) /\ PairFits(s)
  BY DEF IInv
<1>1. CodesMarked({}, "deleted") /\ AtsMarked({}, "deleted") /\ RtsMarked({}, "deleted")
  BY <1>0, Untouched
<1>2. TypeOK'
  BY <1>0, <1>1 DEF TypeOK, CodesMarked, AtsMarked, RtsMarked,
     Pc, ExchangePc, RefreshPc, RevokePc, SavePc
<1>3. Quiet
  BY <1>0, <1>1 DEF Quiet, CodesMarked, AtsMarked, RtsMarked, TypeOK, PairFits, Usable, Visible, SavePc
<1>4. UnderWay
  BY <1>0, <1>1 DEF UnderWay, PairFits, TypeOK, RtsMarked, Minted, Usable, Visible,
     ExchangePc, RefreshPc, RevokePc, SavePc
<1> QED BY <1>2, <1>3, <1>4, QuietInvariance

LEMMA InsertAccessTokenStep ==
  ASSUME IInv, NEW r \in Requests, InsertAccessToken(r)
  PROVE  IInv' /\ Quiet
<1> USE DEF InsertAccessToken, Goto, Fault, tables
<1>0. TypeOK /\ \A s \in Requests : RequestFits(s) /\ PairFits(s)
  BY DEF IInv
<1>1. CodesMarked({}, "deleted")
      /\ \/ AtsMarked({r}, "uncommitted") /\ RtsMarked({}, "deleted") /\ rts' = rts
            /\ pc' = [pc EXCEPT ![r] = "saveRt"]
         \/ AtsMarked({r}, "lost") /\ RtsMarked({r}, "lost")
            /\ pc' = [pc EXCEPT ![r] = "issued"]
  BY <1>0, Untouched, AtsPoint, RtsPoint DEF TokenStatus
<1>2. TypeOK'
  BY <1>0, <1>1 DEF TypeOK, CodesMarked, AtsMarked, RtsMarked,
     Pc, ExchangePc, RefreshPc, RevokePc, SavePc
<1>3. Quiet
  BY <1>0, <1>1 DEF Quiet, CodesMarked, AtsMarked, RtsMarked, TypeOK, PairFits, Usable, Visible, SavePc
<1>4. UnderWay
  BY <1>0, <1>1 DEF UnderWay, PairFits, TypeOK, RtsMarked, Minted, Usable, Visible,
     ExchangePc, RefreshPc, RevokePc, SavePc
<1> QED BY <1>2, <1>3, <1>4, QuietInvariance

LEMMA InsertRefreshTokenStep ==
  ASSUME IInv, NEW r \in Requests, InsertRefreshToken(r)
  PROVE  IInv' /\ Quiet
<1> USE DEF InsertRefreshToken, Goto, Fault, tables
<1>0. TypeOK /\ \A s \in Requests : RequestFits(s) /\ PairFits(s)
  BY DEF IInv
<1>1. CodesMarked({}, "deleted")
      /\ AtsMarked({}, "deleted")
      /\ \E s \in {"uncommitted", "lost"} : RtsMarked({r}, s)
  BY <1>0, Untouched, AtsPoint, RtsPoint DEF TokenStatus
<1>2. TypeOK'
  BY <1>0, <1>1 DEF TypeOK, CodesMarked, AtsMarked, RtsMarked,
     Pc, ExchangePc, RefreshPc, RevokePc, SavePc
<1>3. Quiet
  BY <1>0, <1>1 DEF Quiet, CodesMarked, AtsMarked, RtsMarked, TypeOK, PairFits, Usable, Visible, SavePc
<1>4. UnderWay
  BY <1>0, <1>1 DEF UnderWay, PairFits, TypeOK, RtsMarked, Minted, Usable, Visible,
     ExchangePc, RefreshPc, RevokePc, SavePc
<1> QED BY <1>2, <1>3, <1>4, QuietInvariance

LEMMA EndTransactionStep ==
  ASSUME IInv, NEW r \in Requests, EndTransaction(r)
  PROVE  IInv' /\ Quiet
<1> USE DEF EndTransaction, Goto, Fault, tables
<1>0. TypeOK /\ \A s \in Requests : RequestFits(s) /\ PairFits(s)
  BY DEF IInv
<1>1. CodesMarked({}, "deleted")
      /\ \/ \E s \in {"live", "lost"} : AtsMarked({r}, s) /\ RtsMarked({r}, s)
                                         /\ rts[r].status = "uncommitted"
         \/ AtsMarked({r}, "lost") /\ RtsMarked({}, "deleted") /\ rts' = rts
  BY <1>0, Untouched, AtsPoint, RtsPoint DEF TokenStatus
<1>2. TypeOK'
  BY <1>0, <1>1 DEF TypeOK, CodesMarked, AtsMarked, RtsMarked,
     Pc, ExchangePc, RefreshPc, RevokePc, SavePc
<1>3. Quiet
  BY <1>0, <1>1 DEF Quiet, CodesMarked, AtsMarked, RtsMarked, TypeOK, PairFits, Usable, Visible, SavePc
<1>4. UnderWay
  BY <1>0, <1>1 DEF UnderWay, PairFits, TypeOK, RtsMarked, Minted, Usable, Visible,
     ExchangePc, RefreshPc, RevokePc, SavePc
<1> QED BY <1>2, <1>3, <1>4, QuietInvariance

LEMMA SaveAccessTokenStep ==
  ASSUME IInv, NEW r \in Requests, SaveAccessToken(r)
  PROVE  IInv' /\ Quiet
<1> USE DEF SaveAccessToken, Goto, Fault, tables
<1>0. TypeOK /\ \A s \in Requests : RequestFits(s) /\ PairFits(s)
  BY DEF IInv
<1>1. CodesMarked({}, "deleted") /\ RtsMarked({}, "deleted")
      /\ \E s \in {"live", "lost"} : AtsMarked({r}, s)
  BY <1>0, Untouched, AtsPoint DEF TokenStatus
<1>2. TypeOK'
  BY <1>0, <1>1 DEF TypeOK, CodesMarked, AtsMarked, RtsMarked,
     Pc, ExchangePc, RefreshPc, RevokePc, SavePc
<1>3. Quiet
  BY <1>0, <1>1 DEF Quiet, CodesMarked, AtsMarked, RtsMarked, TypeOK, PairFits, Usable, Visible, SavePc
<1>4. UnderWay
  BY <1>0, <1>1 DEF UnderWay, PairFits, TypeOK, RtsMarked, Minted, Usable, Visible,
     ExchangePc, RefreshPc, RevokePc, SavePc
<1> QED BY <1>2, <1>3, <1>4, QuietInvariance

LEMMA SaveRefreshTokenStep ==
  ASSUME IInv, NEW r \in Requests, SaveRefreshToken(r)
  PROVE  IInv' /\ Quiet
<1> USE DEF SaveRefreshToken, Goto, Fault, tables
<1>0. TypeOK /\ \A s \in Requests : RequestFits(s) /\ PairFits(s)
  BY DEF IInv
<1>1. CodesMarked({}, "deleted") /\ AtsMarked({}, "deleted")
      /\ \E s \in {"live", "lost"} : RtsMarked({r}, s)
  BY <1>0, Untouched, RtsPoint DEF TokenStatus
<1>2. TypeOK'
  BY <1>0, <1>1 DEF TypeOK, CodesMarked, AtsMarked, RtsMarked,
     Pc, ExchangePc, RefreshPc, RevokePc, SavePc
<1>3. Quiet
  BY <1>0, <1>1 DEF Quiet, CodesMarked, AtsMarked, RtsMarked, TypeOK, PairFits, Usable, Visible, SavePc
<1>4. UnderWay
  BY <1>0, <1>1 DEF UnderWay, PairFits, TypeOK, RtsMarked, Minted, Usable, Visible,
     ExchangePc, RefreshPc, RevokePc, SavePc
<1> QED BY <1>2, <1>3, <1>4, QuietInvariance

LEMMA RevokeAccessStep ==
  ASSUME IInv, NEW r \in Requests, RevokeAccess(r)
  PROVE  IInv' /\ Quiet
<1> USE DEF RevokeAccess, Goto, Fault, tables
<1>0. TypeOK /\ \A s \in Requests : RequestFits(s) /\ PairFits(s)
  BY DEF IInv
<1>1. /\ CodesMarked({}, "deleted") /\ RtsMarked({}, "deleted")
      /\ AtsMarked({}, "deleted") \/ \E t \in Requests : AtsMarked({t}, "revoked")
  <2>1. req[r].token \in Requests
    BY <1>0 DEF RequestFits, RevokePc, RevokeReq
  <2> QED BY <1>0, <2>1, Untouched, AtsPoint DEF TokenStatus
<1>2. TypeOK'
  BY <1>0, <1>1 DEF TypeOK, CodesMarked, AtsMarked, RtsMarked,
     Pc, ExchangePc, RefreshPc, RevokePc, SavePc
<1>3. Quiet
  BY <1>0, <1>1 DEF Quiet, CodesMarked, AtsMarked, RtsMarked, TypeOK, PairFits, Usable, Visible, SavePc
<1>4. UnderWay
  BY <1>0, <1>1 DEF UnderWay, PairFits, TypeOK, RtsMarked, Minted, Usable, Visible,
     ExchangePc, RefreshPc, RevokePc, SavePc
<1> QED BY <1>2, <1>3, <1>4, QuietInvariance

LEMMA RevokeRefreshStep ==
  ASSUME IInv, NEW r \in Requests, RevokeRefresh(r)
  PROVE  IInv' /\ Quiet
<1> USE DEF RevokeRefresh, Goto, Fault, tables
<1>0. TypeOK /\ \A s \in Requests : RequestFits(s) /\ PairFits(s)
  BY DEF IInv
<1>1. /\ CodesMarked({}, "deleted") /\ AtsMarked({}, "deleted")
      /\ \/ RtsMarked({}, "deleted")
         \/ \E t \in Requests : rts[t].status = "live" /\ RtsMarked({t}, "revoked")
  <2>1. req[r].token \in Requests
    BY <1>0 DEF RequestFits, RevokePc, RevokeReq
  <2> QED BY <1>0, <2>1, Untouched, RtsPoint DEF TokenStatus
<1>2. TypeOK'
  BY <1>0, <1>1 DEF TypeOK, CodesMarked, AtsMarked, RtsMarked,
     Pc, ExchangePc, RefreshPc, RevokePc, SavePc
<1>3. Quiet
  BY <1>0, <1>1 DEF Quiet, CodesMarked, AtsMarked, RtsMarked, TypeOK, PairFits, Usable, Visible, SavePc
<1>4. UnderWay
  BY <1>0, <1>1 DEF UnderWay, PairFits, TypeOK, RtsMarked, Minted, Usable, Visible,
     ExchangePc, RefreshPc, RevokePc, SavePc
<1> QED BY <1>2, <1>3, <1>4, QuietInvariance

LEMMA RevokeFamilyRefreshTokensStep ==
  ASSUME IInv, NEW r \in Requests, RevokeFamilyRefreshTokens(r)
  PROVE  IInv' /\ Quiet
<1> USE DEF RevokeFamilyRefreshTokens, Goto, Fault, tables
<1>0. TypeOK /\ \A s \in Requests : RequestFits(s) /\ PairFits(s)
  BY DEF IInv
<1> DEFINE S == {t \in Requests : rts[t].family = rts[req[r].token].family /\ rts[t].status = "live"}
<1>1. /\ CodesMarked({}, "deleted") /\ AtsMarked({}, "deleted")
      /\ RtsMarked(S, "revoked") \/ RtsMarked({}, "deleted")
  BY <1>0, Untouched, RtsBulk DEF TokenStatus
<1>2. TypeOK'
  BY <1>0, <1>1 DEF TypeOK, CodesMarked, AtsMarked, RtsMarked,
     Pc, ExchangePc, RefreshPc, RevokePc, SavePc
<1>3. Quiet
  BY <1>0, <1>1 DEF Quiet, CodesMarked, AtsMarked, RtsMarked, TypeOK, PairFits, Usable, Visible, SavePc
<1>4. UnderWay
  BY <1>0, <1>1 DEF UnderWay, PairFits, TypeOK, RtsMarked, Minted, Usable, Visible,
     ExchangePc, RefreshPc, RevokePc, SavePc
<1> QED BY <1>2, <1>3, <1>4, QuietInvariance

LEMMA RevokeFamilyAccessTokensStep ==
  ASSUME IInv, NEW r \in Requests, RevokeFamilyAccessTokens(r)
  PROVE  IInv' /\ Quiet
<1> USE DEF RevokeFamilyAccessTokens, Goto, Fault, tables
<1>0. TypeOK /\ \A s \in Requests : RequestFits(s) /\ PairFits(s)
  BY DEF IInv
<1> DEFINE S == {t \in Requests : /\ rts[t].family = rts[req[r].token].family
                                   /\ rts[t].status \in Visible /\ ats[t].status = "live"}
<1>1. /\ CodesMarked({}, "deleted") /\ RtsMarked({}, "deleted")
      /\ AtsMarked(S, "revoked") \/ AtsMarked({}, "deleted")
  BY <1>0, Untouched, AtsBulk DEF TokenStatus
<1>2. TypeOK'
  BY <1>0, <1>1 DEF TypeOK, CodesMarked, AtsMarked, RtsMarked,
     Pc, ExchangePc, RefreshPc, RevokePc, SavePc
<1>3. Quiet
  BY <1>0, <1>1 DEF Quiet, CodesMarked, AtsMarked, RtsMarked, TypeOK, PairFits, Usable, Visible, SavePc
<1>4. UnderWay
  BY <1>0, <1>1 DEF UnderWay, PairFits, TypeOK, RtsMarked, Minted, Usable, Visible,
     ExchangePc, RefreshPc, RevokePc, SavePc
<1> QED BY <1>2, <1>3, <1>4, QuietInvariance

LEMMA DeleteExpiredCodesStep ==
  ASSUME IInv, NEW cutoff \in 0..now, DeleteExpiredCodes(cutoff)
  PROVE  IInv' /\ Quiet
<1> USE DEF DeleteExpiredCodes, Goto, Fault, tables
<1>0. TypeOK /\ \A s \in Requests : RequestFits(s) /\ PairFits(s)
  BY DEF IInv
<1> DEFINE S == {c \in Codes : Expired(codes[c], cutoff, {"unused", "used"})}
<1>1. AtsMarked({}, "deleted") /\ RtsMarked({}, "deleted")
      /\ CodesMarked(S, "deleted")
  BY <1>0, Untouched, CodesBulk DEF CodeStatus
<1>2. TypeOK'
  BY <1>0, <1>1 DEF TypeOK, CodesMarked, AtsMarked, RtsMarked,
     Pc, ExchangePc, RefreshPc, RevokePc, SavePc
<1>3. Quiet
  BY <1>0, <1>1 DEF Quiet, CodesMarked, AtsMarked, RtsMarked, TypeOK, PairFits, Usable, Visible, SavePc
<1>4. UnderWay
  BY <1>0, <1>1 DEF UnderWay, PairFits, TypeOK, RtsMarked, Minted, Usable, Visible,
     ExchangePc, RefreshPc, RevokePc, SavePc
<1> QED BY <1>2, <1>3, <1>4, QuietInvariance

LEMMA DeleteExpiredAccessTokensStep ==
  ASSUME IInv, NEW cutoff \in 0..now, DeleteExpiredAccessTokens(cutoff)
  PROVE  IInv' /\ Quiet
<1> USE DEF DeleteExpiredAccessTokens, Goto, Fault, tables
<1>0. TypeOK /\ \A s \in Requests : RequestFits(s) /\ PairFits(s)
  BY DEF IInv
<1> DEFINE S == {t \in Requests : Expired(ats[t], cutoff, Visible)}
<1>1. CodesMarked({}, "deleted") /\ RtsMarked({}, "deleted")
      /\ AtsMarked(S, "deleted")
  BY <1>0, Untouched, AtsBulk DEF TokenStatus
<1>2. TypeOK'
  BY <1>0, <1>1 DEF TypeOK, CodesMarked, AtsMarked, RtsMarked,
     Pc, ExchangePc, RefreshPc, RevokePc, SavePc
<1>3. Quiet
  BY <1>0, <1>1 DEF Quiet, CodesMarked, AtsMarked, RtsMarked, TypeOK, PairFits, Usable, Visible, SavePc
<1>4. UnderWay
  BY <1>0, <1>1 DEF UnderWay, PairFits, TypeOK, RtsMarked, Minted, Usable, Visible,
     ExchangePc, RefreshPc, RevokePc, SavePc
<1> QED BY <1>2, <1>3, <1>4, QuietInvariance

LEMMA ArchiveExpiredTokensStep ==
  ASSUME IInv, NEW cutoff \in 0..now, ArchiveExpiredTokens(cutoff)
  PROVE  IInv' /\ Quiet
<1> USE DEF Goto, Fault, tables
<1>0. TypeOK /\ \A s \in Requests : RequestFits(s) /\ PairFits(s)
  BY DEF IInv
<1>1. UNCHANGED <<now, codes, rts, req, pc, faults>>
      /\ \E S \in SUBSET Requests : AtsMarked(S, "deleted")
  BY <1>0, ArchivedRows
<1>2. CodesMarked({}, "deleted") /\ RtsMarked({}, "deleted")
  BY <1>0, <1>1, Untouched
<1>3. TypeOK'
  BY <1>0, <1>1, <1>2 DEF TypeOK, CodesMarked, AtsMarked, RtsMarked
<1>4. Quiet
  BY <1>0, <1>1, <1>2 DEF Quiet, CodesMarked, AtsMarked, RtsMarked, TypeOK, PairFits, Usable, Visible, SavePc
<1>5. UnderWay
  BY <1>0, <1>1, <1>2 DEF UnderWay, PairFits, TypeOK, RtsMarked, Minted
<1> QED BY <1>3, <1>4, <1>5, QuietInvariance

LEMMA DeleteExpiredRefreshTokensStep ==
  ASSUME IInv, NEW cutoff \in 0..now, DeleteExpiredRefreshTokens(cutoff)
  PROVE  IInv' /\ Quiet
<1> USE DEF DeleteExpiredRefreshTokens, Goto, Fault, tables, Expired
<1>0. TypeOK /\ \A s \in Requests : RequestFits(s) /\ PairFits(s)
  BY DEF IInv
<1> DEFINE S == {t \in Requests : Expired(rts[t], cutoff, Visible)}
<1>1. CodesMarked({}, "deleted") /\ AtsMarked({}, "deleted")
      /\ RtsMarked(S, "deleted")
  BY <1>0, Untouched, RtsBulk DEF TokenStatus
<1>2. TypeOK'
  BY <1>0, <1>1 DEF TypeOK, CodesMarked, AtsMarked, RtsMarked,
     Pc, ExchangePc, RefreshPc, RevokePc, SavePc
<1>3. Quiet
  BY <1>0, <1>1 DEF Quiet, CodesMarked, AtsMarked, RtsMarked, TypeOK, PairFits, Usable, Visible, SavePc
<1>4. UnderWay
  BY <1>0, <1>1 DEF UnderWay, PairFits, TypeOK, RtsMarked, Minted, Usable, Visible,
     ExchangePc, RefreshPc, RevokePc, SavePc
<1> QED BY <1>2, <1>3, <1>4, QuietInvariance

LEMMA GenerateAuthorizationCodeStep ==
  ASSUME IInv, NEW c \in Codes, NEW client \in Clients, NEW pkce \in PkceChoices,
         GenerateAuthorizationCode(c, client, pkce)
  PROVE  IInv' /\ Quiet
<1> USE DEF GenerateAuthorizationCode, Fault
<1>0. TypeOK /\ \A s \in Requests : RequestFits(s) /\ PairFits(s)
  BY DEF IInv
<1>1. \E row \in CodeRow : row.status # "none" /\ codes' = [codes EXCEPT ![c] = row]
  <2>1. pkce \in BOOLEAN /\ now + AuthCodeTtl \in Nat
    BY <1>0, ConstantAssumption DEF TypeOK
  <2>2. \A s \in {"unused", "lost"} :
          [status |-> s, client |-> client, exp |-> now + AuthCodeTtl,
           pkce |-> pkce, challenge |-> FALSE] \in CodeRow
    BY <2>1 DEF CodeRow, CodeStatus
  <2> QED BY <2>2
<1>2. TypeOK'
  BY <1>0, <1>1 DEF TypeOK
<1>3. Quiet
  BY <1>0, <1>1 DEF Quiet, TypeOK
<1>4. \A s \in Requests : RequestFits(s)' /\ PairFits(s)'
  BY <1>0 DEF RequestFits, PairFits, Minted, Founder, Rotator
<1> QED BY <1>2, <1>3, <1>4, QuietLineage DEF IInv, Lineage

(* The four steps that move a grant.  Whoever consumes a code is its first  *)
(* redeemer.                                                                *)
LEMMA ConsumeAuthCodeStep ==
  ASSUME IInv, NEW r \in Requests, ConsumeAuthCode(r)
  PROVE  IInv' /\ DeadStays
<1> USE DEF ConsumeAuthCode, MatchesUnusedCode, Goto, Fault
<1> DEFINE c == req[r].code
<1>0. TypeOK /\ \A s \in Requests : RequestFits(s) /\ PairFits(s)
  BY DEF IInv
<1>1. c \in Codes /\ req[r] \in ExchangeReq /\ ~Minted(r) /\ ~Founder(r) /\ ~Rotator(r)
  BY <1>0, ConstantAssumption DEF RequestFits, PairFits, ExchangePc, ExchangeReq, SavePc,
     Founder, Rotator, Minted
<1>2. /\ rts' = rts /\ ats' = ats /\ req' = req
      /\ CodesMarked({}, "used") \/ (codes[c].status = "unused" /\ CodesMarked({c}, "used"))
      /\ pc' = [pc EXCEPT ![r] = "check"] => codes[c].status = "unused" /\ CodesMarked({c}, "used")
      /\ pc' = [pc EXCEPT ![r] = "check"] \/ pc' = [pc EXCEPT ![r] = "failed"]
  <2>1. codes' = codes => CodesMarked({}, "used")
    BY <1>0 DEF TypeOK, CodesMarked
  <2>2. codes' = [codes EXCEPT ![c].status = "used"] => CodesMarked({c}, "used")
    BY <1>0, <1>1, CodesPoint DEF CodeStatus
  <2>3. pc \in [Requests -> Pc] /\ pc[r] = "consume"
    BY <1>0 DEF TypeOK
  <2>4. [pc EXCEPT ![r] = "check"] # [pc EXCEPT ![r] = "failed"]
    BY <2>3
  <2> QED BY <2>1, <2>2, <2>4
<1>3. TypeOK'
  BY <1>0, <1>2 DEF TypeOK, CodesMarked, Pc, ExchangePc, RefreshPc, RevokePc, SavePc
<1>4. \A s \in Requests : RequestFits(s)' /\ PairFits(s)'
  <2>1. \A s \in Requests : (s # r => pc'[s] = pc[s]) /\ pc'[r] \in {"check", "failed"}
    BY <1>0, <1>2 DEF TypeOK
  <2> QED BY <2>1, <1>0, <1>1, <1>2 DEF RequestFits, PairFits, Minted, Founder, Rotator,
          ExchangePc, RefreshPc, RevokePc, SavePc
<1>5. CASE pc' = [pc EXCEPT ![r] = "failed"]
  <2>1. Quiet
    BY <1>0, <1>2, <1>5 DEF Quiet, CodesMarked, TypeOK
  <2> QED BY <1>3, <1>4, <2>1, QuietLineage, QuietDead DEF IInv, Lineage
<1>6. CASE pc' = [pc EXCEPT ![r] = "check"]
  <2>1. /\ codes[c].status = "unused"
        /\ CodesMarked({c}, "used")
        /\ \A s \in Requests : (s # r => pc'[s] = pc[s]) /\ pc'[r] = "check"
    BY <1>0, <1>2, <1>6 DEF TypeOK
  <2>2. \A s \in Requests : /\ Redeemed(s) => req[s].code # c
                            /\ Redeemed(s)' <=> Redeemed(s) \/ s = r
                            /\ Rotated(s)' <=> Rotated(s)
                            /\ Founder(s)' <=> Founder(s)
                            /\ Rotator(s)' <=> Rotator(s)
                            /\ Minted(s)' <=> Minted(s)
                            /\ Holders(s)' = Holders(s)
    BY <1>1, <1>2, <2>1 DEF IInv, RedeemedOnce, Redeemed, Rotated, Founder, Rotator, Minted,
       Holders, ConsumeAuthCode, MatchesUnusedCode
  <2>3. RedeemedOnce'
    BY <1>1, <1>2, <2>1, <2>2, Places DEF IInv, RedeemedOnce, CodesMarked
  <2>4. RotatedOnce' /\ FamilyInherited' /\ OneUsableRefreshToken'
    BY <1>2, <2>2 DEF IInv, RotatedOnce, FamilyInherited, OneUsableRefreshToken
  <2>5. TokensGoToTheirClient'
    <3>1. \A s \in Requests : Minted(s) => Origin(s)' = Origin(s) /\ Origin(s) \in Codes
      BY <1>2, Places DEF Origin
    <3> QED BY <1>2, <2>1, <2>2, <3>1 DEF IInv, TokensGoToTheirClient, CodesMarked
  <2>6. MintedInTime'
    BY <1>2, <2>1, <2>2, Places DEF IInv, MintedInTime, CodesMarked
  <2>7. DeadStays
    BY <2>2 DEF DeadStays
  <2> QED BY <1>3, <1>4, <2>3, <2>4, <2>5, <2>6, <2>7 DEF IInv
<1> QED BY <1>2, <1>5, <1>6

(* A pair is minted: r, which was Redeemed or Rotated, becomes a Founder or *)
(* a Rotator, and the holder of its family.                                 *)
LEMMA MintEffect ==
  ASSUME TypeOK, NEW r \in Requests, NEW client \in Clients \cup {None},
         NEW family \in Requests, Mint(r, client, family)
  PROVE  /\ ats' \in [Requests -> AccessRow]
         /\ rts' \in [Requests -> RefreshRow]
         /\ \A t \in Requests \ {r} : rts'[t] = rts[t] /\ ats'[t] = ats[t]
         /\ ats'[r].client = client
         /\ rts'[r].status = "minted" /\ rts'[r].client = client
         /\ rts'[r].exp = now + RefreshTokenTtl /\ rts'[r].family = family
<1>1. now + AccessTokenTtl \in Nat /\ now + RefreshTokenTtl \in Nat
  BY ConstantAssumption DEF TypeOK
<1>2. /\ [status |-> "minted", client |-> client, exp |-> now + AccessTokenTtl] \in AccessRow
      /\ [status |-> "minted", client |-> client, exp |-> now + RefreshTokenTtl,
          family |-> family] \in RefreshRow
  BY <1>1 DEF AccessRow, RefreshRow, TokenStatus
<1> QED BY <1>2 DEF Mint, TypeOK

(* The request leaves the callback with an error: quiet.                    *)
LEMMA RefusedStep ==
  ASSUME IInv, NEW r \in Requests, pc[r] \in {"check", "rotate"},
         pc' = [pc EXCEPT ![r] = "failed"], UNCHANGED <<now, tables, req, faults>>
  PROVE  IInv' /\ Quiet
<1> USE DEF tables
<1>0. TypeOK /\ \A s \in Requests : RequestFits(s) /\ PairFits(s)
  BY DEF IInv
<1>1. TypeOK'
  BY <1>0 DEF TypeOK, Pc
<1>2. Quiet
  BY <1>0 DEF Quiet, TypeOK
<1>3. \A s \in Requests : RequestFits(s)' /\ PairFits(s)'
  BY <1>0 DEF TypeOK, RequestFits, PairFits, Minted, Founder, Rotator, ExchangePc, RefreshPc, RevokePc, SavePc
<1> QED BY <1>1, <1>2, <1>3, QuietLineage DEF IInv, Lineage

LEMMA CheckAuthCodeStep ==
  ASSUME IInv, NEW r \in Requests, CheckAuthCode(r)
  PROVE  IInv' /\ DeadStays
<1> USE DEF CheckAuthCode, Goto
<1> DEFINE c == req[r].code
<1>0. TypeOK /\ \A s \in Requests : RequestFits(s) /\ PairFits(s)
  BY DEF IInv
<1>1. c \in Codes /\ req[r] \in ExchangeReq /\ ~Minted(r) /\ ~Founder(r) /\ ~Rotator(r) /\ Redeemed(r)
  BY <1>0, ConstantAssumption DEF RequestFits, PairFits, ExchangePc, ExchangeReq, SavePc,
     Founder, Rotator, Minted, Redeemed
<1>2. CASE ~CodeAccepted(r)
  BY <1>2, RefusedStep, QuietDead DEF tables
<1>3. CASE CodeAccepted(r)
  <2>1. codes[c].client \in Clients \cup {None} /\ codes[c].exp \in Nat
    BY <1>0, <1>1 DEF TypeOK, CodeRow
  <2>2. /\ pc' = [pc EXCEPT ![r] = "save"]
        /\ codes' = codes /\ req' = req /\ now' = now /\ faults' = faults
        /\ codes[c].client = req[r].client /\ now <= codes[c].exp
    BY <1>3 DEF CodeAccepted
  <2>3. /\ ats' \in [Requests -> AccessRow]
        /\ rts' \in [Requests -> RefreshRow]
        /\ \A t \in Requests \ {r} : rts'[t] = rts[t] /\ ats'[t] = ats[t]
        /\ ats'[r].client = codes[c].client
        /\ rts'[r].status = "minted" /\ rts'[r].client = codes[c].client
        /\ rts'[r].exp = now + RefreshTokenTtl /\ rts'[r].family = r
    BY <1>0, <1>3, <2>1, MintEffect
  <2>4. TypeOK'
    BY <1>0, <2>2, <2>3 DEF TypeOK, Pc, SavePc
  <2>5. pc'[r] = "save" /\ \A s \in Requests \ {r} : pc'[s] = pc[s]
    BY <1>0, <2>2 DEF TypeOK
  <2>6. /\ \A s \in Requests : /\ Founder(s)' <=> Founder(s) \/ s = r
                               /\ Minted(s)' <=> Minted(s) \/ s = r
                               /\ Rotator(s)' <=> Rotator(s)
                               /\ Redeemed(s)' <=> Redeemed(s)
                               /\ Rotated(s)' <=> Rotated(s)
        /\ \A s \in Requests : Rotated(s) => req[s].token # r
        /\ \A s \in Requests : Minted(s) => s # r /\ rts[s].family # r
    BY <1>1, <2>3, <2>5, Places DEF Founder, Minted, Rotator, Redeemed, Rotated
  <2>7. \A s \in Requests : RequestFits(s)' /\ PairFits(s)'
    <3>1. RequestFits(r)' /\ PairFits(r)'
      BY <1>1, <2>2, <2>3, <2>5, <2>6 DEF RequestFits, PairFits, ExchangePc, RefreshPc, RevokePc, SavePc
    <3>2. ASSUME NEW s \in Requests \ {r} PROVE RequestFits(s)' /\ PairFits(s)'
      <4>1. RequestFits(s) /\ PairFits(s) /\ rts'[s] = rts[s] /\ pc'[s] = pc[s]
        BY <1>0, <2>3, <2>5
      <4>2. pc[s] \in RefreshPc \/ Rotator(s) => req[s].token \in Requests
        BY <4>1 DEF RequestFits, RefreshReq
      <4> QED BY <4>1, <4>2, <2>2, <2>6 DEF RequestFits, PairFits
    <3> QED BY <3>1, <3>2
  <2>8. RedeemedOnce'
    BY <2>2, <2>6 DEF IInv, RedeemedOnce
  <2>9. RotatedOnce'
    BY <2>2, <2>3, <2>6, Places DEF IInv, RotatedOnce
  <2>10. FamilyInherited'
    BY <1>1, <2>2, <2>3, <2>6, Places DEF IInv, FamilyInherited, Rotated
  <2>11. OneUsableRefreshToken' /\ DeadStays
    <3>1. \A f \in Requests \ {r} : Holders(f)' \subseteq Holders(f)
      BY <1>1, <2>2, <2>3, <2>5, <2>6, Places DEF Holders, Rotated
    <3>2. Holders(r)' \subseteq {r}
      BY <1>0, <1>1, <2>2, <2>3, <2>5, <2>6, Places, ConstantAssumption DEF Holders, Rotated, PairFits
    <3> QED BY <1>1, <3>1, <3>2 DEF IInv, OneUsableRefreshToken, DeadStays
  <2>12. TokensGoToTheirClient'
    <3>1. Origin(r)' = c
      BY <2>2, <2>3 DEF Origin
    <3>2. \A s \in Requests : Minted(s) => Origin(s)' = Origin(s)
      BY <2>2, <2>3, <2>6, Places DEF Origin
    <3> QED BY <2>2, <2>3, <2>6, <3>1, <3>2 DEF IInv, TokensGoToTheirClient
  <2>13. MintedInTime'
    <3>1. now + RefreshTokenTtl <= codes[c].exp + RefreshTokenTtl
      BY <1>0, <2>1, <2>2, ConstantAssumption DEF TypeOK
    <3>2. \A s \in Requests : Founder(s) \/ Rotator(s) => s # r
      BY <1>1
    <3>3. \A s \in Requests : Rotator(s) => req[s].token \in Requests \ {r}
      BY <2>6, Places DEF Rotated
    <3> QED BY <2>2, <2>3, <2>6, <3>1, <3>2, <3>3 DEF IInv, MintedInTime
  <2> QED BY <2>4, <2>7, <2>8, <2>9, <2>10, <2>11, <2>12, <2>13 DEF IInv
<1> QED BY <1>2, <1>3

(* Whoever wins the CAS takes over from the token it presented.             *)
LEMMA AtomicRevokeRefreshTokenStep ==
  ASSUME IInv, NEW r \in Requests, AtomicRevokeRefreshToken(r)
  PROVE  IInv' /\ DeadStays
<1> USE DEF AtomicRevokeRefreshToken, MatchesLiveRefreshToken, Goto, Fault
<1> DEFINE t == req[r].token
<1>0. TypeOK /\ \A s \in Requests : RequestFits(s) /\ PairFits(s)
  BY DEF IInv
<1>1. /\ t \in Requests /\ req[r] \in RefreshReq /\ Minted(t)
      /\ ~Minted(r) /\ ~Founder(r) /\ ~Rotator(r) /\ t # r
  BY <1>0, ConstantAssumption DEF RequestFits, PairFits, RefreshPc, RefreshReq, SavePc,
     Founder, Rotator, Minted
<1>2. codes' = codes /\ ats' = ats /\ req' = req /\ now' = now
  OBVIOUS
<1>3. CASE rts' = rts /\ pc' = [pc EXCEPT ![r] = "lookup"]
  <2>1. TypeOK'
    BY <1>0, <1>3 DEF TypeOK, Pc, RefreshPc
  <2>2. Quiet
    BY <1>0, <1>2, <1>3 DEF Quiet, TypeOK
  <2>3. \A s \in Requests : RequestFits(s)' /\ PairFits(s)'
    BY <1>0, <1>2, <1>3 DEF TypeOK, RequestFits, PairFits, Minted, Founder, Rotator,
       ExchangePc, RefreshPc, RevokePc, SavePc
  <2> QED BY <2>1, <2>2, <2>3, QuietLineage, QuietDead DEF IInv, Lineage
<1>4. CASE /\ rts[t].status = "live" /\ rts' = [rts EXCEPT ![t].status = "revoked"]
           /\ pc' = [pc EXCEPT ![r] = "rotate"] /\ faults' = faults
  <2>1. RtsMarked({t}, "revoked")
    BY <1>0, <1>1, <1>4, RtsPoint DEF TokenStatus
  <2>2. TypeOK'
    BY <1>0, <1>2, <1>4, <2>1 DEF TypeOK, RtsMarked, Pc, RefreshPc
  <2>3. pc'[r] = "rotate" /\ pc[r] = "cas" /\ \A s \in Requests \ {r} : pc'[s] = pc[s]
    BY <1>0, <1>4 DEF TypeOK
  <2>4. \A s \in Requests : /\ rts'[s].family = rts[s].family
                            /\ rts'[s].client = rts[s].client
                            /\ rts'[s].exp = rts[s].exp
                            /\ s # t => rts'[s].status = rts[s].status
                            /\ rts'[t].status = "revoked"
    BY <1>1, <2>1 DEF RtsMarked
  <2>5. /\ \A s \in Requests : /\ Founder(s)' <=> Founder(s)
                               /\ Rotator(s)' <=> Rotator(s)
                               /\ Minted(s)' <=> Minted(s)
                               /\ Redeemed(s)' <=> Redeemed(s)
                               /\ Rotated(s)' <=> Rotated(s) \/ s = r
        /\ \A s \in Requests : Rotated(s) => req[s].token # t
    BY <1>1, <1>4, <2>3, <2>4 DEF Founder, Rotator, Minted, Redeemed, Rotated, IInv, RotatedOnce
  <2>6. \A s \in Requests : RequestFits(s)' /\ PairFits(s)'
    <3>1. \A s \in Requests : RequestFits(s)'
      BY <1>0, <1>1, <1>2, <2>3, <2>5 DEF RequestFits, RefreshReq, ExchangePc, RefreshPc, RevokePc
    <3>2. \A s \in Requests : PairFits(s)'
      BY <1>0, <1>4, <2>3, <2>4, <2>5 DEF PairFits, SavePc
    <3> QED BY <3>1, <3>2
  <2>7. RedeemedOnce' /\ RotatedOnce' /\ FamilyInherited'
    BY <1>1, <1>2, <2>4, <2>5, Places DEF IInv, RedeemedOnce, RotatedOnce, FamilyInherited
  <2>8. OneUsableRefreshToken' /\ DeadStays
    <3>1. t \in Holders(rts[t].family) /\ rts[t].family \in Requests
      BY <1>1, <1>4, Places DEF Holders, Usable
    <3>2. \A f \in Requests : Holders(f)' \subseteq (Holders(f) \ {t}) \cup {r}
      <4>1. pc'[t] # "rotate"
        BY <1>0, <1>1, <2>3 DEF PairFits, SavePc
      <4>2. \A s \in Requests : Rotated(s) => req[s].token \in Requests
        BY Places
      <4> QED BY <4>1, <4>2, <1>1, <1>2, <2>3, <2>4 DEF Holders, Usable, Rotated
    <3>3. \A f \in Requests : r \in Holders(f)' => f = rts[t].family
      BY <1>1, <1>2, <2>3, <2>4, <2>5 DEF Holders, Usable, Minted
    <3> QED BY <3>1, <3>2, <3>3 DEF IInv, OneUsableRefreshToken, DeadStays
  <2>9. TokensGoToTheirClient'
    <3>1. \A s \in Requests : Minted(s) => Origin(s)' = Origin(s)
      BY <1>2, <2>4, Places DEF Origin
    <3> QED BY <1>2, <2>4, <2>5, <3>1 DEF IInv, TokensGoToTheirClient
  <2>10. MintedInTime'
    BY <1>2, <2>4, <2>5, Places DEF IInv, MintedInTime, Rotated
  <2> QED BY <2>2, <2>6, <2>7, <2>8, <2>9, <2>10 DEF IInv
<1> QED BY <1>3, <1>4

(* The winner mints the successor, in the same family.                      *)
LEMMA RotateRefreshTokenStep ==
  ASSUME IInv, NEW r \in Requests, RotateRefreshToken(r)
  PROVE  IInv' /\ DeadStays
<1> USE DEF RotateRefreshToken, Goto
<1> DEFINE t == req[r].token
<1>0. TypeOK /\ \A s \in Requests : RequestFits(s) /\ PairFits(s)
  BY DEF IInv
<1>1. /\ t \in Requests /\ req[r] \in RefreshReq /\ Minted(t) /\ Rotated(r)
      /\ ~Minted(r) /\ ~Founder(r) /\ ~Rotator(r) /\ t # r
  BY <1>0, ConstantAssumption DEF RequestFits, PairFits, RefreshPc, RefreshReq, SavePc,
     Founder, Rotator, Minted, Rotated
<1>2. CASE ~RefreshAccepted(r)
  BY <1>2, RefusedStep, QuietDead DEF tables
<1>3. CASE RefreshAccepted(r)
  <2>1. /\ rts[t].client \in Clients \cup {None} /\ rts[t].exp \in Nat
        /\ rts[t].family \in Requests /\ Founder(rts[t].family) /\ rts[t].family # r
    BY <1>0, <1>1, Places DEF TypeOK, RefreshRow
  <2>2. /\ pc' = [pc EXCEPT ![r] = "save"]
        /\ codes' = codes /\ req' = req /\ now' = now /\ faults' = faults
        /\ rts[t].client = req[r].client /\ now <= rts[t].exp
    BY <1>3 DEF RefreshAccepted
  <2>3. /\ ats' \in [Requests -> AccessRow]
        /\ rts' \in [Requests -> RefreshRow]
        /\ \A s \in Requests \ {r} : rts'[s] = rts[s] /\ ats'[s] = ats[s]
        /\ ats'[r].client = rts[t].client
        /\ rts'[r].status = "minted" /\ rts'[r].client = rts[t].client
        /\ rts'[r].exp = now + RefreshTokenTtl /\ rts'[r].family = rts[t].family
    BY <1>0, <1>3, <2>1, MintEffect
  <2>4. TypeOK'
    BY <1>0, <2>2, <2>3 DEF TypeOK, Pc, SavePc
  <2>5. pc'[r] = "save" /\ pc[r] = "rotate" /\ \A s \in Requests \ {r} : pc'[s] = pc[s]
    BY <1>0, <2>2 DEF TypeOK
  <2>6. /\ \A s \in Requests : /\ Founder(s)' <=> Founder(s)
                               /\ Minted(s)' <=> Minted(s) \/ s = r
                               /\ Rotator(s)' <=> Rotator(s) \/ s = r
                               /\ Redeemed(s)' <=> Redeemed(s)
                               /\ Rotated(s)' <=> Rotated(s)
        /\ \A s \in Requests : Rotated(s) => req[s].token \in Requests \ {r}
        /\ \A s \in Requests : Minted(s) => s # r /\ rts[s].family # r
    BY <1>1, <2>1, <2>3, <2>5, Places, ConstantAssumption DEF Founder, Minted, Rotator, Redeemed, Rotated
  <2>7. \A s \in Requests : RequestFits(s)' /\ PairFits(s)'
    <3>1. RequestFits(r)' /\ PairFits(r)'
      BY <1>1, <2>1, <2>2, <2>3, <2>5, <2>6 DEF RequestFits, PairFits, ExchangePc, RefreshPc, RevokePc, SavePc
    <3>2. ASSUME NEW s \in Requests \ {r} PROVE RequestFits(s)' /\ PairFits(s)'
      <4>1. RequestFits(s) /\ PairFits(s) /\ rts'[s] = rts[s] /\ pc'[s] = pc[s]
        BY <1>0, <2>3, <2>5
      <4>2. pc[s] \in RefreshPc \/ Rotator(s) => req[s].token \in Requests
        BY <4>1 DEF RequestFits, RefreshReq
      <4> QED BY <4>1, <4>2, <2>2, <2>6 DEF RequestFits, PairFits
    <3> QED BY <3>1, <3>2
  <2>8. RedeemedOnce'
    BY <2>2, <2>6 DEF IInv, RedeemedOnce
  <2>9. RotatedOnce'
    BY <2>2, <2>3, <2>6 DEF IInv, RotatedOnce
  <2>10. FamilyInherited'
    <3>1. \A s \in Requests : Rotator(s) => s # r /\ req[s].token \in Requests \ {r}
      BY <1>1, <2>6 DEF Rotated
    <3> QED BY <1>1, <2>2, <2>3, <2>6, <3>1 DEF IInv, FamilyInherited
  <2>11. OneUsableRefreshToken' /\ DeadStays
    <3>1. \A f \in Requests : Holders(f)' \subseteq Holders(f)
      BY <1>1, <2>2, <2>3, <2>5, <2>6 DEF Holders, Rotated
    <3> QED BY <3>1 DEF IInv, OneUsableRefreshToken, DeadStays
  <2>12. TokensGoToTheirClient'
    <3>1. Origin(r)' = Origin(t)
      BY <2>2, <2>3 DEF Origin
    <3>2. \A s \in Requests : Minted(s) => Origin(s)' = Origin(s)
      BY <2>2, <2>3, <2>6 DEF Origin
    <3> QED BY <1>1, <2>2, <2>3, <2>6, <3>1, <3>2 DEF IInv, TokensGoToTheirClient
  <2>13. MintedInTime'
    <3>1. now + RefreshTokenTtl <= rts[t].exp + RefreshTokenTtl
      BY <1>0, <2>1, <2>2, ConstantAssumption DEF TypeOK
    <3>2. \A s \in Requests : Rotator(s) => s # r /\ req[s].token \in Requests \ {r}
      BY <1>1, <2>6 DEF Rotated
    <3> QED BY <1>1, <2>2, <2>3, <2>6, <3>1, <3>2 DEF IInv, MintedInTime
  <2> QED BY <2>4, <2>7, <2>8, <2>9, <2>10, <2>11, <2>12, <2>13 DEF IInv
<1> QED BY <1>2, <1>3

-----------------------------------------------------------------------------
LEMMA InitIInv == Init => IInv
<1> SUFFICES ASSUME Init PROVE IInv
  OBVIOUS
<1>1. TypeOK
  BY ConstantAssumption DEF Init, TypeOK, NoCode, NoAccess, NoRefresh, CodeRow, AccessRow, RefreshRow,
     CodeStatus, TokenStatus, Pc
<1>2. \A r \in Requests : ~Minted(r) /\ rts[r].family = None /\ pc[r] = "idle"
  BY DEF Init, NoRefresh, Minted
<1>3. \A r \in Requests : ~Founder(r) /\ ~Rotator(r) /\ ~Redeemed(r) /\ ~Rotated(r)
  BY <1>2, ConstantAssumption DEF Founder, Rotator, Redeemed, Rotated
<1>4. \A r \in Requests : RequestFits(r) /\ PairFits(r)
  BY <1>2, <1>3 DEF RequestFits, PairFits, ExchangePc, RefreshPc, RevokePc, SavePc, Minted
<1>5. \A f \in Requests : Holders(f) = {}
  BY <1>2 DEF Holders, Usable, Minted
<1> QED BY <1>1, <1>2, <1>3, <1>4, <1>5 DEF IInv, RedeemedOnce, RotatedOnce, FamilyInherited,
        OneUsableRefreshToken, TokensGoToTheirClient, MintedInTime

LEMMA StutterIInv == IInv /\ UNCHANGED vars => IInv' /\ DeadStays
<1> SUFFICES ASSUME IInv, UNCHANGED vars PROVE IInv' /\ DeadStays
  OBVIOUS
<1> USE DEF vars
<1>1. Quiet /\ TypeOK'
  BY DEF Quiet, IInv, TypeOK
<1>2. \A s \in Requests : RequestFits(s)' /\ PairFits(s)'
  BY DEF IInv, RequestFits, PairFits, Minted, Founder, Rotator
<1> QED BY <1>1, <1>2, QuietLineage, QuietDead DEF IInv, Lineage

LEMMA StepIInv == IInv /\ [Next]_vars => IInv' /\ DeadStays
<1> SUFFICES ASSUME IInv, Next PROVE IInv' /\ DeadStays
  BY StutterIInv
<1>1. CASE \E c \in Codes, client \in Clients, pkce \in PkceChoices :
             GenerateAuthorizationCode(c, client, pkce)
  BY <1>1, QuietDead, GenerateAuthorizationCodeStep
<1>2. ASSUME NEW r \in Requests, Receive(r) PROVE IInv' /\ DeadStays
  BY <1>2, QuietDead, ReceiveExchangeStep, ReceiveRefreshStep, ReceiveRevokeStep DEF Receive
<1>3. ASSUME NEW r \in Requests, Handle(r) PROVE IInv' /\ DeadStays
  BY <1>3, QuietDead, ConsumeAuthCodeStep, CheckAuthCodeStep, InsertAccessTokenStep, InsertRefreshTokenStep,
     SaveAccessTokenStep, SaveRefreshTokenStep, AtomicRevokeRefreshTokenStep, RotateRefreshTokenStep,
     GetRefreshTokenStep, RevokeFamilyRefreshTokensStep, RevokeFamilyAccessTokensStep,
     IntrospectForRevokeStep, RevokeAccessStep, RevokeRefreshStep DEF Handle
<1>4. ASSUME NEW r \in Requests, EndTransaction(r) PROVE IInv' /\ DeadStays
  BY <1>4, QuietDead, EndTransactionStep
<1>5. CASE DeleteExpiredData
  BY <1>5, QuietDead, DeleteExpiredCodesStep, DeleteExpiredAccessTokensStep,
     DeleteExpiredRefreshTokensStep, ArchiveExpiredTokensStep DEF DeleteExpiredData
<1>6. CASE Tick
  BY <1>6, QuietDead, TickStep
<1> QED BY <1>1, <1>2, <1>3, <1>4, <1>5, <1>6 DEF Next

(* The inductive invariant holds in every behaviour of the token service,   *)
(* its type invariant included.                                             *)
THEOREM Invariance == Spec => []IInv
<1>1. Init => IInv
  BY InitIInv
<1>2. IInv /\ [Next]_vars => IInv'
  BY StepIInv
<1> QED BY <1>1, <1>2, PTL DEF Spec

THEOREM TypeCorrect == Spec => []TypeOK
<1>1. IInv => TypeOK
  BY DEF IInv
<1> QED BY <1>1, Invariance, PTL

(* consumeAuthCode's UPDATE is what makes a code single-use.                *)
THEOREM CodeIsSingleUse == Spec => []OneFamilyPerCode
<1>1. IInv => OneFamilyPerCode
  BY DEF IInv, RedeemedOnce, Redeemed, OneFamilyPerCode
<1> QED BY <1>1, Invariance, PTL

(* atomicRevokeRefreshToken's UPDATE is what keeps a family to one usable   *)
(* refresh token.                                                           *)
THEOREM FamilyHasOneUsableToken == Spec => []OneUsableRefreshToken
<1>1. IInv => OneUsableRefreshToken
  BY DEF IInv
<1> QED BY <1>1, Invariance, PTL

(* Rotation never forks.                                                    *)
THEOREM RotationNeverForks == Spec => []RotationIsAChain
<1>1. IInv => RotationIsAChain
  BY Places DEF IInv, RotatedOnce, Rotated, FamilyInherited, RotationIsAChain, Usable
<1> QED BY <1>1, Invariance, PTL

(* Pairs stay with the client that obtained the code.                       *)
THEOREM ClientBinding == Spec => []TokensGoToTheirClient
<1>1. IInv => TokensGoToTheirClient
  BY DEF IInv
<1> QED BY <1>1, Invariance, PTL

(* A family without a usable refresh token is over for good.                *)
THEOREM DeadFamilyIsOver == Spec => DeadFamilyStaysDead
<1>1. IInv /\ [Next]_vars => [DeadStays]_vars
  BY StepIInv
<1>2. [][DeadStays]_vars <=> DeadFamilyStaysDead
  BY PTL DEF DeadStays, DeadFamilyStaysDead
<1> QED BY <1>1, <1>2, Invariance, PTL DEF Spec

(* Nothing is minted from an expired code or refresh token.                 *)
THEOREM NoLateMinting == Spec => []MintedInTime
<1>1. IInv => MintedInTime
  BY DEF IInv
<1> QED BY <1>1, Invariance, PTL

-----------------------------------------------------------------------------
(* How far the storing of a pair has come: in a transaction both tokens are *)
(* to be seen or neither is, without one the access token is stored before  *)
(* the refresh token.                                                       *)
Present == {"live", "revoked", "deleted"}

StoredFits(r) ==
  /\ Transactional => (ats[r].status \in Present <=> rts[r].status \in Present)
  /\ ~Transactional =>
       /\ ats[r].status # "uncommitted" /\ rts[r].status # "uncommitted"
       /\ ats[r].status = "minted" => pc[r] = "save"

StoresFit == \A r \in Requests : StoredFits(r)

(* Steps that store nothing: rows change among those present, and no        *)
(* request starts to save.                                                  *)
StoresNothing ==
  \A r \in Requests :
    /\ ats'[r].status = ats[r].status \/ {ats[r].status, ats'[r].status} \subseteq Present
    /\ rts'[r].status = rts[r].status \/ {rts[r].status, rts'[r].status} \subseteq Present
    /\ pc'[r] \in {"save", "saveRt"} <=> pc[r] \in {"save", "saveRt"}
    /\ pc[r] \in {"save", "saveRt"} => pc'[r] = pc[r]

LEMMA NothingStored ==
  ASSUME StoresFit, StoresNothing
  PROVE  StoresFit'
BY DEF StoresFit, StoredFits, StoresNothing, Present

LEMMA RequestsStoreNothing ==
  ASSUME IInv, NEW r \in Requests,
         \/ Receive(r) \/ ConsumeAuthCode(r) \/ GetRefreshToken(r) \/ IntrospectForRevoke(r)
  PROVE  StoresNothing
<1>1. UNCHANGED <<ats, rts>> /\ pc[r] \notin SavePc /\ pc'[r] \notin SavePc
      /\ \A s \in Requests \ {r} : pc'[s] = pc[s]
  BY DEF Receive, ReceiveExchange, ReceiveRefresh, ReceiveRevoke, ConsumeAuthCode, GetRefreshToken,
     IntrospectForRevoke, Goto, tables, SavePc, IInv, TypeOK
<1> QED BY <1>1 DEF StoresNothing, SavePc

LEMMA RevokeRows ==
  ASSUME TypeOK, NEW r \in Requests, req[r].token \in Requests,
         \/ AtomicRevokeRefreshToken(r) \/ RevokeFamilyRefreshTokens(r)
         \/ RevokeFamilyAccessTokens(r) \/ RevokeAccess(r) \/ RevokeRefresh(r)
  PROVE  /\ \E S \in SUBSET {t \in Requests : ats[t].status = "live"} : AtsMarked(S, "revoked")
         /\ \E S \in SUBSET {t \in Requests : rts[t].status = "live"} : RtsMarked(S, "revoked")
<1> DEFINE t == req[r].token
           f == rts[t].family
           A == {s \in Requests : rts[s].family = f /\ rts[s].status \in Visible
                                  /\ ats[s].status = "live"}
           R == {s \in Requests : rts[s].family = f /\ rts[s].status = "live"}
<1>1. "revoked" \in TokenStatus
  BY DEF TokenStatus
<1>2. /\ ats' = ats => AtsMarked({}, "revoked")
      /\ rts' = rts => RtsMarked({}, "revoked")
  BY DEF TypeOK, AtsMarked, RtsMarked
<1>3. /\ ats' = [ats EXCEPT ![t].status = "revoked"] => AtsMarked({t}, "revoked")
      /\ rts' = [rts EXCEPT ![t].status = "revoked"] => RtsMarked({t}, "revoked")
  BY <1>1, AtsPoint, RtsPoint
<1>4. RevokeFamilyAccessTokens(r) /\ ats' # ats => AtsMarked(A, "revoked")
  <2> SUFFICES ASSUME RevokeFamilyAccessTokens(r), ats' # ats PROVE AtsMarked(A, "revoked")
    OBVIOUS
  <2>1. ats' = [s \in Requests |-> IF s \in A THEN [ats[s] EXCEPT !.status = "revoked"] ELSE ats[s]]
    BY DEF RevokeFamilyAccessTokens
  <2>2. A \in SUBSET Requests
    OBVIOUS
  <2> HIDE DEF A
  <2> QED BY <1>1, <2>1, <2>2, AtsBulk
<1>5. RevokeFamilyRefreshTokens(r) /\ rts' # rts => RtsMarked(R, "revoked")
  <2> SUFFICES ASSUME RevokeFamilyRefreshTokens(r), rts' # rts PROVE RtsMarked(R, "revoked")
    OBVIOUS
  <2>1. rts' = [s \in Requests |-> IF s \in R THEN [rts[s] EXCEPT !.status = "revoked"] ELSE rts[s]]
    BY DEF RevokeFamilyRefreshTokens
  <2>2. R \in SUBSET Requests
    OBVIOUS
  <2> HIDE DEF R
  <2> QED BY <1>1, <2>1, <2>2, RtsBulk
<1>6. /\ \/ ats' = ats
         \/ ats' = [ats EXCEPT ![t].status = "revoked"] /\ ats[t].status = "live"
         \/ RevokeFamilyAccessTokens(r)
      /\ \/ rts' = rts
         \/ rts' = [rts EXCEPT ![t].status = "revoked"] /\ rts[t].status = "live"
         \/ RevokeFamilyRefreshTokens(r)
  BY DEF AtomicRevokeRefreshToken, MatchesLiveRefreshToken, RevokeFamilyRefreshTokens,
     RevokeFamilyAccessTokens, RevokeAccess, RevokeRefresh
<1> QED BY <1>2, <1>3, <1>4, <1>5, <1>6

LEMMA RevocationsStoreNothing ==
  ASSUME IInv, NEW r \in Requests,
         \/ AtomicRevokeRefreshToken(r) \/ RevokeFamilyRefreshTokens(r)
         \/ RevokeFamilyAccessTokens(r) \/ RevokeAccess(r) \/ RevokeRefresh(r)
  PROVE  StoresNothing
<1>1. /\ pc[r] \notin SavePc /\ pc'[r] \notin SavePc /\ \A s \in Requests \ {r} : pc'[s] = pc[s]
      /\ pc[r] \in RefreshPc \cup RevokePc
  BY DEF AtomicRevokeRefreshToken, RevokeFamilyRefreshTokens, RevokeFamilyAccessTokens,
     RevokeAccess, RevokeRefresh, Goto, SavePc, RefreshPc, RevokePc, IInv, TypeOK
<1>2. TypeOK /\ req[r].token \in Requests
  BY <1>1 DEF IInv, RequestFits, RefreshReq, RevokeReq
<1>3. PICK S \in SUBSET {t \in Requests : ats[t].status = "live"} : AtsMarked(S, "revoked")
  BY <1>2, RevokeRows
<1>4. PICK R \in SUBSET {t \in Requests : rts[t].status = "live"} : RtsMarked(R, "revoked")
  BY <1>2, RevokeRows
<1> QED BY <1>1, <1>3, <1>4 DEF StoresNothing, SavePc, Present, AtsMarked, RtsMarked

LEMMA OthersStoreNothing ==
  ASSUME IInv,
         \/ \E c \in Codes, client \in Clients, pkce \in PkceChoices :
              GenerateAuthorizationCode(c, client, pkce)
         \/ DeleteExpiredData \/ Tick
  PROVE  StoresNothing
<1>1. UNCHANGED pc /\ TypeOK
  BY DEF GenerateAuthorizationCode, DeleteExpiredData, DeleteExpiredCodes,
     DeleteExpiredAccessTokens, DeleteExpiredRefreshTokens, ArchiveExpiredTokens, Tick, IInv
<1>2. CASE UNCHANGED <<ats, rts>>
  BY <1>1, <1>2 DEF StoresNothing
<1>5. ASSUME NEW cutoff \in 0..now, ArchiveExpiredTokens(cutoff) PROVE StoresNothing
  <2>1. UNCHANGED rts /\ \E S \in SUBSET Requests :
                            AtsMarked(S, "deleted") /\ \A t \in S : ats[t].status \in Visible
    BY <1>1, <1>5, ArchivedRows
  <2> QED BY <1>1, <2>1 DEF StoresNothing, Present, Visible, AtsMarked
<1>3. ASSUME NEW cutoff \in 0..now, DeleteExpiredAccessTokens(cutoff) PROVE StoresNothing
  <2> DEFINE S == {t \in Requests : Expired(ats[t], cutoff, Visible)}
  <2>1. AtsMarked(S, "deleted")
    BY <1>1, <1>3, AtsBulk DEF DeleteExpiredAccessTokens, TokenStatus
  <2>2. UNCHANGED rts /\ \A t \in S : ats[t].status \in Visible
    BY <1>3 DEF DeleteExpiredAccessTokens, Expired
  <2> HIDE DEF S
  <2> QED BY <1>1, <2>1, <2>2 DEF StoresNothing, Present, Visible, AtsMarked
<1>4. ASSUME NEW cutoff \in 0..now, DeleteExpiredRefreshTokens(cutoff) PROVE StoresNothing
  <2> DEFINE S == {t \in Requests : Expired(rts[t], cutoff, Visible)}
  <2>1. RtsMarked(S, "deleted")
    BY <1>1, <1>4, RtsBulk DEF DeleteExpiredRefreshTokens, TokenStatus
  <2>2. UNCHANGED ats /\ \A t \in S : rts[t].status \in Visible
    BY <1>4 DEF DeleteExpiredRefreshTokens, Expired
  <2> HIDE DEF S
  <2> QED BY <1>1, <2>1, <2>2 DEF StoresNothing, Present, Visible, RtsMarked
<1> QED BY <1>2, <1>3, <1>4, <1>5
    DEF GenerateAuthorizationCode, DeleteExpiredData, DeleteExpiredCodes, Tick, tables

(* Steps that mint, store or commit one pair.                               *)
LEMMA OnePairStored ==
  ASSUME StoresFit, NEW r \in Requests, StoredFits(r)',
         \A s \in Requests \ {r} : ats'[s] = ats[s] /\ rts'[s] = rts[s] /\ pc'[s] = pc[s]
  PROVE  StoresFit'
BY DEF StoresFit, StoredFits

LEMMA MintStores ==
  ASSUME IInv, StoresFit, NEW r \in Requests, CheckAuthCode(r) \/ RotateRefreshToken(r)
  PROVE  StoresFit'
<1>1. pc'[r] \in {"save", "failed"} /\ pc[r] \in {"check", "rotate"}
      /\ \A s \in Requests \ {r} : pc'[s] = pc[s]
  BY DEF CheckAuthCode, RotateRefreshToken, Goto, IInv, TypeOK
<1>2. CASE UNCHANGED <<ats, rts>> /\ pc'[r] = "failed"
  BY <1>1, <1>2, NothingStored DEF StoresNothing
<1>3. ASSUME NEW client, NEW family, Mint(r, client, family), pc'[r] = "save"
      PROVE  StoresFit'
  <2>1. /\ ats'[r].status = "minted" /\ rts'[r].status = "minted"
        /\ \A s \in Requests \ {r} : ats'[s] = ats[s] /\ rts'[s] = rts[s]
    BY <1>3 DEF Mint, IInv, TypeOK
  <2> QED BY <1>1, <1>3, <2>1, OnePairStored DEF StoredFits, Present
<1>4. pc \in [Requests -> Pc]
  BY DEF IInv, TypeOK
<1>5. CASE CheckAuthCode(r)
  BY <1>2, <1>3, <1>4, <1>5 DEF CheckAuthCode, Goto
<1>6. CASE RotateRefreshToken(r)
  BY <1>2, <1>3, <1>4, <1>6 DEF RotateRefreshToken, Goto
<1> QED BY <1>5, <1>6

LEMMA SaveStores ==
  ASSUME IInv, StoresFit, NEW r \in Requests,
         \/ InsertAccessToken(r) \/ InsertRefreshToken(r) \/ EndTransaction(r)
         \/ SaveAccessToken(r) \/ SaveRefreshToken(r)
  PROVE  StoresFit'
<1>1. \A s \in Requests \ {r} : ats'[s] = ats[s] /\ rts'[s] = rts[s] /\ pc'[s] = pc[s]
  BY DEF InsertAccessToken, InsertRefreshToken, EndTransaction, SaveAccessToken, SaveRefreshToken,
     Goto, IInv, TypeOK
<1>2. StoredFits(r) /\ PairFits(r) /\ TypeOK
  BY DEF StoresFit, IInv
<1> DEFINE AtsSet(s) == ats' = [ats EXCEPT ![r].status = s]
           RtsSet(s) == rts' = [rts EXCEPT ![r].status = s]
<1>3. \A s \in {"uncommitted", "live", "lost"} :
        /\ AtsSet(s) => ats'[r].status = s
        /\ RtsSet(s) => rts'[r].status = s
  BY <1>2, AtsPoint, RtsPoint DEF AtsMarked, RtsMarked, TokenStatus
<1>4. CASE InsertAccessToken(r)
  <2>1. /\ Transactional /\ pc[r] = "save"
        /\ \/ AtsSet("uncommitted") /\ rts' = rts
           \/ AtsSet("lost") /\ RtsSet("lost")
    BY <1>4 DEF InsertAccessToken
  <2>2. rts[r].status \notin Present
    BY <1>2, <2>1 DEF PairFits, Present
  <2> HIDE DEF AtsSet, RtsSet
  <2>3. StoredFits(r)'
    BY <1>3, <2>1, <2>2 DEF StoredFits, Present
  <2> QED BY <1>1, <2>3, OnePairStored
<1>5. CASE InsertRefreshToken(r)
  <2>1. /\ Transactional /\ pc[r] = "saveRt" /\ ats' = ats
        /\ RtsSet("uncommitted") \/ RtsSet("lost")
    BY <1>5 DEF InsertRefreshToken
  <2>2. ats[r].status \notin Present
    BY <1>2, <2>1 DEF PairFits, StoredFits, Present
  <2> HIDE DEF AtsSet, RtsSet
  <2>3. StoredFits(r)'
    BY <1>3, <2>1, <2>2 DEF StoredFits, Present
  <2> QED BY <1>1, <2>3, OnePairStored
<1>6. CASE EndTransaction(r)
  <2>1. /\ ats[r].status = "uncommitted" /\ pc[r] = "issued"
        /\ \/ \E s \in {"live", "lost"} : AtsSet(s) /\ RtsSet(s)
           \/ AtsSet("lost") /\ rts' = rts /\ rts[r].status = "lost"
    BY <1>6 DEF EndTransaction
  <2>2. Transactional
    BY <1>2, <2>1 DEF StoredFits, ConstantAssumption
  <2> HIDE DEF AtsSet, RtsSet
  <2>3. StoredFits(r)'
    BY <1>3, <2>1, <2>2 DEF StoredFits, Present
  <2> QED BY <1>1, <2>3, OnePairStored
<1>7. CASE SaveAccessToken(r)
  <2>1. ~Transactional /\ ats'[r].status \in {"live", "lost"} /\ rts'[r] = rts[r]
    <3>1. ~Transactional /\ rts' = rts /\ \E s \in {"live", "lost"} : AtsSet(s)
      BY <1>7 DEF SaveAccessToken
    <3> HIDE DEF AtsSet, RtsSet
    <3> QED BY <1>3, <3>1
  <2> QED BY <1>1, <1>2, <2>1, OnePairStored DEF StoredFits
<1>8. CASE SaveRefreshToken(r)
  <2>1. ~Transactional /\ pc[r] = "saveRt" /\ rts'[r].status \in {"live", "lost"} /\ ats'[r] = ats[r]
    <3>1. ~Transactional /\ pc[r] = "saveRt" /\ ats' = ats /\ \E s \in {"live", "lost"} : RtsSet(s)
      BY <1>8 DEF SaveRefreshToken
    <3> HIDE DEF AtsSet, RtsSet
    <3> QED BY <1>3, <3>1
  <2> QED BY <1>1, <1>2, <2>1, OnePairStored DEF StoredFits
<1> QED BY <1>4, <1>5, <1>6, <1>7, <1>8

LEMMA StoresInvariance == Spec => []StoresFit
<1>1. Init => StoresFit
  BY DEF Init, StoresFit, StoredFits, NoAccess, NoRefresh, Present
<1>2. IInv /\ StoresFit /\ [Next]_vars => StoresFit'
  <2> SUFFICES ASSUME IInv, StoresFit, [Next]_vars PROVE StoresFit'
    OBVIOUS
  <2>1. ASSUME NEW r \in Requests, Receive(r) \/ Handle(r) \/ EndTransaction(r) PROVE StoresFit'
    BY <2>1, RequestsStoreNothing, RevocationsStoreNothing, NothingStored, MintStores, SaveStores
       DEF Handle
  <2>2. CASE \/ \E c \in Codes, client \in Clients, pkce \in PkceChoices :
                  GenerateAuthorizationCode(c, client, pkce)
             \/ DeleteExpiredData \/ Tick
    BY <2>2, OthersStoreNothing, NothingStored
  <2>3. CASE UNCHANGED vars
    BY <2>3 DEF vars, StoresFit, StoredFits
  <2> QED BY <2>1, <2>2, <2>3 DEF Next
<1> QED BY <1>1, <1>2, Invariance, PTL DEF Spec

(* PairIsAtomic: PostgreSQL's saveTokenPair never shows half a pair, for    *)
(* any requests, any failures and any order of their statements.            *)
THEOREM PairsAreAtomic == Spec => [](Transactional => PairIsAtomic)
<1>1. StoresFit => (Transactional => PairIsAtomic)
  BY DEF StoresFit, StoredFits, PairIsAtomic, Present
<1> QED BY <1>1, StoresInvariance, PTL

-----------------------------------------------------------------------------
(* A step with which the rows of an answered pair only go down.             *)
Sinks(t) ==
  /\ pc'[t] = pc[t]
  /\ ats'[t].exp = ats[t].exp /\ (ats'[t].status \in Usable => ats[t].status \in Usable)
  /\ rts'[t].exp = rts[t].exp /\ (rts'[t].status \in Usable => rts[t].status \in Usable)

LEMMA MarkedSinks ==
  ASSUME NEW t \in Requests, pc'[t] = pc[t], NEW A \in SUBSET Requests, NEW R \in SUBSET Requests,
         NEW a \in {"revoked", "deleted"}, NEW b \in {"revoked", "deleted"},
         AtsMarked(A, a), RtsMarked(R, b)
  PROVE  Sinks(t)
BY DEF Sinks, AtsMarked, RtsMarked, Usable

LEMMA HandleSinks ==
  ASSUME IInv, StoresFit, ~Transactional, NEW t \in Requests, HandedOut(t),
         NEW r \in Requests, Receive(r) \/ Handle(r) \/ EndTransaction(r)
  PROVE  Sinks(t)
<1>1. TypeOK /\ pc[t] = "issued"
  BY DEF IInv, HandedOut
<1>2. CASE \/ Receive(r) \/ ConsumeAuthCode(r) \/ GetRefreshToken(r) \/ IntrospectForRevoke(r)
  <2>1. UNCHANGED <<ats, rts>> /\ pc'[t] = pc[t]
    BY <1>1, <1>2 DEF Receive, ReceiveExchange, ReceiveRefresh, ReceiveRevoke, ConsumeAuthCode,
       GetRefreshToken, IntrospectForRevoke, Goto, tables, TypeOK
  <2> QED BY <2>1 DEF Sinks
<1>3. CASE \/ AtomicRevokeRefreshToken(r) \/ RevokeFamilyRefreshTokens(r)
           \/ RevokeFamilyAccessTokens(r) \/ RevokeAccess(r) \/ RevokeRefresh(r)
  <2>1. pc'[t] = pc[t] /\ pc[r] \in RefreshPc \cup RevokePc
    BY <1>1, <1>3 DEF AtomicRevokeRefreshToken, RevokeFamilyRefreshTokens, RevokeFamilyAccessTokens,
       RevokeAccess, RevokeRefresh, Goto, TypeOK, RefreshPc, RevokePc
  <2>2. req[r].token \in Requests
    BY <2>1 DEF IInv, RequestFits, RefreshReq, RevokeReq
  <2>3. PICK A \in SUBSET {s \in Requests : ats[s].status = "live"} : AtsMarked(A, "revoked")
    BY <1>1, <1>3, <2>2, RevokeRows
  <2>4. PICK R \in SUBSET {s \in Requests : rts[s].status = "live"} : RtsMarked(R, "revoked")
    BY <1>1, <1>3, <2>2, RevokeRows
  <2>5. A \in SUBSET Requests /\ R \in SUBSET Requests
    OBVIOUS
  <2> QED BY <2>1, <2>3, <2>4, <2>5, MarkedSinks
<1>4. CASE CheckAuthCode(r) \/ RotateRefreshToken(r)
  <2>1. t # r /\ pc'[t] = pc[t]
    BY <1>1, <1>4 DEF CheckAuthCode, RotateRefreshToken, Goto, TypeOK
  <2>2. ats'[t] = ats[t] /\ rts'[t] = rts[t]
    BY <1>1, <1>4, <2>1 DEF CheckAuthCode, RotateRefreshToken, Mint, TypeOK
  <2> QED BY <2>1, <2>2 DEF Sinks
<1>5. CASE \/ InsertAccessToken(r) \/ InsertRefreshToken(r) \/ SaveAccessToken(r) \/ SaveRefreshToken(r)
  <2>1. t # r /\ pc'[t] = pc[t]
    BY <1>1, <1>5 DEF InsertAccessToken, InsertRefreshToken, SaveAccessToken, SaveRefreshToken, Goto, TypeOK
  <2>2. ats'[t] = ats[t] /\ rts'[t] = rts[t]
    BY <1>1, <1>5, <2>1 DEF InsertAccessToken, InsertRefreshToken, SaveAccessToken, SaveRefreshToken, TypeOK
  <2> QED BY <2>1, <2>2 DEF Sinks
<1>6. ~EndTransaction(r)
  BY DEF EndTransaction, StoresFit, StoredFits
<1> QED BY <1>2, <1>3, <1>4, <1>5, <1>6 DEF Handle

LEMMA NextSinks ==
  ASSUME IInv, StoresFit, ~Transactional, Next, NEW t \in Requests, HandedOut(t)
  PROVE  Sinks(t) /\ now <= now'
<1>1. TypeOK
  BY DEF IInv
<1>2. ASSUME NEW r \in Requests, Receive(r) \/ Handle(r) \/ EndTransaction(r)
      PROVE  Sinks(t) /\ now <= now'
  <2>1. now' = now
    BY <1>2 DEF Receive, ReceiveExchange, ReceiveRefresh, ReceiveRevoke, Handle, ConsumeAuthCode,
       CheckAuthCode, InsertAccessToken, InsertRefreshToken, SaveAccessToken, SaveRefreshToken,
       AtomicRevokeRefreshToken, RotateRefreshToken, GetRefreshToken, RevokeFamilyRefreshTokens,
       RevokeFamilyAccessTokens, IntrospectForRevoke, RevokeAccess, RevokeRefresh, EndTransaction
  <2> QED BY <1>1, <1>2, <2>1, HandleSinks DEF TypeOK
<1>3. CASE \/ \E c \in Codes, client \in Clients, pkce \in PkceChoices :
                GenerateAuthorizationCode(c, client, pkce)
           \/ Tick
  BY <1>1, <1>3 DEF GenerateAuthorizationCode, Tick, tables, Sinks, TypeOK
<1>4. ASSUME NEW cutoff \in 0..now,
             \/ DeleteExpiredCodes(cutoff) \/ DeleteExpiredAccessTokens(cutoff)
             \/ DeleteExpiredRefreshTokens(cutoff) \/ ArchiveExpiredTokens(cutoff)
      PROVE  Sinks(t) /\ now <= now'
  <2>1. now' = now /\ pc' = pc
    BY <1>4 DEF DeleteExpiredCodes, DeleteExpiredAccessTokens, DeleteExpiredRefreshTokens, ArchiveExpiredTokens
  <2>2. \E A \in SUBSET Requests : AtsMarked(A, "deleted")
    <3> DEFINE S == {s \in Requests : Expired(ats[s], cutoff, Visible)}
    <3>1. CASE DeleteExpiredAccessTokens(cutoff)
      <4>1. AtsMarked(S, "deleted")
        BY <1>1, <3>1, AtsBulk DEF DeleteExpiredAccessTokens, TokenStatus
      <4> QED BY <4>1
    <3>2. CASE ArchiveExpiredTokens(cutoff)
      BY <1>1, <3>2, ArchivedRows
    <3>3. CASE ats' = ats
      BY <1>1, <3>3, Untouched
    <3> QED BY <1>4, <3>1, <3>2, <3>3 DEF DeleteExpiredCodes, DeleteExpiredRefreshTokens
  <2>3. \E R \in SUBSET Requests : RtsMarked(R, "deleted")
    <3> DEFINE S == {s \in Requests : Expired(rts[s], cutoff, Visible)}
    <3>1. CASE DeleteExpiredRefreshTokens(cutoff)
      <4>1. RtsMarked(S, "deleted")
        BY <1>1, <3>1, RtsBulk DEF DeleteExpiredRefreshTokens, TokenStatus
      <4> QED BY <4>1
    <3>2. CASE rts' = rts
      BY <1>1, <3>2, Untouched
    <3> QED BY <1>4, <3>1, <3>2 DEF DeleteExpiredCodes, DeleteExpiredAccessTokens, ArchiveExpiredTokens
  <2>4. now \in Nat
    BY <1>1 DEF TypeOK
  <2> QED BY <2>1, <2>2, <2>3, <2>4, MarkedSinks
<1> QED BY <1>2, <1>3, <1>4 DEF Next, DeleteExpiredData

(* What a revocation under way knows of its token: it was handed out, and   *)
(* is spent once the statement that concerns it has been done.              *)
Spent(q) == ~(Row(q).status \in Usable /\ now <= Row(q).exp)

RevokingFits(r) ==
  /\ pc[r] \in RevokePc => HandedOut(req[r].token)
  /\ pc[r] = "revokeRt" /\ req[r].kind = "access" => Spent(req[r])
  /\ pc[r] = "revokeAcked" => Spent(req[r])

RevocationsFit == \A r \in Requests : RevokingFits(r)

LEMMA SpentStays ==
  ASSUME TypeOK, TypeOK', now <= now', NEW q \in RevokeReq, Spent(q), Sinks(q.token)
  PROVE  Spent(q)'
<1>1. /\ q.token \in Requests /\ now \in Nat /\ now' \in Nat
      /\ ats[q.token].exp \in Nat /\ rts[q.token].exp \in Nat
  BY DEF TypeOK, RevokeReq, AccessRow, RefreshRow
<1> QED BY <1>1 DEF Spent, Row, Sinks

(* Who handles a revocation, and with what result.                          *)
LEMMA RevokeSpends ==
  ASSUME IInv, StoresFit, ~Transactional, RevocationsFit, NEW r \in Requests,
         IntrospectForRevoke(r) \/ RevokeAccess(r) \/ RevokeRefresh(r)
  PROVE  /\ pc[r] \in RevokePc /\ req' = req
         /\ pc'[r] = "revokeRt" /\ req[r].kind = "access" => Spent(req[r])'
         /\ pc'[r] = "revokeAcked" => Spent(req[r])'
<1> DEFINE t == req[r].token
<1>1. TypeOK /\ pc[r] \in RevokePc /\ req' = req /\ now' = now
  BY DEF IInv, IntrospectForRevoke, RevokeAccess, RevokeRefresh, RevokePc
<1>2. /\ req[r] \in RevokeReq /\ t \in Requests /\ HandedOut(t)
      /\ req[r].kind \in {"access", "refresh"}
  BY <1>1 DEF IInv, RequestFits, RevokeReq, RevocationsFit, RevokingFits
<1>3. /\ ats[t].status \in Usable => ats[t].status = "live"
      /\ rts[t].status \in Usable => rts[t].status = "live"
  BY <1>2 DEF IInv, PairFits, HandedOut, StoresFit, StoredFits, Usable
<1>4. /\ now \in Nat /\ ats[t].exp \in Nat /\ rts[t].exp \in Nat
  BY <1>1, <1>2 DEF TypeOK, AccessRow, RefreshRow
<1>5. CASE IntrospectForRevoke(r)
  <2>1. pc'[r] # "revokeRt" /\ UNCHANGED <<ats, rts>>
    BY <1>1, <1>5 DEF IntrospectForRevoke, Goto, TypeOK, tables
  <2>2. ASSUME pc'[r] = "revokeAcked" PROVE ~(Row(req[r]).status = "live" /\ Row(req[r]).exp >= now)
    BY <1>1, <1>5, <2>2 DEF IntrospectForRevoke, Goto, TypeOK
  <2>3. Row(req[r]).status \in Usable => Row(req[r]).status = "live"
    BY <1>3 DEF Row
  <2>4. Row(req[r]).exp \in Nat /\ Row(req[r])' = Row(req[r])
    BY <1>1, <1>4, <2>1 DEF Row
  <2> QED BY <1>1, <1>4, <2>1, <2>2, <2>3, <2>4 DEF Spent
<1>6. CASE RevokeAccess(r)
  <2>1. pc'[r] # "revokeAcked" /\ rts' = rts
    BY <1>1, <1>6 DEF RevokeAccess, Goto, TypeOK
  <2>2. ASSUME pc'[r] = "revokeRt", req[r].kind = "access" PROVE ats'[t].status \notin Usable
    <3>1. ats' = IF ats[t].status = "live" THEN [ats EXCEPT ![t].status = "revoked"] ELSE ats
      BY <1>1, <1>6, <2>2 DEF RevokeAccess, Goto, TypeOK
    <3>2. ats' = [ats EXCEPT ![t].status = "revoked"] => AtsMarked({t}, "revoked")
      BY <1>1, <1>2, AtsPoint DEF TokenStatus
    <3> QED BY <1>2, <1>3, <3>1, <3>2 DEF AtsMarked, Usable
  <2> QED BY <1>1, <2>1, <2>2 DEF Spent, Row
<1>7. CASE RevokeRefresh(r)
  <2>1. pc'[r] # "revokeRt" /\ ats' = ats /\ pc[r] = "revokeRt"
    BY <1>1, <1>7 DEF RevokeRefresh, Goto, TypeOK
  <2>2. CASE req[r].kind = "access"
    <3>1. Spent(req[r]) /\ Row(req[r])' = Row(req[r])
      BY <1>1, <2>1, <2>2 DEF RevocationsFit, RevokingFits, Row
    <3> QED BY <1>1, <2>1, <3>1 DEF Spent
  <2>3. CASE req[r].kind = "refresh"
    <3>1. ASSUME pc'[r] = "revokeAcked" PROVE rts'[t].status \notin Usable
      <4>1. rts' = IF rts[t].status = "live" THEN [rts EXCEPT ![t].status = "revoked"] ELSE rts
        BY <1>1, <1>7, <2>3, <3>1 DEF RevokeRefresh, Goto, TypeOK
      <4>2. rts' = [rts EXCEPT ![t].status = "revoked"] => RtsMarked({t}, "revoked")
        BY <1>1, <1>2, RtsPoint DEF TokenStatus
      <4> QED BY <1>2, <1>3, <4>1, <4>2 DEF RtsMarked, Usable
    <3> QED BY <1>1, <2>1, <2>3, <3>1 DEF Spent, Row
  <2> QED BY <1>2, <2>2, <2>3
<1> QED BY <1>1, <1>5, <1>6, <1>7

(* Where a request in RevokePc comes from.                                  *)
LEMMA RevokesFrom ==
  ASSUME IInv, Next, NEW s \in Requests, pc'[s] \in RevokePc
  PROVE  \/ pc'[s] = pc[s] /\ req'[s] = req[s]
         \/ pc'[s] = "revokeLookup" /\ HandedOut(req'[s].token) /\ req'[s].token \in Requests
         \/ IntrospectForRevoke(s) \/ RevokeAccess(s) \/ RevokeRefresh(s)
<1>1. TypeOK
  BY DEF IInv
<1>2. ASSUME NEW r \in Requests, Receive(r), r = s
      PROVE  pc'[s] = "revokeLookup" /\ HandedOut(req'[s].token) /\ req'[s].token \in Requests
  BY <1>1, <1>2 DEF Receive, ReceiveExchange, ReceiveRefresh, ReceiveRevoke, Goto, TypeOK, RevokePc, RevokeReq
<1>3. ASSUME NEW r \in Requests, Receive(r), r # s PROVE pc'[s] = pc[s] /\ req'[s] = req[s]
  BY <1>1, <1>3 DEF Receive, ReceiveExchange, ReceiveRefresh, ReceiveRevoke, Goto, TypeOK
<1>4. ASSUME NEW r \in Requests, Handle(r) \/ EndTransaction(r)
      PROVE  \/ pc'[s] = pc[s] /\ req'[s] = req[s]
             \/ IntrospectForRevoke(s) \/ RevokeAccess(s) \/ RevokeRefresh(s)
  <2>1. CASE \/ ConsumeAuthCode(r) \/ CheckAuthCode(r) \/ InsertAccessToken(r) \/ InsertRefreshToken(r)
             \/ SaveAccessToken(r) \/ SaveRefreshToken(r) \/ EndTransaction(r)
    BY <1>1, <2>1 DEF ConsumeAuthCode, CheckAuthCode, InsertAccessToken, InsertRefreshToken,
       SaveAccessToken, SaveRefreshToken, EndTransaction, Goto, TypeOK, RevokePc
  <2>2. CASE \/ AtomicRevokeRefreshToken(r) \/ RotateRefreshToken(r) \/ GetRefreshToken(r)
             \/ RevokeFamilyRefreshTokens(r) \/ RevokeFamilyAccessTokens(r)
    BY <1>1, <2>2 DEF AtomicRevokeRefreshToken, RotateRefreshToken, GetRefreshToken,
       RevokeFamilyRefreshTokens, RevokeFamilyAccessTokens, Goto, TypeOK, RevokePc
  <2>3. CASE IntrospectForRevoke(r) \/ RevokeAccess(r) \/ RevokeRefresh(r)
    BY <1>1, <2>3 DEF IntrospectForRevoke, RevokeAccess, RevokeRefresh, Goto, TypeOK
  <2> QED BY <1>4, <2>1, <2>2, <2>3 DEF Handle
<1>5. CASE \/ \E c \in Codes, client \in Clients, pkce \in PkceChoices :
                GenerateAuthorizationCode(c, client, pkce)
           \/ DeleteExpiredData \/ Tick
  BY <1>5 DEF GenerateAuthorizationCode, Tick, DeleteExpiredData, DeleteExpiredCodes,
     DeleteExpiredAccessTokens, DeleteExpiredRefreshTokens, ArchiveExpiredTokens
<1> QED BY <1>2, <1>3, <1>4, <1>5 DEF Next

LEMMA RevocationsStep ==
  ASSUME IInv, IInv', StoresFit, ~Transactional, RevocationsFit, Next
  PROVE  RevocationsFit'
<1> SUFFICES ASSUME NEW s \in Requests, pc'[s] \in RevokePc PROVE RevokingFits(s)'
  BY DEF RevocationsFit, RevokingFits, RevokePc
<1>1. CASE pc'[s] = pc[s] /\ req'[s] = req[s]
  <2>1. req[s] \in RevokeReq /\ req[s].token \in Requests /\ HandedOut(req[s].token)
    BY <1>1 DEF IInv, RequestFits, RevokeReq, RevocationsFit, RevokingFits
  <2>2. Sinks(req[s].token) /\ now <= now'
    BY <2>1, NextSinks
  <2>3. Spent(req[s]) => Spent(req[s])'
    <3>1. TypeOK /\ TypeOK'
      BY DEF IInv
    <3>2. PICK q \in RevokeReq : q = req[s] /\ q = req'[s]
      BY <1>1, <2>1
    <3>3. Spent(q) => Spent(q)'
      BY <2>2, <3>1, <3>2, SpentStays
    <3> QED BY <3>2, <3>3 DEF Spent, Row
  <2>4. HandedOut(req[s].token)'
    BY <2>1, <2>2, <1>1 DEF HandedOut, Sinks
  <2> QED BY <1>1, <2>3, <2>4 DEF RevocationsFit, RevokingFits, Spent
<1>2. CASE pc'[s] = "revokeLookup" /\ HandedOut(req'[s].token) /\ req'[s].token \in Requests
  <2>1. Sinks(req'[s].token)
    BY <1>2, NextSinks
  <2> QED BY <1>2, <2>1 DEF RevokingFits, HandedOut, Sinks
<1>3. CASE IntrospectForRevoke(s) \/ RevokeAccess(s) \/ RevokeRefresh(s)
  <2>1. /\ pc[s] \in RevokePc /\ req'[s] = req[s]
        /\ pc'[s] = "revokeRt" /\ req[s].kind = "access" => Spent(req[s])'
        /\ pc'[s] = "revokeAcked" => Spent(req[s])'
    BY <1>3, RevokeSpends
  <2>2. req[s].token \in Requests /\ HandedOut(req[s].token)
    BY <2>1 DEF IInv, RequestFits, RevokeReq, RevocationsFit, RevokingFits
  <2>3. HandedOut(req[s].token)'
    BY <2>1, <2>2, NextSinks DEF Sinks, HandedOut
  <2> QED BY <2>1, <2>3 DEF RevokingFits, Spent
<1> QED BY <1>1, <1>2, <1>3, RevokesFrom

(* RevocationHolds: with the sequential saveTokenPair, which the cache      *)
(* inherits, a revocation that was acknowledged without a failing statement *)
(* holds, for any requests and failures.                                    *)
THEOREM AcknowledgedRevocationHolds == Spec => [](~Transactional => RevocationHolds)
<1> DEFINE Rev == ~Transactional => RevocationsFit
<1>1. Init => Rev
  BY DEF Init, RevocationsFit, RevokingFits, RevokePc
<1>2. IInv /\ IInv' /\ StoresFit /\ Rev /\ [Next]_vars => Rev'
  <2> SUFFICES ASSUME IInv, IInv', StoresFit, ~Transactional, RevocationsFit, [Next]_vars
               PROVE  RevocationsFit'
    OBVIOUS
  <2>1. CASE UNCHANGED vars
    BY <2>1 DEF vars, RevocationsFit, RevokingFits, Spent, Row, HandedOut
  <2> QED BY <2>1, RevocationsStep
<1>3. Rev => (~Transactional => RevocationHolds)
  BY DEF RevocationsFit, RevokingFits, Spent, RevocationHolds
<1> QED BY <1>1, <1>2, <1>3, Invariance, StoresInvariance, PTL DEF Spec
=============================================================================
