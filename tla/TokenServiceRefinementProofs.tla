-------------------- MODULE TokenServiceRefinementProofs --------------------
(***************************************************************************)
(* Proof that TokenService implements GrantLifecycle, for any clients,     *)
(* codes and requests, both versions of saveTokenPair and any failures.    *)
(***************************************************************************)
EXTENDS TokenServiceRefinement, TokenServiceProofs

(* Request r has the grant of code c in its hands: GrantHolders, seen from  *)
(* the request.                                                             *)
Has(r, c) ==
  \/ pc[r] = "check" /\ req[r].code = c
  \/ rts[r].status \in Usable /\ Origin(r) = c
  \/ pc[r] = "rotate" /\ Origin(req[r].token) = c

(* What grantBar is worth.                                                  *)
BarFits ==
  \A c \in Codes :
    /\ codes[c].status = "none" => grantBar[c] = Unissued
    /\ codes[c].status = "unused" => grantBar[c] = Open
    /\ codes[c].status \notin {"none", "unused"} /\ (\A r \in Requests : ~Has(r, c)) =>
         grantBar[c] = Over
    /\ \A r \in Requests : Has(r, c) <=> grantBar[c] = r

-----------------------------------------------------------------------------
LEMMA HoldersHave ==
  ASSUME IInv, NEW c \in Codes, NEW r \in Requests
  PROVE  r \in GrantHolders(c) <=> Has(r, c)
<1>1. \A f \in Requests : Founder(f) => rts[f].family = f
  BY DEF Founder
<1>2. rts[r].status \in Usable => Minted(r)
  BY DEF Usable, Minted
<1>3. pc[r] = "rotate" => req[r].token \in Requests /\ Minted(req[r].token)
  BY Places DEF Rotated
<1>4. \A s \in Requests : Minted(s) => rts[s].family \in Requests /\ Founder(rts[s].family)
  BY Places
<1> QED BY <1>2, <1>3, <1>4 DEF GrantHolders, Holders, Has, Origin

(* A grant is in one request's hands, and its code is spent.                *)
LEMMA OneHolder ==
  ASSUME IInv, NEW c \in Codes, NEW r \in Requests, Has(r, c)
  PROVE  /\ codes[c].status \in {"used", "deleted"}
         /\ \A s \in Requests : Has(s, c) => s = r
<1>1. ASSUME NEW s \in Requests, Has(s, c), pc[s] # "check"
      PROVE  \E f \in Requests : Founder(f) /\ req[f].code = c /\ s \in Holders(f)
  BY <1>1, HoldersHave DEF GrantHolders
<1>2. \A f \in Requests : Founder(f) => Redeemed(f) /\ pc[f] # "check"
  <2>1. \A f \in Requests : Founder(f) => Minted(f) /\ PairFits(f)
    BY Places DEF IInv
  <2> QED BY <2>1 DEF PairFits, SavePc, Redeemed
<1>3. \A s \in Requests : Has(s, c) /\ pc[s] = "check" => Redeemed(s) /\ req[s].code = c
  <2>1. ASSUME NEW s \in Requests, Has(s, c), pc[s] = "check" PROVE req[s].code = c
    <3>1. ~Minted(s)
      BY <2>1 DEF IInv, PairFits, SavePc
    <3> QED BY <2>1, <3>1 DEF Has, Usable, Minted
  <2> QED BY <2>1 DEF Redeemed
<1>4. RedeemedOnce /\ OneUsableRefreshToken
  BY DEF IInv
<1>5. CASE pc[r] = "check"
  BY <1>1, <1>2, <1>3, <1>4, <1>5 DEF RedeemedOnce
<1>6. CASE pc[r] # "check"
  <2>1. PICK f \in Requests : Founder(f) /\ req[f].code = c /\ r \in Holders(f)
    BY <1>1, <1>6
  <2>2. ASSUME NEW s \in Requests, Has(s, c) PROVE s \in Holders(f)
    BY <1>1, <1>2, <1>3, <1>4, <2>1, <2>2 DEF RedeemedOnce
  <2>3. codes[c].status \in {"used", "deleted"}
    BY <1>2, <1>4, <2>1 DEF RedeemedOnce
  <2> QED BY <1>4, <2>1, <2>2, <2>3 DEF OneUsableRefreshToken
<1> QED BY <1>5, <1>6

LEMMA BarIs == IInv => BarFits
<1> SUFFICES ASSUME IInv, NEW c \in Codes
             PROVE  /\ codes[c].status = "none" => grantBar[c] = Unissued
                    /\ codes[c].status = "unused" => grantBar[c] = Open
                    /\ codes[c].status \notin {"none", "unused"}
                         /\ (\A r \in Requests : ~Has(r, c)) => grantBar[c] = Over
                    /\ \A r \in Requests : Has(r, c) <=> grantBar[c] = r
  BY DEF BarFits
<1>1. grantBar[c] = CASE codes[c].status = "none" -> Unissued
                      [] codes[c].status = "unused" -> Open
                      [] OTHER -> IF GrantHolders(c) = {} THEN Over
                                  ELSE CHOOSE r \in Requests : r \in GrantHolders(c)
  BY DEF grantBar
<1>2. GrantHolders(c) \subseteq Requests /\ \A r \in Requests : r \in GrantHolders(c) <=> Has(r, c)
  BY HoldersHave DEF GrantHolders
<1>3. \A r \in Requests : r # Unissued /\ r # Open /\ r # Over
  BY PhaseAssumption
<1>4. \A r \in Requests : Has(r, c) => codes[c].status \in {"used", "deleted"}
  BY OneHolder
<1>5. CASE codes[c].status \in {"none", "unused"}
  BY <1>1, <1>3, <1>4, <1>5
<1>6. CASE codes[c].status \notin {"none", "unused"} /\ GrantHolders(c) = {}
  BY <1>1, <1>2, <1>3, <1>6
<1>7. CASE codes[c].status \notin {"none", "unused"} /\ GrantHolders(c) # {}
  <2>1. grantBar[c] = CHOOSE r \in Requests : r \in GrantHolders(c)
    BY <1>1, <1>7
  <2>2. \E r \in Requests : r \in GrantHolders(c)
    BY <1>2, <1>7
  <2>3. grantBar[c] \in Requests /\ Has(grantBar[c], c)
    BY <1>2, <2>1, <2>2
  <2> QED BY <1>7, <2>3, OneHolder
<1> QED BY <1>5, <1>6, <1>7

LEMMA BarIsNext == IInv' => BarFits'
BY BarIs, PTL

-----------------------------------------------------------------------------
(* Steps after which nobody has a grant who did not have it: grants may     *)
(* have ended.                                                              *)
NobodyGains == \A r \in Requests, c \in Codes : Has(r, c)' => Has(r, c)

CodesEnd ==
  \A c \in Codes : codes'[c].status # codes[c].status => codes'[c].status \notin {"none", "unused"}

LEMMA GrantsEnd ==
  ASSUME BarFits, BarFits', NobodyGains, CodesEnd
  PROVE  Grant!Next
<1> DEFINE S == {c \in Codes : grantBar'[c] # grantBar[c]}
<1>1. ASSUME NEW c \in Codes PROVE grantBar'[c] \in {grantBar[c], Over}
  <2>1. CASE codes'[c].status \in {"none", "unused"}
    BY <2>1 DEF CodesEnd, BarFits
  <2>2. CASE codes'[c].status \notin {"none", "unused"} /\ \A r \in Requests : ~Has(r, c)'
    BY <2>2 DEF BarFits
  <2>3. ASSUME NEW r \in Requests, Has(r, c)' PROVE grantBar'[c] = grantBar[c]
    BY <2>3 DEF NobodyGains, BarFits
  <2> QED BY <2>1, <2>2, <2>3
<1>2. grantBar' = [c \in Codes |-> IF c \in S THEN Over ELSE grantBar[c]]
  <2>1. grantBar' = [c \in Codes |-> grantBar'[c]]
    BY DEF grantBar
  <2> QED BY <1>1, <2>1
<1>3. S \in SUBSET Codes
  OBVIOUS
<1> HIDE DEF S
<1> QED BY <1>2, <1>3 DEF Grant!Next, Grant!End

LEMMA QuietGains ==
  ASSUME IInv, Quiet
  PROVE  NobodyGains
<1>1. \A r \in Requests : Redeemed(r) \/ Rotated(r) \/ Minted(r) => req'[r] = req[r]
  BY Places DEF Quiet
<1>2. \A r \in Requests : Minted(r) => Origin(r)' = Origin(r)
  <2>1. \A r \in Requests : Minted(r) => rts[r].family \in Requests /\ Minted(rts[r].family)
    BY Places
  <2> QED BY <1>1, <2>1 DEF Quiet, Origin
<1> SUFFICES ASSUME NEW r \in Requests, NEW c \in Codes, Has(r, c)' PROVE Has(r, c)
  BY DEF NobodyGains
<1>3. CASE pc'[r] = "check" /\ req'[r].code = c
  BY <1>1, <1>3 DEF Quiet, Redeemed, Has
<1>4. CASE rts'[r].status \in Usable /\ Origin(r)' = c
  <2>1. rts[r].status \in Usable /\ Minted(r)
    BY <1>4 DEF Quiet, Usable, Minted
  <2> QED BY <1>2, <1>4, <2>1 DEF Has
<1>5. CASE pc'[r] = "rotate" /\ Origin(req[r].token)' = c
  <2>1. pc[r] = "rotate" /\ Rotated(r) /\ req'[r] = req[r]
    BY <1>1, <1>5 DEF Quiet, Rotated
  <2>2. req[r].token \in Requests /\ Minted(req[r].token)
    BY <2>1, Places
  <2> QED BY <1>2, <1>5, <2>1, <2>2 DEF Has
<1> QED BY <1>3, <1>4, <1>5 DEF Has

LEMMA QuietEnds ==
  ASSUME IInv, IInv', Quiet, CodesEnd
  PROVE  Grant!Next
BY BarIs, BarIsNext, QuietGains, GrantsEnd

-----------------------------------------------------------------------------
(* What a request that has minted nothing yet may have.                     *)
LEMMA UnmintedHas ==
  ASSUME IInv, NEW r \in Requests, pc[r] \in ExchangePc \cup RefreshPc, NEW c \in Codes
  PROVE  /\ ~Minted(r)
         /\ Has(r, c) => pc[r] \in {"check", "rotate"}
<1>1. ~Minted(r)
  BY DEF IInv, PairFits, SavePc, ExchangePc, RefreshPc
<1> QED BY <1>1 DEF Has, Usable, Minted

(* The phase of a grant whose code and holders stay as they are.            *)
LEMMA SameGrant ==
  ASSUME BarFits, BarFits', NEW d \in Codes, codes'[d].status = codes[d].status,
         \A r \in Requests : Has(r, d)' <=> Has(r, d)
  PROVE  grantBar'[d] = grantBar[d]
<1>1. CASE codes[d].status \in {"none", "unused"}
  BY <1>1 DEF BarFits
<1>2. CASE codes[d].status \notin {"none", "unused"} /\ \A r \in Requests : ~Has(r, d)
  BY <1>2 DEF BarFits
<1>3. ASSUME NEW r \in Requests, Has(r, d) PROVE grantBar'[d] = grantBar[d]
  BY <1>3 DEF BarFits
<1> QED BY <1>1, <1>2, <1>3

LEMMA GrantMoves ==
  ASSUME NEW c \in Codes, NEW v, grantBar'[c] = v,
         \A d \in Codes \ {c} : grantBar'[d] = grantBar[d]
  PROVE  grantBar' = [grantBar EXCEPT ![c] = v]
<1>1. /\ grantBar' = [d \in Codes |-> grantBar'[d]]
      /\ grantBar = [d \in Codes |-> grantBar[d]]
  BY DEF grantBar
<1>2. [grantBar EXCEPT ![c] = v] = [d \in Codes |-> IF d = c THEN v ELSE grantBar[d]]
  BY <1>1
<1> QED BY <1>1, <1>2

(* A code is generated: its grant is issued, or over at once.               *)
LEMMA GenerateImplements ==
  ASSUME IInv, NEW c \in Codes, NEW client \in Clients, NEW pkce \in PkceChoices,
         GenerateAuthorizationCode(c, client, pkce)
  PROVE  Grant!Next
<1>1. IInv' /\ Quiet
  BY GenerateAuthorizationCodeStep
<1>2. BarFits /\ BarFits'
  BY <1>1, BarIs, BarIsNext
<1>3. /\ codes[c].status = "none" /\ codes'[c].status \in {"unused", "lost"}
      /\ \A d \in Codes \ {c} : codes'[d] = codes[d]
      /\ UNCHANGED <<rts, req, pc>>
  BY DEF GenerateAuthorizationCode, IInv, TypeOK
<1>4. CASE codes'[c].status = "lost"
  <2>1. CodesEnd
    BY <1>3, <1>4 DEF CodesEnd
  <2> QED BY <1>1, <2>1, QuietEnds
<1>5. CASE codes'[c].status = "unused"
  <2>1. grantBar[c] = Unissued /\ grantBar'[c] = Open
    BY <1>2, <1>3, <1>5 DEF BarFits
  <2>2. \A d \in Codes \ {c} : grantBar'[d] = grantBar[d]
    <3>1. \A d \in Codes, r \in Requests : Has(r, d)' <=> Has(r, d)
      BY <1>3 DEF Has, Origin
    <3> QED BY <1>2, <1>3, <3>1, SameGrant
  <2>3. grantBar' = [grantBar EXCEPT ![c] = Open]
    BY <2>1, <2>2, GrantMoves
  <2> QED BY <2>1, <2>3 DEF Grant!Next, Grant!Issue
<1> QED BY <1>3, <1>4, <1>5

(* Whoever consumes a code takes its grant.                                 *)
LEMMA ConsumeImplements ==
  ASSUME IInv, NEW r \in Requests, ConsumeAuthCode(r)
  PROVE  Grant!Next
<1>0. \A d \in Codes : ~Has(r, d)
  BY UnmintedHas DEF ConsumeAuthCode, ExchangePc
<1>1. IInv' /\ BarFits /\ BarFits'
  BY ConsumeAuthCodeStep, BarIs, BarIsNext
<1>2. PICK c \in Codes : c = req[r].code
  BY DEF ConsumeAuthCode, IInv, RequestFits, ExchangePc, ExchangeReq
<1>3. UNCHANGED <<rts, req>> /\ \A s \in Requests \ {r} : pc'[s] = pc[s]
  BY DEF ConsumeAuthCode, Goto, IInv, TypeOK
<1>4. \A d \in Codes, s \in Requests \ {r} : Has(s, d)' <=> Has(s, d)
  BY <1>3 DEF Has, Origin
<1>5. rts[r].status \notin Usable
  <2>1. ~Minted(r)
    BY <1>2, UnmintedHas DEF ConsumeAuthCode, ExchangePc
  <2> QED BY <2>1 DEF Minted, Usable
<1>6. CASE pc'[r] = "failed"
  <2>1. \A d \in Codes : ~Has(r, d)'
    BY <1>3, <1>5, <1>6 DEF Has
  <2>2. NobodyGains
    BY <1>4, <2>1 DEF NobodyGains
  <2>3. CodesEnd
    BY <1>2, CodesPoint DEF CodesEnd, ConsumeAuthCode, IInv, CodesMarked, CodeStatus
  <2> QED BY <1>1, <2>2, <2>3, GrantsEnd
<1>7. CASE pc'[r] = "check"
  <2>1. codes[c].status = "unused" /\ CodesMarked({c}, "used")
    <3>1. codes[c].status = "unused" /\ codes' = [codes EXCEPT ![c].status = "used"]
      BY <1>2, <1>7 DEF ConsumeAuthCode, MatchesUnusedCode, Goto, IInv, TypeOK
    <3> QED BY <1>2, <3>1, CodesPoint DEF IInv, CodeStatus
  <2>2. grantBar[c] = Open
    BY <1>1, <2>1 DEF BarFits
  <2>3. grantBar'[c] = r
    <3>1. Has(r, c)'
      BY <1>2, <1>3, <1>7 DEF Has
    <3> QED BY <1>1, <3>1 DEF BarFits
  <2>4. ASSUME NEW d \in Codes \ {c} PROVE grantBar'[d] = grantBar[d]
    <3>1. ~Has(r, d) /\ ~Has(r, d)'
      BY <1>0, <1>2, <1>3, <1>5, <1>7 DEF Has
    <3>2. codes'[d].status = codes[d].status
      BY <2>1 DEF CodesMarked
    <3> QED BY <1>1, <1>4, <3>1, <3>2, SameGrant
  <2>5. \A d \in Codes : grantBar[d] # r
    BY <1>0, <1>1 DEF BarFits
  <2>6. grantBar' = [grantBar EXCEPT ![c] = r]
    BY <2>3, <2>4, GrantMoves
  <2> QED BY <2>2, <2>5, <2>6 DEF Grant!Next, Grant!Redeem, Grant!Free
<1>8. pc'[r] \in {"failed", "check"}
  BY DEF ConsumeAuthCode, Goto, IInv, TypeOK
<1> QED BY <1>6, <1>7, <1>8

(* Minting, or refusing to, hands a grant to nobody else.                   *)
LEMMA MintGains ==
  ASSUME IInv, NEW r \in Requests, NEW c \in Codes, pc[r] \in {"check", "rotate"}, Has(r, c),
         UNCHANGED <<codes, req>>,
         \A s \in Requests \ {r} : rts'[s] = rts[s] /\ pc'[s] = pc[s],
         pc'[r] \notin {"check", "rotate"},
         rts'[r].status \in Usable => Origin(r)' = c
  PROVE  NobodyGains /\ CodesEnd
<1>1. CodesEnd
  BY DEF CodesEnd
<1>2. ~Minted(r)
  BY UnmintedHas DEF ExchangePc, RefreshPc
<1>3. ASSUME NEW s \in Requests \ {r}, NEW d \in Codes, Has(s, d)' PROVE Has(s, d)
  <2>1. CASE \/ pc'[s] = "check" /\ req'[s].code = d
             \/ rts'[s].status \in Usable /\ Origin(s)' = d
    BY <2>1 DEF Has, Origin
  <2>2. CASE pc'[s] = "rotate" /\ Origin(req[s].token)' = d
    <3>1. req[s].token \in Requests \ {r}
      BY <1>2, <2>2, Places DEF Rotated
    <3> QED BY <2>2, <3>1 DEF Has, Origin
  <2> QED BY <1>3, <2>1, <2>2 DEF Has
<1>4. ASSUME NEW d \in Codes, Has(r, d)' PROVE Has(r, d)
  BY <1>4 DEF Has
<1> QED BY <1>1, <1>3, <1>4 DEF NobodyGains

LEMMA CheckImplements ==
  ASSUME IInv, NEW r \in Requests, CheckAuthCode(r)
  PROVE  Grant!Next
<1> DEFINE c == req[r].code
<1>1. IInv' /\ BarFits /\ BarFits'
  BY CheckAuthCodeStep, BarIs, BarIsNext
<1>2. c \in Codes /\ Has(r, c) /\ ~Minted(r)
  <2>1. pc[r] = "check" /\ Redeemed(r)
    BY DEF CheckAuthCode, Redeemed
  <2>2. c \in Codes
    BY <2>1, Places
  <2> QED BY <2>1, <2>2, UnmintedHas DEF Has, ExchangePc
<1>3. /\ pc[r] = "check" /\ pc'[r] \in {"save", "failed"} /\ UNCHANGED <<codes, req>>
      /\ \A s \in Requests \ {r} : pc'[s] = pc[s]
  BY DEF CheckAuthCode, Goto, IInv, TypeOK
<1>4. CASE UNCHANGED rts
  <2>1. rts'[r].status \notin Usable
    BY <1>2, <1>4 DEF Minted, Usable
  <2> QED BY <1>1, <1>2, <1>3, <1>4, <2>1, MintGains, GrantsEnd
<1>5. CASE Mint(r, codes[c].client, r)
  <2>1. codes[c].client \in Clients \cup {None}
    BY <1>2 DEF IInv, TypeOK, CodeRow
  <2>2. rts'[r].family = r /\ \A s \in Requests \ {r} : rts'[s] = rts[s]
    BY <1>5, <2>1, MintEffect DEF IInv
  <2>3. Origin(r)' = c
    BY <1>3, <2>2 DEF Origin
  <2> QED BY <1>1, <1>2, <1>3, <2>2, <2>3, MintGains, GrantsEnd
<1> QED BY <1>4, <1>5 DEF CheckAuthCode

LEMMA RotateImplements ==
  ASSUME IInv, NEW r \in Requests, RotateRefreshToken(r)
  PROVE  Grant!Next
<1> DEFINE t == req[r].token
           c == Origin(t)
<1>1. IInv' /\ BarFits /\ BarFits'
  BY RotateRefreshTokenStep, BarIs, BarIsNext
<1>2. /\ t \in Requests /\ Minted(t) /\ rts[t].family \in Requests
      /\ c \in Codes /\ Has(r, c) /\ ~Minted(r) /\ t # r /\ rts[t].family # r
  <2>1. pc[r] = "rotate" /\ Rotated(r)
    BY DEF RotateRefreshToken, Rotated
  <2>2. t \in Requests /\ Minted(t)
    BY <2>1, Places
  <2>3. rts[t].family \in Requests /\ Minted(rts[t].family) /\ c \in Codes
    BY <2>2, Places DEF Origin
  <2>4. ~Minted(r)
    BY <2>1, <2>3, UnmintedHas DEF RefreshPc
  <2> QED BY <2>1, <2>2, <2>3, <2>4 DEF Has
<1>3. /\ pc[r] = "rotate" /\ pc'[r] \in {"save", "failed"} /\ UNCHANGED <<codes, req>>
      /\ \A s \in Requests \ {r} : pc'[s] = pc[s]
  BY DEF RotateRefreshToken, Goto, IInv, TypeOK
<1>4. CASE UNCHANGED rts
  <2>1. rts'[r].status \notin Usable
    BY <1>2, <1>4 DEF Minted, Usable
  <2> QED BY <1>1, <1>2, <1>3, <1>4, <2>1, MintGains, GrantsEnd
<1>5. CASE Mint(r, rts[t].client, rts[t].family)
  <2>1. rts[t].client \in Clients \cup {None}
    BY <1>2 DEF IInv, TypeOK, RefreshRow
  <2>2. rts'[r].family = rts[t].family /\ \A s \in Requests \ {r} : rts'[s] = rts[s]
    BY <1>2, <1>5, <2>1, MintEffect DEF IInv
  <2>3. Origin(r)' = c
    BY <1>3, <2>2 DEF Origin
  <2> QED BY <1>1, <1>2, <1>3, <2>2, <2>3, MintGains, GrantsEnd
<1> QED BY <1>4, <1>5 DEF RotateRefreshToken

(* Whoever wins the CAS takes the grant from the pair it presented.         *)
LEMMA AtomicRevokeImplements ==
  ASSUME IInv, NEW r \in Requests, AtomicRevokeRefreshToken(r)
  PROVE  Grant!Next
<1>0. IInv' /\ BarFits /\ BarFits'
  BY AtomicRevokeRefreshTokenStep, BarIs, BarIsNext
<1>1. PICK t \in Requests : t = req[r].token /\ pc[r] = "cas" /\ Minted(t)
  BY DEF AtomicRevokeRefreshToken, IInv, RequestFits, RefreshPc, RefreshReq
<1>2. PICK c \in Codes : c = Origin(t)
  BY <1>1, Places DEF Origin
<1>3. ~Minted(r) /\ t # r /\ \A d \in Codes : ~Has(r, d)
  BY <1>1, <1>2, UnmintedHas DEF RefreshPc
<1>4. UNCHANGED <<codes, req>> /\ \A s \in Requests \ {r} : pc'[s] = pc[s]
  BY DEF AtomicRevokeRefreshToken, Goto, IInv, TypeOK
<1>5. rts[r].status \notin Usable
  BY <1>3 DEF Minted, Usable
<1>6. CASE UNCHANGED rts /\ pc'[r] = "lookup"
  <2>1. NobodyGains
    BY <1>4, <1>5, <1>6 DEF NobodyGains, Has, Origin
  <2>2. CodesEnd
    BY <1>4 DEF CodesEnd
  <2> QED BY <1>0, <2>1, <2>2, GrantsEnd
<1>7. CASE rts[t].status = "live" /\ RtsMarked({t}, "revoked") /\ pc'[r] = "rotate"
  <2>1. \A s \in Requests : Minted(s) => Origin(s)' = Origin(s)
    BY <1>4, <1>7 DEF RtsMarked, Origin
  <2>2. Has(t, c) /\ \A s \in Requests : Has(s, c) => s = t
    <3>1. Has(t, c)
      BY <1>2, <1>7 DEF Has, Usable
    <3> QED BY <1>1, <1>3, <3>1, OneHolder
  <2>3. \A d \in Codes : Has(t, d) => d = c
    BY <1>0, <1>1, <1>2, <1>3, <1>7, <2>2 DEF Has, IInv, PairFits, SavePc, Minted
  <2>4. /\ \A d \in Codes : ~Has(t, d)'
        /\ Has(r, c)' /\ \A d \in Codes : Has(r, d)' => d = c
    <3>1. rts'[t].status = "revoked" /\ rts'[r].status = rts[r].status
      BY <1>1, <1>3, <1>7 DEF RtsMarked
    <3>2. pc'[t] = pc[t] /\ pc[t] \in SavePc
      BY <1>1, <1>3, <1>4 DEF IInv, PairFits
    <3>3. Origin(req[r].token)' = c
      BY <1>1, <1>2, <1>4, <2>1
    <3> QED BY <1>4, <1>5, <1>7, <3>1, <3>2, <3>3 DEF Has, Usable, SavePc
  <2>5. \A s \in Requests \ {r, t}, d \in Codes : Has(s, d)' <=> Has(s, d)
    <3>1. \A s \in Requests : pc[s] = "rotate" => req[s].token \in Requests /\ Minted(req[s].token)
      BY Places DEF Rotated
    <3>2. \A s \in Requests \ {r, t} : rts'[s].status = rts[s].status
      BY <1>7 DEF RtsMarked
    <3>3. \A s \in Requests : Origin(s)' = Origin(s)
      BY <1>4, <1>7 DEF RtsMarked, Origin
    <3> QED BY <1>4, <3>1, <3>2, <3>3 DEF Has
  <2>6. grantBar[c] = t /\ grantBar'[c] = r
    BY <1>0, <1>1, <1>3, <2>2, <2>4 DEF BarFits
  <2>7. ASSUME NEW d \in Codes \ {c} PROVE grantBar'[d] = grantBar[d]
    <3>1. \A s \in Requests : Has(s, d)' <=> Has(s, d)
      BY <1>3, <2>3, <2>4, <2>5
    <3> QED BY <1>0, <1>4, <3>1, SameGrant
  <2>8. \A d \in Codes : grantBar[d] # r
    BY <1>0, <1>3 DEF BarFits
  <2>9. grantBar' = [grantBar EXCEPT ![c] = r]
    BY <1>3, <2>6, <2>7, GrantMoves
  <2> QED BY <1>1, <1>3, <2>6, <2>8, <2>9 DEF Grant!Next, Grant!Rotate, Grant!Free
<1>8. \/ UNCHANGED rts /\ pc'[r] = "lookup"
      \/ rts[t].status = "live" /\ RtsMarked({t}, "revoked") /\ pc'[r] = "rotate"
  <2>1. rts' = [rts EXCEPT ![t].status = "revoked"] => RtsMarked({t}, "revoked")
    BY <1>1, RtsPoint DEF IInv, TokenStatus
  <2>2. pc \in [Requests -> Pc]
    BY DEF IInv, TypeOK
  <2> QED BY <1>1, <2>1, <2>2 DEF AtomicRevokeRefreshToken, MatchesLiveRefreshToken, Goto
<1> QED BY <1>6, <1>7, <1>8

-----------------------------------------------------------------------------
(* All other steps are quiet.                                               *)
LEMMA ReceiveImplements ==
  ASSUME IInv, NEW r \in Requests, Receive(r)
  PROVE  Grant!Next
<1>1. CodesEnd
  BY DEF Receive, ReceiveExchange, ReceiveRefresh, ReceiveRevoke, tables, CodesEnd
<1>2. IInv' /\ Quiet
  BY ReceiveExchangeStep, ReceiveRefreshStep, ReceiveRevokeStep DEF Receive
<1> QED BY <1>1, <1>2, QuietEnds

LEMMA HandleImplements ==
  ASSUME IInv, NEW r \in Requests, Handle(r) \/ EndTransaction(r)
  PROVE  Grant!Next
<1>1. CASE \/ ConsumeAuthCode(r) \/ CheckAuthCode(r)
           \/ AtomicRevokeRefreshToken(r) \/ RotateRefreshToken(r)
  BY <1>1, ConsumeImplements, CheckImplements, AtomicRevokeImplements, RotateImplements
<1>2. CASE \/ InsertAccessToken(r) \/ InsertRefreshToken(r) \/ EndTransaction(r)
           \/ SaveAccessToken(r) \/ SaveRefreshToken(r)
  <2>1. CodesEnd
    BY <1>2 DEF InsertAccessToken, InsertRefreshToken, EndTransaction, SaveAccessToken,
       SaveRefreshToken, CodesEnd
  <2>2. IInv' /\ Quiet
    BY <1>2, InsertAccessTokenStep, InsertRefreshTokenStep, EndTransactionStep,
       SaveAccessTokenStep, SaveRefreshTokenStep
  <2> QED BY <2>1, <2>2, QuietEnds
<1>3. CASE GetRefreshToken(r) \/ RevokeFamilyRefreshTokens(r) \/ RevokeFamilyAccessTokens(r)
  <2>1. CodesEnd
    BY <1>3 DEF GetRefreshToken, RevokeFamilyRefreshTokens, RevokeFamilyAccessTokens, tables, CodesEnd
  <2>2. IInv' /\ Quiet
    BY <1>3, GetRefreshTokenStep, RevokeFamilyRefreshTokensStep, RevokeFamilyAccessTokensStep
  <2> QED BY <2>1, <2>2, QuietEnds
<1>4. CASE IntrospectForRevoke(r) \/ RevokeAccess(r) \/ RevokeRefresh(r)
  <2>1. CodesEnd
    BY <1>4 DEF IntrospectForRevoke, RevokeAccess, RevokeRefresh, tables, CodesEnd
  <2>2. IInv' /\ Quiet
    BY <1>4, IntrospectForRevokeStep, RevokeAccessStep, RevokeRefreshStep
  <2> QED BY <2>1, <2>2, QuietEnds
<1> QED BY <1>1, <1>2, <1>3, <1>4 DEF Handle

LEMMA CleanupImplements ==
  ASSUME IInv, DeleteExpiredData
  PROVE  Grant!Next
<1>1. PICK cutoff \in 0..now : \/ DeleteExpiredCodes(cutoff)
                               \/ DeleteExpiredAccessTokens(cutoff)
                               \/ DeleteExpiredRefreshTokens(cutoff)
                               \/ ArchiveExpiredTokens(cutoff)
  BY DEF DeleteExpiredData
<1>2. IInv' /\ Quiet
  BY <1>1, DeleteExpiredCodesStep, DeleteExpiredAccessTokensStep,
     DeleteExpiredRefreshTokensStep, ArchiveExpiredTokensStep
<1>3. CodesEnd
  <2>1. CASE codes' = codes
    BY <2>1 DEF CodesEnd
  <2>2. CASE codes' = [c \in Codes |-> IF Expired(codes[c], cutoff, {"unused", "used"})
                                         THEN [codes[c] EXCEPT !.status = "deleted"] ELSE codes[c]]
    BY <2>2, CodeUpdate DEF CodesEnd, IInv, TypeOK, CodeStatus
  <2> QED BY <1>1, <2>1, <2>2
      DEF DeleteExpiredCodes, DeleteExpiredAccessTokens, DeleteExpiredRefreshTokens,
          ArchiveExpiredTokens
<1> QED BY <1>2, <1>3, QuietEnds

(* ImplementsGrant: the statements of any number of requests, their         *)
(* failures and the cleanup issue, redeem, rotate and end grants, and do    *)
(* nothing else to them.                                                    *)
THEOREM Refinement == Spec => ImplementsGrant
<1>1. Init => Grant!Init
  <2> SUFFICES ASSUME Init PROVE grantBar = [c \in Codes |-> Unissued]
    BY DEF Grant!Init
  <2>1. \A c \in Codes : codes[c].status = "none"
    BY DEF Init, NoCode
  <2> QED BY <2>1 DEF grantBar
<1>2. IInv /\ [Next]_vars => [Grant!Next]_grantBar
  <2> SUFFICES ASSUME IInv, [Next]_vars PROVE Grant!Next \/ UNCHANGED grantBar
    OBVIOUS
  <2>1. CASE \E c \in Codes, client \in Clients, pkce \in PkceChoices :
               GenerateAuthorizationCode(c, client, pkce)
    BY <2>1, GenerateImplements
  <2>2. CASE \E r \in Requests : Receive(r) \/ Handle(r) \/ EndTransaction(r)
    BY <2>2, ReceiveImplements, HandleImplements
  <2>3. CASE DeleteExpiredData
    BY <2>3, CleanupImplements
  <2>4. CASE Tick
    <3>1. CodesEnd
      BY <2>4 DEF Tick, tables, CodesEnd
    <3> QED BY <2>4, <3>1, TickStep, QuietEnds
  <2>5. CASE UNCHANGED vars
    BY <2>5 DEF vars, grantBar, GrantHolders, Founder, Holders
  <2> QED BY <2>1, <2>2, <2>3, <2>4, <2>5 DEF Next
<1> QED BY <1>1, <1>2, Invariance, PTL DEF Spec, ImplementsGrant, Grant!Spec
=============================================================================
