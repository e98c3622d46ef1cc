--------------------------- MODULE GrantLifecycle ---------------------------
(***************************************************************************)
(* What the token endpoint promises of one authorization grant, whatever   *)
(* storage implements it: a code is redeemed by at most one request, the   *)
(* grant is then in the hands of one request's token pair at a time, it    *)
(* moves on by rotation only, and once it is over it stays over.           *)
(***************************************************************************)
CONSTANTS
  Codes, Requests,
  Unissued, Open, Over   \* phases in which no request holds the grant

VARIABLE grant  \* the phase of each grant, or the request that holds it

Init == grant = [c \in Codes |-> Unissued]

Issue(c) == grant[c] = Unissued /\ grant' = [grant EXCEPT ![c] = Open]

(* r's pair is in no other grant.                                           *)
Free(r) == \A c \in Codes : grant[c] # r

(* The first request to present the code takes the grant.                   *)
Redeem(c, r) ==
  grant[c] = Open /\ Free(r) /\ grant' = [grant EXCEPT ![c] = r]

(* Only the holder's refresh token can be exchanged for a new pair.         *)
Rotate(c, r, s) ==
  grant[c] = r /\ Free(s) /\ grant' = [grant EXCEPT ![c] = s]

(* Codes that were not stored, refused, revoked or expired.                 *)
End(S) == grant' = [c \in Codes |-> IF c \in S THEN Over ELSE grant[c]]

Next ==
  \/ \E c \in Codes : Issue(c)
  \/ \E c \in Codes, r \in Requests : Redeem(c, r)
  \/ \E c \in Codes, r, s \in Requests : Rotate(c, r, s)
  \/ \E S \in SUBSET Codes : End(S)

Spec == Init /\ [][Next]_grant
=============================================================================
