----------------------- MODULE TokenServiceRefinement -----------------------
(***************************************************************************)
(* TokenService implements GrantLifecycle: who holds a grant is read off   *)
(* the rows and the requests under way.                                    *)
(***************************************************************************)
EXTENDS TokenService

CONSTANTS Unissued, Open, Over

(* The phases of GrantLifecycle are no requests.                            *)
ASSUME PhaseAssumption ==
  /\ {Unissued, Open, Over} \cap Requests = {}
  /\ Unissued # Open /\ Unissued # Over /\ Open # Over

(* The requests in whose hands the grant of code c is: the one that has     *)
(* consumed the code and not minted yet, the one that has won the rotation  *)
(* and not minted yet, or the one whose refresh token is usable.            *)
GrantHolders(c) ==
  {r \in Requests : \/ pc[r] = "check" /\ req[r].code = c
                    \/ \E f \in Requests : /\ Founder(f) /\ req[f].code = c
                                           /\ r \in Holders(f)}

grantBar ==
  [c \in Codes |->
     CASE codes[c].status = "none" -> Unissued
       [] codes[c].status = "unused" -> Open
       [] OTHER -> IF GrantHolders(c) = {} THEN Over
                   ELSE CHOOSE r \in Requests : r \in GrantHolders(c)]

Grant == INSTANCE GrantLifecycle WITH grant <- grantBar

(* The statements of any number of concurrent requests, their failures and  *)
(* the cleanup amount to grants being issued, redeemed once, rotated by     *)
(* their one holder, and ended.                                             *)
ImplementsGrant == Grant!Spec
=============================================================================
