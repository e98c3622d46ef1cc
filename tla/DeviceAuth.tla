---------------------------- MODULE DeviceAuth ----------------------------
(***************************************************************************)
(* The device authorization grant: controllers/DeviceAuthController.cc and *)
(* the device_code branch of the token endpoint, over the table            *)
(* oauth2_device_codes.                                                    *)
(*                                                                         *)
(* A device asks for a pair of codes, a user approves the user code, and   *)
(* the device polls with the device code until it is given tokens.  Every  *)
(* SQL statement and every callback is a step of its own, so polls,        *)
(* approvals and the deletion of the code interleave.                      *)
(***************************************************************************)
EXTENDS Naturals

CONSTANTS
  DeviceCodes,  \* device codes that may be generated
  UserCodes,    \* user codes that may be generated
  Clients,      \* client ids
  Users,        \* users who approve
  Polls,        \* token requests with a device code
  Approvals,    \* requests to approve a user code
  None,         \* no value
  Lifetime,     \* DEVICE_CODE_LIFETIME_SECONDS
  MaxTime,      \* bound on the clock
  MaxFaults     \* bound on the SQL statements that fail and the requests
                \* lost with their server instance, together

ASSUME DeviceAssumption ==
  /\ None \notin DeviceCodes \cup Users
  /\ {Lifetime, MaxTime, MaxFaults} \subseteq Nat

VARIABLES
  now,        \* the clock
  codes,      \* the row of each device code
  polls,      \* the token requests
  approvals,  \* the approval requests
  faults      \* statements failed and requests lost so far

vars == <<now, codes, polls, approvals, faults>>

(* "sent": the INSERT is under way.  Nothing in the code writes "denied".   *)
CodeStatus == {"none", "sent", "pending", "approved", "deleted", "failed"}

(* The rows a statement finds.                                              *)
Present == {"pending", "approved"}

Code == [status: CodeStatus, uc: UserCodes \cup {None}, client: Clients \cup {None},
         user: Users \cup {None}, exp: Nat]

PollPc == {"idle", "select", "check", "save", "saved",
           "issued", "pending", "refused", "lost"}

Poll == [pc: PollPc, code: DeviceCodes \cup {None}, client: Clients \cup {None},
         seen: {"absent", "pending", "approved"}, user: Users \cup {None},
         pair: {"none", "minted", "stored", "lost"}, at: Nat,
         del: {"none", "sent", "done", "failed"}]

Approval == [pc: {"idle", "update", "approved", "refused", "lost"},
             uc: UserCodes \cup {None}, user: Users \cup {None}, at: Nat,
             code: DeviceCodes \cup {None}]

NoCode == [status |-> "none", uc |-> None, client |-> None, user |-> None, exp |-> 0]

NoPoll == [pc |-> "idle", code |-> None, client |-> None,
           seen |-> "absent", user |-> None,  \* what the SELECT returned
           pair |-> "none", at |-> 0,         \* the pair, and when it was built
           del |-> "none"]                    \* the DELETE it leaves behind

NoApproval == [pc |-> "idle", uc |-> None, user |-> None, at |-> 0,
               code |-> None]                 \* the row it updated

Init ==
  /\ now = 0
  /\ codes = [d \in DeviceCodes |-> NoCode]
  /\ polls = [p \in Polls |-> NoPoll]
  /\ approvals = [a \in Approvals |-> NoApproval]
  /\ faults = 0

-----------------------------------------------------------------------------
NoFault == UNCHANGED faults
Fault == faults < MaxFaults /\ faults' = faults + 1

(* The device has been told its codes.                                      *)
Known(d) == codes[d].status \in {"pending", "approved", "deleted"}

-----------------------------------------------------------------------------
(* POST /oauth2/device_authorization, validateClient has accepted the       *)
(* client.  The lifetime starts before the INSERT.                          *)
RequestCodes(d, uc, client) ==
  /\ codes[d].status = "none"
  /\ codes' = [codes EXCEPT ![d] = [status |-> "sent", uc |-> uc, client |-> client,
                                    user |-> None, exp |-> now + Lifetime]]
  /\ UNCHANGED <<now, polls, approvals, faults>>

(* The INSERT: user_code is UNIQUE.  Mutant: it is not.                     *)
InsertDuplicate(d) ==
  /\ codes[d].status = "sent"
  /\ codes' = [codes EXCEPT ![d].status = "pending"]
  /\ UNCHANGED <<now, polls, approvals, faults>>

UserCodeTaken(uc) == \E e \in DeviceCodes : codes[e].uc = uc /\ codes[e].status \in Present

InsertDeviceCode(d) ==
  /\ codes[d].status = "sent"
  /\ \/ ~UserCodeTaken(codes[d].uc) /\ NoFault
        /\ codes' = [codes EXCEPT ![d].status = "pending"]
     \/ UserCodeTaken(codes[d].uc) /\ NoFault
        /\ codes' = [codes EXCEPT ![d].status = "failed"]
     \/ Fault /\ codes' = [codes EXCEPT ![d].status = "failed"]
  /\ UNCHANGED <<now, polls, approvals>>

-----------------------------------------------------------------------------
(* approveDevice: the time is taken before the UPDATE.                      *)
ReceiveApproval(a, uc, user) ==
  /\ approvals[a].pc = "idle"
  /\ \E d \in DeviceCodes : Known(d) /\ codes[d].uc = uc
  /\ approvals' = [approvals EXCEPT ![a] = [NoApproval EXCEPT !.pc = "update", !.uc = uc,
                                              !.user = user, !.at = now]]
  /\ UNCHANGED <<now, codes, polls, faults>>

(* The row the UPDATE matches.  Mutant: an approved code is approved again. *)
Reapprovable(d, a) ==
  /\ codes[d].status \in Present
  /\ codes[d].uc = approvals[a].uc
  /\ codes[d].exp > approvals[a].at

Approvable(d, a) ==
  /\ codes[d].status = "pending"
  /\ codes[d].uc = approvals[a].uc
  /\ codes[d].exp > approvals[a].at

ApproveDevice(a) ==
  /\ approvals[a].pc = "update"
  /\ \/ \E d \in DeviceCodes :
          /\ Approvable(d, a)
          /\ codes' = [codes EXCEPT ![d].status = "approved", ![d].user = approvals[a].user]
          /\ approvals' = [approvals EXCEPT ![a].pc = "approved", ![a].code = d]
          /\ NoFault
     \/ /\ \A d \in DeviceCodes : ~Approvable(d, a)
        /\ approvals' = [approvals EXCEPT ![a].pc = "refused"]
        /\ UNCHANGED <<codes, faults>>
     \/ Fault /\ approvals' = [approvals EXCEPT ![a].pc = "refused"] /\ UNCHANGED codes
  /\ UNCHANGED <<now, polls>>

-----------------------------------------------------------------------------
(* POST /oauth2/token with a device code; the client id is a parameter.     *)
ReceivePoll(p, d, client) ==
  /\ polls[p].pc = "idle"
  /\ Known(d)
  /\ polls' = [polls EXCEPT ![p] = [NoPoll EXCEPT !.pc = "select", !.code = d,
                                                  !.client = client]]
  /\ UNCHANGED <<now, codes, approvals, faults>>

(* Mutant: a code that was consumed is still found.                         *)
SelectConsumedToo(p) ==
  /\ polls[p].pc = "select"
  /\ LET c == codes[polls[p].code] IN
       polls' = [polls EXCEPT ![p].pc = "check", ![p].user = c.user,
                   ![p].seen = IF c.status = "deleted" THEN "approved" ELSE c.status]
  /\ UNCHANGED <<now, codes, approvals, faults>>

SelectDeviceCode(p) ==
  /\ polls[p].pc = "select"
  /\ LET c == codes[polls[p].code] IN
       \/ /\ c.status \in Present
          /\ polls' = [polls EXCEPT ![p].pc = "check", ![p].seen = c.status,
                                    ![p].user = c.user]
          /\ NoFault
       \/ /\ c.status \notin Present
          /\ polls' = [polls EXCEPT ![p].pc = "refused"]
          /\ NoFault
       \/ Fault /\ polls' = [polls EXCEPT ![p].pc = "refused"]
  /\ UNCHANGED <<now, codes, approvals>>

(* The callback of the SELECT: the client, the expiry, the status, and a    *)
(* new pair for the user who approved.                                      *)
Issue(p) ==
  polls' = [polls EXCEPT ![p].pc = "save", ![p].pair = "minted", ![p].at = now]

Expired(p) == now >= codes[polls[p].code].exp

OfClient(p) == polls[p].client = codes[polls[p].code].client

(* Mutant: the expiry is not looked at.                                     *)
CheckStatusOnly(p) ==
  /\ polls[p].pc = "check"
  /\ \/ polls[p].seen = "approved" /\ OfClient(p) /\ Issue(p)
     \/ /\ ~(polls[p].seen = "approved" /\ OfClient(p))
        /\ polls' = [polls EXCEPT ![p].pc = "refused"]
  /\ UNCHANGED <<now, codes, approvals, faults>>

(* Mutant: a code that waits for its approval is refused.                   *)
CheckWithoutPending(p) ==
  /\ polls[p].pc = "check"
  /\ \/ /\ ~OfClient(p) \/ Expired(p) \/ polls[p].seen = "pending"
        /\ polls' = [polls EXCEPT ![p].pc = "refused"]
     \/ OfClient(p) /\ ~Expired(p) /\ polls[p].seen = "approved" /\ Issue(p)
  /\ UNCHANGED <<now, codes, approvals, faults>>

CheckDeviceCode(p) ==
  /\ polls[p].pc = "check"
  /\ \/ /\ ~OfClient(p) \/ Expired(p)
        /\ polls' = [polls EXCEPT ![p].pc = "refused"]
     \/ /\ OfClient(p) /\ ~Expired(p) /\ polls[p].seen = "pending"
        /\ polls' = [polls EXCEPT ![p].pc = "pending"]
     \/ OfClient(p) /\ ~Expired(p) /\ polls[p].seen = "approved" /\ Issue(p)
  /\ UNCHANGED <<now, codes, approvals, faults>>

(* saveTokenPair; its callback runs after an error too.                     *)
SaveTokenPair(p) ==
  /\ polls[p].pc = "save"
  /\ \/ polls' = [polls EXCEPT ![p].pc = "saved", ![p].pair = "stored"] /\ NoFault
     \/ polls' = [polls EXCEPT ![p].pc = "saved", ![p].pair = "lost"] /\ Fault
  /\ UNCHANGED <<now, codes, approvals>>

(* The callback sends the DELETE, does not wait for it, and answers.        *)
AnswerPoll(p) ==
  /\ polls[p].pc = "saved"
  /\ polls' = [polls EXCEPT ![p].pc = "issued", ![p].del = "sent"]
  /\ UNCHANGED <<now, codes, approvals, faults>>

DeleteDeviceCode(p) ==
  /\ polls[p].del = "sent"
  /\ \/ /\ codes' = IF codes[polls[p].code].status \in Present
                      THEN [codes EXCEPT ![polls[p].code].status = "deleted"] ELSE codes
        /\ polls' = [polls EXCEPT ![p].del = "done"]
        /\ NoFault
     \/ Fault /\ polls' = [polls EXCEPT ![p].del = "failed"] /\ UNCHANGED codes
  /\ UNCHANGED <<now, approvals>>

-----------------------------------------------------------------------------
(* The server instance that serves the request dies.                        *)
LosePoll(p) ==
  /\ polls[p].pc \in {"select", "check", "save", "saved"}
  /\ Fault
  /\ polls' = [polls EXCEPT ![p].pc = "lost"]
  /\ UNCHANGED <<now, codes, approvals>>

LoseApproval(a) ==
  /\ approvals[a].pc = "update"
  /\ Fault
  /\ approvals' = [approvals EXCEPT ![a].pc = "lost"]
  /\ UNCHANGED <<now, codes, polls>>

Tick ==
  /\ now < MaxTime
  /\ now' = now + 1
  /\ UNCHANGED <<codes, polls, approvals, faults>>

-----------------------------------------------------------------------------
Authorize(d) ==
  \/ \E uc \in UserCodes, client \in Clients : RequestCodes(d, uc, client)
  \/ InsertDeviceCode(d)

Approve(a) ==
  \/ \E uc \in UserCodes, user \in Users : ReceiveApproval(a, uc, user)
  \/ ApproveDevice(a)
  \/ LoseApproval(a)

Exchange(p) ==
  \/ \E d \in DeviceCodes, client \in Clients : ReceivePoll(p, d, client)
  \/ SelectDeviceCode(p)
  \/ CheckDeviceCode(p)
  \/ SaveTokenPair(p)
  \/ AnswerPoll(p)
  \/ DeleteDeviceCode(p)
  \/ LosePoll(p)

Next ==
  \/ \E d \in DeviceCodes : Authorize(d)
  \/ \E a \in Approvals : Approve(a)
  \/ \E p \in Polls : Exchange(p)
  \/ Tick

Spec == Init /\ [][Next]_vars

-----------------------------------------------------------------------------
TypeOK ==
  /\ now \in Nat
  /\ codes \in [DeviceCodes -> Code]
  /\ polls \in [Polls -> Poll]
  /\ approvals \in [Approvals -> Approval]
  /\ faults \in Nat

Minted(p) == polls[p].pair # "none"

(* A pair is built for the one user whose approval of that code was         *)
(* accepted, however approvals of it race, and for the code's client.       *)
IssuedToApprover ==
  \A p \in Polls : Minted(p) =>
    /\ polls[p].client = codes[polls[p].code].client
    /\ \E a \in Approvals : approvals[a].code = polls[p].code
                            /\ approvals[a].user = polls[p].user
    /\ \A a \in Approvals : approvals[a].code = polls[p].code
                            => approvals[a].user = polls[p].user

(* No pair is built from a code at or after its expiry, nor from one whose  *)
(* approval arrived then.                                                   *)
IssuedInTime ==
  /\ \A p \in Polls : Minted(p) => polls[p].at < codes[polls[p].code].exp
  /\ \A a \in Approvals : approvals[a].code # None
                          => approvals[a].at < codes[approvals[a].code].exp

(* When nothing fails, a poll is refused only for a wrong client, an        *)
(* expired code or one that was consumed.                                   *)
RefusedForCause ==
  \A p \in Polls :
    polls[p].pc = "refused" /\ faults = 0 =>
      \/ ~OfClient(p)
      \/ Expired(p)
      \/ codes[polls[p].code].status = "deleted"

(* No poll will be given a pair for code d any more.                        *)
Spent(d) ==
  /\ codes[d].status = "deleted"
  /\ \A p \in Polls : ~(polls[p].code = d /\ polls[p].pc = "check"
                        /\ polls[p].seen = "approved")

PollsWithPair(d) == {p \in Polls : polls[p].code = d /\ Minted(p)}

(* Once the DELETE has run and no poll that read the row before it is still *)
(* to be handled, the code never yields another pair.                       *)
SpentStaysSpent ==
  [][\A d \in DeviceCodes :
       Spent(d) => Spent(d)' /\ PollsWithPair(d)' = PollsWithPair(d)]_vars

(* A device code is consumed by the pair it is exchanged for: it yields one *)
(* pair.                                                                    *)
DeviceCodeIsSingleUse ==
  \A p, q \in Polls :
    polls[p].pc = "issued" /\ polls[q].pc = "issued" /\ polls[p].code = polls[q].code => p = q

-----------------------------------------------------------------------------
(* The inductive invariant.                                                 *)
UserCodesDiffer ==
  \A d, e \in DeviceCodes :
    codes[d].uc = codes[e].uc /\ codes[d].status \in Present /\ codes[e].status \in Present
      => d = e

(* A code is approved by one request, for its user, and stays so.           *)
CodeFits(d) ==
  /\ codes[d].status \in {"approved", "deleted"} <=>
       \E a \in Approvals : approvals[a].code = d
  /\ \A a \in Approvals : approvals[a].code = d => codes[d].user = approvals[a].user
  /\ \A a \in Approvals : approvals[a].code = d => approvals[a].at < codes[d].exp

PollFits(p) ==
  /\ polls[p].pc # "idle" => polls[p].code # None /\ Known(polls[p].code)
  /\ polls[p].pc \in {"idle", "select", "check"} => ~Minted(p)
  /\ polls[p].pc \in {"save", "saved", "issued"} => Minted(p)
  /\ polls[p].seen = "approved" =>
       /\ polls[p].code # None
       /\ codes[polls[p].code].status \in {"approved", "deleted"}
       /\ polls[p].user = codes[polls[p].code].user
  /\ Minted(p) =>
       /\ polls[p].seen = "approved"
       /\ polls[p].client = codes[polls[p].code].client
       /\ polls[p].at < codes[polls[p].code].exp
  /\ polls[p].del # "none" => Minted(p)

(* Only an approval that was accepted has a code.                           *)
ApprovalFits(a) == approvals[a].pc # "approved" => approvals[a].code = None

IInv ==
  /\ TypeOK
  /\ UserCodesDiffer
  /\ \A a \in Approvals : ApprovalFits(a)
  /\ \A d \in DeviceCodes : CodeFits(d)
  /\ \A p \in Polls : PollFits(p)
=============================================================================
