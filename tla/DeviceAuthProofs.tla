-------------------------- MODULE DeviceAuthProofs --------------------------
(***************************************************************************)
(* Proofs about DeviceAuth, for any codes, clients, users, polls and       *)
(* approvals, any lifetime and any number of failures.                     *)
(***************************************************************************)
EXTENDS DeviceAuth, TLAPS

-----------------------------------------------------------------------------
(* Only the row of d, the poll p, or the approval a changes.                *)
OnlyCode(d) ==
  /\ codes' \in [DeviceCodes -> Code]
  /\ \A e \in DeviceCodes : e # d => codes'[e] = codes[e]

OnlyPoll(p) ==
  /\ polls' \in [Polls -> Poll]
  /\ \A q \in Polls : q # p => polls'[q] = polls[q]

OnlyApproval(a) ==
  /\ approvals' \in [Approvals -> Approval]
  /\ \A b \in Approvals : b # a => approvals'[b] = approvals[b]

LEMMA CodePoint ==
  ASSUME TypeOK, NEW d \in DeviceCodes, NEW r \in Code, codes' = [codes EXCEPT ![d] = r]
  PROVE  OnlyCode(d) /\ codes'[d] = r
BY DEF TypeOK, OnlyCode

LEMMA PollPoint ==
  ASSUME TypeOK, NEW p \in Polls, NEW r \in Poll, polls' = [polls EXCEPT ![p] = r]
  PROVE  OnlyPoll(p) /\ polls'[p] = r
BY DEF TypeOK, OnlyPoll

LEMMA ApprovalPoint ==
  ASSUME TypeOK, NEW a \in Approvals, NEW r \in Approval,
         approvals' = [approvals EXCEPT ![a] = r]
  PROVE  OnlyApproval(a) /\ approvals'[a] = r
BY DEF TypeOK, OnlyApproval

(* What a row becomes when its status is set.                               *)
LEMMA CodeStatusSet ==
  ASSUME NEW c \in Code, NEW s \in CodeStatus
  PROVE  /\ [c EXCEPT !.status = s] \in Code
         /\ [c EXCEPT !.status = s].status = s
         /\ [c EXCEPT !.status = s].uc = c.uc
         /\ [c EXCEPT !.status = s].client = c.client
         /\ [c EXCEPT !.status = s].user = c.user
         /\ [c EXCEPT !.status = s].exp = c.exp
BY DEF Code

(* Poll r with the same code, client, row and pair as r0.                   *)
SamePoll(r, r0) ==
  /\ r.code = r0.code /\ r.client = r0.client
  /\ r.seen = r0.seen /\ r.user = r0.user
  /\ r.pair = r0.pair /\ r.at = r0.at

LEMMA PollGoto ==
  ASSUME NEW r \in Poll, NEW l \in PollPc
  PROVE  /\ [r EXCEPT !.pc = l] \in Poll
         /\ [r EXCEPT !.pc = l].pc = l
         /\ [r EXCEPT !.pc = l].del = r.del
         /\ SamePoll([r EXCEPT !.pc = l], r)
BY DEF Poll, SamePoll

LEMMA ApprovalTakes ==
  ASSUME NEW r \in Approval, NEW d \in DeviceCodes
  PROVE  LET x == [r EXCEPT !.pc = "approved", !.code = d] IN
         /\ x \in Approval
         /\ x.pc = "approved" /\ x.code = d /\ x.user = r.user /\ x.at = r.at
BY DEF Approval

-----------------------------------------------------------------------------
(* The effect of each action on the rows.                                   *)
LEMMA RequestEffect ==
  ASSUME TypeOK, NEW d \in DeviceCodes, NEW uc \in UserCodes, NEW client \in Clients,
         RequestCodes(d, uc, client)
  PROVE  OnlyCode(d) /\ codes[d].status = "none" /\ codes'[d].status = "sent"
<1> DEFINE rec == [status |-> "sent", uc |-> uc, client |-> client,
                   user |-> None, exp |-> now + Lifetime]
<1>1. rec \in Code
  BY DeviceAssumption DEF Code, CodeStatus, TypeOK
<1>2. rec.status = "sent"
  OBVIOUS
<1>3. codes' = [codes EXCEPT ![d] = rec] /\ codes[d].status = "none"
  BY DEF RequestCodes
<1> HIDE DEF rec
<1> QED BY <1>1, <1>2, <1>3, CodePoint

(* The row of d gets status s and keeps its other columns.                  *)
CodeMarked(d, s) ==
  /\ OnlyCode(d)
  /\ codes'[d].status = s
  /\ codes'[d].uc = codes[d].uc
  /\ codes'[d].client = codes[d].client
  /\ codes'[d].exp = codes[d].exp

LEMMA CodeMark ==
  ASSUME TypeOK, NEW d \in DeviceCodes, NEW s \in CodeStatus,
         codes' = [codes EXCEPT ![d].status = s]
  PROVE  CodeMarked(d, s) /\ codes'[d].user = codes[d].user
<1> DEFINE rec == [codes[d] EXCEPT !.status = s]
<1>1. codes[d] \in Code
  BY DEF TypeOK
<1>2. /\ rec \in Code /\ rec.status = s /\ rec.uc = codes[d].uc
      /\ rec.client = codes[d].client /\ rec.user = codes[d].user /\ rec.exp = codes[d].exp
  BY <1>1, CodeStatusSet
<1>3. codes' = [codes EXCEPT ![d] = rec]
  BY DEF TypeOK
<1> HIDE DEF rec
<1> QED BY <1>2, <1>3, CodePoint DEF CodeMarked

LEMMA InsertEffect ==
  ASSUME TypeOK, NEW d \in DeviceCodes, InsertDeviceCode(d)
  PROVE  /\ codes[d].status = "sent"
         /\ codes'[d].user = codes[d].user
         /\ \/ CodeMarked(d, "pending") /\ ~UserCodeTaken(codes[d].uc)
            \/ CodeMarked(d, "failed")
<1>1. {"pending", "failed"} \subseteq CodeStatus
  BY DEF CodeStatus
<1>2. CASE ~UserCodeTaken(codes[d].uc) /\ codes' = [codes EXCEPT ![d].status = "pending"]
  BY <1>1, <1>2, CodeMark DEF InsertDeviceCode
<1>3. CASE codes' = [codes EXCEPT ![d].status = "failed"]
  BY <1>1, <1>3, CodeMark DEF InsertDeviceCode
<1> QED BY <1>2, <1>3 DEF InsertDeviceCode

LEMMA DeleteEffect ==
  ASSUME TypeOK, NEW p \in Polls, DeleteDeviceCode(p), polls[p].code \in DeviceCodes
  PROVE  /\ OnlyPoll(p)
         /\ polls[p].del # "none" /\ polls'[p].del # "none"
         /\ polls'[p].pc = polls[p].pc
         /\ SamePoll(polls'[p], polls[p])
         /\ \/ codes' = codes
            \/ /\ codes[polls[p].code].status \in Present
               /\ CodeMarked(polls[p].code, "deleted")
               /\ codes'[polls[p].code].user = codes[polls[p].code].user
<1>1. PICK x \in {"done", "failed"} : polls' = [polls EXCEPT ![p].del = x]
  BY DEF DeleteDeviceCode
<1> DEFINE rec == [polls[p] EXCEPT !.del = x]
<1>2. polls[p] \in Poll
  BY DEF TypeOK
<1>3. rec \in Poll /\ rec.pc = polls[p].pc /\ rec.del = x /\ SamePoll(rec, polls[p])
  BY <1>1, <1>2 DEF Poll, SamePoll
<1>4. polls' = [polls EXCEPT ![p] = rec]
  BY <1>1 DEF TypeOK
<1> HIDE DEF rec
<1>5. /\ OnlyPoll(p) /\ polls'[p].pc = polls[p].pc /\ polls'[p].del = x
      /\ SamePoll(polls'[p], polls[p])
  BY <1>3, <1>4, PollPoint
<1>6. \/ codes' = codes
      \/ /\ codes[polls[p].code].status \in Present
         /\ codes' = [codes EXCEPT ![polls[p].code].status = "deleted"]
  BY DEF DeleteDeviceCode
<1>7. polls[p].del # "none"
  BY DEF DeleteDeviceCode
<1> QED BY <1>1, <1>5, <1>6, <1>7, CodeMark DEF CodeStatus

-----------------------------------------------------------------------------
(* The effect of each action on the approvals.                              *)
LEMMA ReceiveApprovalEffect ==
  ASSUME TypeOK, NEW a \in Approvals, NEW uc \in UserCodes, NEW user \in Users,
         ReceiveApproval(a, uc, user)
  PROVE  /\ OnlyApproval(a)
         /\ approvals[a].pc = "idle" /\ approvals'[a].pc = "update"
         /\ approvals'[a].code = None
<1> DEFINE rec == [NoApproval EXCEPT !.pc = "update", !.uc = uc, !.user = user, !.at = now]
<1>1. rec \in Approval
  BY DEF Approval, NoApproval, TypeOK
<1>2. rec.pc = "update" /\ rec.code = None
  BY DEF NoApproval
<1>3. approvals' = [approvals EXCEPT ![a] = rec] /\ approvals[a].pc = "idle"
  BY DEF ReceiveApproval
<1> HIDE DEF rec
<1> QED BY <1>1, <1>2, <1>3, ApprovalPoint

(* The approval a ends without having approved anything.                    *)
ApprovalDropped(a) ==
  /\ OnlyApproval(a)
  /\ approvals[a].pc = "update"
  /\ approvals'[a].pc \in {"refused", "lost"}
  /\ approvals'[a].code = approvals[a].code
  /\ approvals'[a].user = approvals[a].user
  /\ approvals'[a].at = approvals[a].at

LEMMA ApprovalDrop ==
  ASSUME TypeOK, NEW a \in Approvals, NEW l \in {"refused", "lost"},
         approvals[a].pc = "update", approvals' = [approvals EXCEPT ![a].pc = l]
  PROVE  ApprovalDropped(a)
<1> DEFINE rec == [approvals[a] EXCEPT !.pc = l]
<1>1. approvals[a] \in Approval
  BY DEF TypeOK
<1>2. /\ rec \in Approval /\ rec.pc = l /\ rec.code = approvals[a].code
      /\ rec.user = approvals[a].user /\ rec.at = approvals[a].at
  BY <1>1 DEF Approval
<1>3. approvals' = [approvals EXCEPT ![a] = rec]
  BY DEF TypeOK
<1> HIDE DEF rec
<1> QED BY <1>2, <1>3, ApprovalPoint DEF ApprovalDropped

LEMMA ApproveEffect ==
  ASSUME TypeOK, NEW a \in Approvals, ApproveDevice(a)
  PROVE  \/ codes' = codes /\ ApprovalDropped(a)
         \/ \E d \in DeviceCodes :
              /\ Approvable(d, a)
              /\ CodeMarked(d, "approved")
              /\ codes'[d].user = approvals[a].user
              /\ OnlyApproval(a)
              /\ approvals[a].pc = "update" /\ approvals'[a].pc = "approved"
              /\ approvals'[a].code = d
              /\ approvals'[a].user = approvals[a].user
              /\ approvals'[a].at = approvals[a].at
<1>1. approvals[a].pc = "update" /\ approvals[a] \in Approval
  BY DEF ApproveDevice, TypeOK
<1>2. CASE codes' = codes /\ approvals' = [approvals EXCEPT ![a].pc = "refused"]
  BY <1>1, <1>2, ApprovalDrop
<1>3. ASSUME NEW d \in DeviceCodes, Approvable(d, a),
             codes' = [codes EXCEPT ![d].status = "approved", ![d].user = approvals[a].user],
             approvals' = [approvals EXCEPT ![a].pc = "approved", ![a].code = d]
      PROVE  /\ CodeMarked(d, "approved")
             /\ codes'[d].user = approvals[a].user
             /\ OnlyApproval(a)
             /\ approvals'[a].pc = "approved" /\ approvals'[a].code = d
             /\ approvals'[a].user = approvals[a].user
             /\ approvals'[a].at = approvals[a].at
  <2> DEFINE u == approvals[a].user
             row == [codes[d] EXCEPT !.status = "approved", !.user = u]
             rec == [approvals[a] EXCEPT !.pc = "approved", !.code = d]
  <2>1. codes[d] \in Code /\ u \in Users \cup {None}
    BY <1>1 DEF TypeOK, Approval
  <2>2. codes' = [codes EXCEPT ![d] = row]
    BY <1>3 DEF TypeOK
  <2>3. approvals' = [approvals EXCEPT ![a] = rec]
    BY <1>3 DEF TypeOK
  <2> HIDE DEF u
  <2>4. /\ row \in Code /\ row.status = "approved" /\ row.uc = codes[d].uc
        /\ row.client = codes[d].client /\ row.user = u /\ row.exp = codes[d].exp
    BY <2>1 DEF Code, CodeStatus
  <2>5. /\ rec \in Approval /\ rec.pc = "approved" /\ rec.code = d
        /\ rec.user = approvals[a].user /\ rec.at = approvals[a].at
    BY <1>1, ApprovalTakes
  <2> HIDE DEF row, rec
  <2>6. CodeMarked(d, "approved") /\ codes'[d].user = u
    BY <2>2, <2>4, CodePoint DEF CodeMarked
  <2>7. OnlyApproval(a) /\ approvals'[a] = rec
    BY <2>3, <2>5, ApprovalPoint
  <2> QED BY <2>5, <2>6, <2>7 DEF u
<1> QED BY <1>1, <1>2, <1>3 DEF ApproveDevice, NoFault

-----------------------------------------------------------------------------
(* The effect of each action on the polls.                                  *)
LEMMA ReceivePollEffect ==
  ASSUME TypeOK, NEW p \in Polls, NEW d \in DeviceCodes, NEW client \in Clients,
         ReceivePoll(p, d, client)
  PROVE  /\ OnlyPoll(p)
         /\ polls[p].pc = "idle" /\ polls'[p].pc = "select"
         /\ polls'[p].code = d /\ Known(d)
         /\ polls'[p].seen = "absent" /\ polls'[p].pair = "none" /\ polls'[p].del = "none"
<1> DEFINE rec == [NoPoll EXCEPT !.pc = "select", !.code = d, !.client = client]
<1>1. rec \in Poll
  BY DEF Poll, PollPc, NoPoll
<1>2. /\ rec.pc = "select" /\ rec.code = d /\ rec.seen = "absent"
      /\ rec.pair = "none" /\ rec.del = "none"
  BY DEF NoPoll
<1>3. polls' = [polls EXCEPT ![p] = rec] /\ polls[p].pc = "idle" /\ Known(d)
  BY DEF ReceivePoll
<1> HIDE DEF rec
<1> QED BY <1>1, <1>2, <1>3, PollPoint

(* The poll p goes to l and keeps the rest.                                 *)
PollMoved(p, l) ==
  /\ OnlyPoll(p)
  /\ polls'[p].pc = l
  /\ polls'[p].del = polls[p].del
  /\ SamePoll(polls'[p], polls[p])

LEMMA PollMove ==
  ASSUME TypeOK, NEW p \in Polls, NEW l \in PollPc, polls' = [polls EXCEPT ![p].pc = l]
  PROVE  PollMoved(p, l)
<1> DEFINE rec == [polls[p] EXCEPT !.pc = l]
<1>1. polls[p] \in Poll
  BY DEF TypeOK
<1>2. rec \in Poll /\ rec.pc = l /\ rec.del = polls[p].del /\ SamePoll(rec, polls[p])
  BY <1>1, PollGoto
<1>3. polls' = [polls EXCEPT ![p] = rec]
  BY DEF TypeOK
<1> HIDE DEF rec
<1> QED BY <1>2, <1>3, PollPoint DEF PollMoved

LEMMA SelectEffect ==
  ASSUME TypeOK, NEW p \in Polls, SelectDeviceCode(p), polls[p].code \in DeviceCodes
  PROVE  /\ polls[p].pc = "select"
         /\ \/ /\ OnlyPoll(p) /\ polls'[p].pc = "check"
               /\ codes[polls[p].code].status \in Present
               /\ polls'[p].seen = codes[polls[p].code].status
               /\ polls'[p].user = codes[polls[p].code].user
               /\ polls'[p].code = polls[p].code /\ polls'[p].client = polls[p].client
               /\ polls'[p].pair = polls[p].pair /\ polls'[p].del = polls[p].del
            \/ /\ PollMoved(p, "refused")
               /\ codes[polls[p].code].status \notin Present \/ faults' = faults + 1
<1> DEFINE c == codes[polls[p].code]
<1>1. polls[p].pc = "select" /\ polls[p] \in Poll /\ c \in Code
  BY DEF SelectDeviceCode, TypeOK
<1>2. CASE /\ c.status \in Present
           /\ polls' = [polls EXCEPT ![p].pc = "check", ![p].seen = c.status, ![p].user = c.user]
  <2> DEFINE u == c.user
             s == c.status
             rec == [polls[p] EXCEPT !.pc = "check", !.seen = s, !.user = u]
  <2>1. u \in Users \cup {None} /\ s \in {"pending", "approved"}
    BY <1>1, <1>2 DEF Code, Present
  <2>2. polls' = [polls EXCEPT ![p] = rec]
    BY <1>2 DEF TypeOK
  <2> HIDE DEF u, s
  <2>3. /\ rec \in Poll /\ rec.pc = "check" /\ rec.seen = s /\ rec.user = u
        /\ rec.code = polls[p].code /\ rec.client = polls[p].client
        /\ rec.pair = polls[p].pair /\ rec.del = polls[p].del
    BY <1>1, <2>1 DEF Poll, PollPc
  <2> HIDE DEF rec
  <2>4. OnlyPoll(p) /\ polls'[p] = rec
    BY <2>2, <2>3, PollPoint
  <2> QED BY <1>1, <1>2, <2>3, <2>4 DEF u, s
<1>3. CASE polls' = [polls EXCEPT ![p].pc = "refused"]
  <2>1. PollMoved(p, "refused")
    BY <1>3, PollMove DEF PollPc
  <2>2. c.status \notin Present \/ faults' = faults + 1 \/ polls'[p].pc = "check"
    BY DEF SelectDeviceCode, Fault, TypeOK, Poll
  <2> QED BY <1>1, <2>1, <2>2 DEF PollMoved
<1> QED BY <1>2, <1>3 DEF SelectDeviceCode

LEMMA CheckEffect ==
  ASSUME TypeOK, NEW p \in Polls, CheckDeviceCode(p)
  PROVE  /\ polls[p].pc = "check"
         /\ \/ PollMoved(p, "refused") /\ (~OfClient(p) \/ Expired(p))
            \/ PollMoved(p, "pending")
            \/ /\ OnlyPoll(p) /\ polls'[p].pc = "save"
               /\ OfClient(p) /\ ~Expired(p) /\ polls[p].seen = "approved"
               /\ polls'[p].pair = "minted" /\ polls'[p].at = now
               /\ polls'[p].code = polls[p].code /\ polls'[p].client = polls[p].client
               /\ polls'[p].seen = polls[p].seen /\ polls'[p].user = polls[p].user
               /\ polls'[p].del = polls[p].del
<1>1. polls[p].pc = "check" /\ polls[p] \in Poll
  BY DEF CheckDeviceCode, TypeOK
<1>2. CASE (~OfClient(p) \/ Expired(p)) /\ polls' = [polls EXCEPT ![p].pc = "refused"]
  BY <1>1, <1>2, PollMove DEF PollPc
<1>3. CASE polls' = [polls EXCEPT ![p].pc = "pending"]
  BY <1>1, <1>3, PollMove DEF PollPc
<1>4. CASE OfClient(p) /\ ~Expired(p) /\ polls[p].seen = "approved" /\ Issue(p)
  <2> DEFINE rec == [polls[p] EXCEPT !.pc = "save", !.pair = "minted", !.at = now]
  <2>1. /\ rec \in Poll /\ rec.pc = "save" /\ rec.pair = "minted" /\ rec.at = now
        /\ rec.code = polls[p].code /\ rec.client = polls[p].client
        /\ rec.seen = polls[p].seen /\ rec.user = polls[p].user /\ rec.del = polls[p].del
    BY <1>1 DEF Poll, PollPc, TypeOK
  <2>2. polls' = [polls EXCEPT ![p] = rec]
    BY <1>4 DEF TypeOK, Issue
  <2> HIDE DEF rec
  <2>3. OnlyPoll(p) /\ polls'[p] = rec
    BY <2>1, <2>2, PollPoint
  <2> QED BY <1>1, <1>4, <2>1, <2>3
<1> QED BY <1>2, <1>3, <1>4 DEF CheckDeviceCode

LEMMA SaveEffect ==
  ASSUME TypeOK, NEW p \in Polls, SaveTokenPair(p)
  PROVE  /\ OnlyPoll(p)
         /\ polls[p].pc = "save" /\ polls'[p].pc = "saved"
         /\ polls'[p].pair # "none" /\ polls'[p].at = polls[p].at
         /\ polls'[p].code = polls[p].code /\ polls'[p].client = polls[p].client
         /\ polls'[p].seen = polls[p].seen /\ polls'[p].user = polls[p].user
         /\ polls'[p].del = polls[p].del
<1>1. PICK s \in {"stored", "lost"} : polls' = [polls EXCEPT ![p].pc = "saved", ![p].pair = s]
  BY DEF SaveTokenPair
<1> DEFINE rec == [polls[p] EXCEPT !.pc = "saved", !.pair = s]
<1>2. polls[p].pc = "save" /\ polls[p] \in Poll
  BY DEF SaveTokenPair, TypeOK
<1>3. /\ rec \in Poll /\ rec.pc = "saved" /\ rec.pair # "none" /\ rec.at = polls[p].at
      /\ rec.code = polls[p].code /\ rec.client = polls[p].client
      /\ rec.seen = polls[p].seen /\ rec.user = polls[p].user /\ rec.del = polls[p].del
  BY <1>2 DEF Poll, PollPc
<1>4. polls' = [polls EXCEPT ![p] = rec]
  BY <1>1 DEF TypeOK
<1> HIDE DEF rec
<1> QED BY <1>2, <1>3, <1>4, PollPoint

LEMMA AnswerEffect ==
  ASSUME TypeOK, NEW p \in Polls, AnswerPoll(p)
  PROVE  /\ OnlyPoll(p)
         /\ polls[p].pc = "saved" /\ polls'[p].pc = "issued"
         /\ SamePoll(polls'[p], polls[p])
<1> DEFINE rec == [polls[p] EXCEPT !.pc = "issued", !.del = "sent"]
<1>1. polls[p].pc = "saved" /\ polls[p] \in Poll
  BY DEF AnswerPoll, TypeOK
<1>2. rec \in Poll /\ rec.pc = "issued" /\ SamePoll(rec, polls[p])
  BY <1>1 DEF Poll, PollPc, SamePoll
<1>3. polls' = [polls EXCEPT ![p] = rec]
  BY DEF TypeOK, AnswerPoll
<1> HIDE DEF rec
<1> QED BY <1>1, <1>2, <1>3, PollPoint

-----------------------------------------------------------------------------
(* What a step keeps of every row: what the device was told, and the approval.   *)
CodesKeep ==
  \A e \in DeviceCodes :
    /\ Known(e) => /\ codes'[e].status \in {"pending", "approved", "deleted"}
                   /\ codes'[e].client = codes[e].client
                   /\ codes'[e].exp = codes[e].exp
    /\ codes[e].status \in {"approved", "deleted"} =>
         /\ codes'[e].status \in {"approved", "deleted"}
         /\ codes'[e].user = codes[e].user
    /\ codes[e].status = "deleted" => codes'[e].status = "deleted"

(* A poll that takes no step still fits.                                    *)
LEMMA PollKeeps ==
  ASSUME IInv, CodesKeep, NEW p \in Polls, polls'[p] = polls[p]
  PROVE  PollFits(p)'
<1>1. PollFits(p) /\ polls[p] \in Poll
  BY DEF IInv, TypeOK
<1>2. polls[p].code # None => polls[p].code \in DeviceCodes
  BY <1>1 DEF Poll
<1> QED BY <1>1, <1>2 DEF PollFits, CodesKeep, Known, Minted

(* The rows fit when approved rows stay as they are and no row becomes one, *)
(* and the accepted approvals stay.                                         *)
LEMMA CodesFit ==
  ASSUME IInv,
         \A a \in Approvals : /\ approvals'[a].code = approvals[a].code
                              /\ approvals[a].code # None =>
                                   /\ approvals'[a].user = approvals[a].user
                                   /\ approvals'[a].at = approvals[a].at,
         \A e \in DeviceCodes :
           /\ codes'[e].status \in {"approved", "deleted"} <=>
                codes[e].status \in {"approved", "deleted"}
           /\ codes[e].status \in {"approved", "deleted"} =>
                codes'[e].user = codes[e].user /\ codes'[e].exp = codes[e].exp
  PROVE  \A e \in DeviceCodes : CodeFits(e)'
<1> SUFFICES ASSUME NEW e \in DeviceCodes PROVE CodeFits(e)'
  OBVIOUS
<1>1. CodeFits(e) /\ e # None
  BY DeviceAssumption DEF IInv
<1> QED BY <1>1 DEF CodeFits

LEMMA CodesDiffer ==
  ASSUME IInv,
         \A e \in DeviceCodes : codes'[e].status \in Present =>
           codes[e].status \in Present /\ codes'[e].uc = codes[e].uc
  PROVE  UserCodesDiffer'
BY DEF IInv, UserCodesDiffer

(* Steps that change no row keep all of this.                               *)
LEMMA CodesSame ==
  ASSUME IInv, codes' = codes
  PROVE  CodesKeep /\ UserCodesDiffer'
BY CodesDiffer DEF CodesKeep, Known

LEMMA ApprovalsSame ==
  ASSUME IInv, codes' = codes, approvals' = approvals
  PROVE  /\ \A e \in DeviceCodes : CodeFits(e)'
         /\ \A a \in Approvals : ApprovalFits(a)'
BY DEF IInv, CodeFits, ApprovalFits

(* A step of one poll that changes no row and no approval.                  *)
LEMMA PollStep ==
  ASSUME IInv, NEW p \in Polls, OnlyPoll(p), PollFits(p)',
         UNCHANGED <<now, codes, approvals>>, faults' \in Nat
  PROVE  IInv' /\ CodesKeep
<1>1. CodesKeep /\ UserCodesDiffer'
  BY CodesSame
<1>2. \A q \in Polls : PollFits(q)'
  BY <1>1, PollKeeps DEF OnlyPoll
<1>3. TypeOK'
  BY DEF IInv, TypeOK, OnlyPoll
<1> QED BY <1>1, <1>2, <1>3, ApprovalsSame DEF IInv

(* What IInv says of one poll.                                              *)
LEMMA PollFacts ==
  ASSUME IInv, NEW p \in Polls
  PROVE  /\ TypeOK /\ PollFits(p)
         /\ polls[p].pc # "idle" \/ Minted(p) => polls[p].code \in DeviceCodes
BY DEF IInv, PollFits, TypeOK, Poll

LEMMA FaultsType == ASSUME TypeOK, NoFault \/ Fault PROVE faults' \in Nat
BY DEF TypeOK, NoFault, Fault

-----------------------------------------------------------------------------
(* One lemma per action.                                                    *)
LEMMA RequestStep ==
  ASSUME IInv, NEW d \in DeviceCodes, NEW uc \in UserCodes, NEW client \in Clients,
         RequestCodes(d, uc, client)
  PROVE  IInv' /\ CodesKeep
<1>1. TypeOK /\ OnlyCode(d) /\ codes[d].status = "none" /\ codes'[d].status = "sent"
  BY RequestEffect DEF IInv
<1>2. UNCHANGED <<now, polls, approvals, faults>>
  BY DEF RequestCodes
<1>3. CodesKeep
  BY <1>1 DEF CodesKeep, OnlyCode, Known
<1>4. UserCodesDiffer'
  BY <1>1, CodesDiffer DEF OnlyCode, Present
<1>5. \A e \in DeviceCodes : CodeFits(e)'
  BY <1>1, <1>2, CodesFit DEF OnlyCode
<1>6. \A p \in Polls : PollFits(p)'
  BY <1>2, <1>3, PollKeeps
<1> QED BY <1>1, <1>2, <1>3, <1>4, <1>5, <1>6 DEF IInv, TypeOK, OnlyCode, ApprovalFits

LEMMA InsertStep ==
  ASSUME IInv, NEW d \in DeviceCodes, InsertDeviceCode(d)
  PROVE  IInv' /\ CodesKeep
<1>1. /\ TypeOK /\ OnlyCode(d) /\ codes[d].status = "sent"
      /\ codes'[d].uc = codes[d].uc
      /\ \/ codes'[d].status = "pending" /\ ~UserCodeTaken(codes[d].uc)
         \/ codes'[d].status = "failed"
  BY InsertEffect DEF IInv, CodeMarked
<1>2. UNCHANGED <<now, polls, approvals>> /\ faults' \in Nat
  BY <1>1, FaultsType DEF InsertDeviceCode
<1>3. CodesKeep
  BY <1>1 DEF CodesKeep, OnlyCode, Known
<1>4. UserCodesDiffer'
  BY <1>1 DEF IInv, UserCodesDiffer, UserCodeTaken, OnlyCode, Present
<1>5. \A e \in DeviceCodes : CodeFits(e)'
  BY <1>1, <1>2, CodesFit DEF OnlyCode
<1>6. \A p \in Polls : PollFits(p)'
  BY <1>2, <1>3, PollKeeps
<1> QED BY <1>1, <1>2, <1>3, <1>4, <1>5, <1>6 DEF IInv, TypeOK, OnlyCode, ApprovalFits

LEMMA ApprovalStep ==
  ASSUME IInv, NEW a \in Approvals, OnlyApproval(a), ApprovalFits(a)',
         approvals'[a].code = None, approvals[a].code = None,
         UNCHANGED <<now, codes, polls>>, faults' \in Nat
  PROVE  IInv' /\ CodesKeep
<1>1. CodesKeep /\ UserCodesDiffer'
  BY CodesSame
<1>2. \A e \in DeviceCodes : CodeFits(e)'
  BY CodesFit DEF OnlyApproval
<1>3. \A p \in Polls : PollFits(p)'
  BY <1>1, PollKeeps
<1>4. \A b \in Approvals : ApprovalFits(b)'
  BY DEF IInv, ApprovalFits, OnlyApproval
<1> QED BY <1>1, <1>2, <1>3, <1>4 DEF IInv, TypeOK, OnlyApproval

LEMMA ReceiveApprovalStep ==
  ASSUME IInv, NEW a \in Approvals, NEW uc \in UserCodes, NEW user \in Users,
         ReceiveApproval(a, uc, user)
  PROVE  IInv' /\ CodesKeep
<1>1. TypeOK /\ ApprovalFits(a)
  BY DEF IInv
<1>2. UNCHANGED <<now, codes, polls>> /\ faults' \in Nat
  BY <1>1 DEF ReceiveApproval, TypeOK
<1> QED BY <1>1, <1>2, ReceiveApprovalEffect, ApprovalStep DEF ApprovalFits

LEMMA DroppedStep ==
  ASSUME IInv, NEW a \in Approvals, ApprovalDropped(a),
         UNCHANGED <<now, codes, polls>>, faults' \in Nat
  PROVE  IInv' /\ CodesKeep
<1>1. TypeOK /\ ApprovalFits(a)
  BY DEF IInv
<1> QED BY <1>1, ApprovalStep DEF ApprovalFits, ApprovalDropped

LEMMA ApproveStep ==
  ASSUME IInv, NEW a \in Approvals, ApproveDevice(a)
  PROVE  IInv' /\ CodesKeep
<1>1. TypeOK /\ ApprovalFits(a)
  BY DEF IInv
<1>2. UNCHANGED <<now, polls>> /\ faults' \in Nat
  BY <1>1, FaultsType DEF ApproveDevice, NoFault
<1>3. CASE codes' = codes /\ ApprovalDropped(a)
  BY <1>2, <1>3, DroppedStep
<1>4. ASSUME NEW d \in DeviceCodes, Approvable(d, a), CodeMarked(d, "approved"),
             codes'[d].user = approvals[a].user, OnlyApproval(a),
             approvals[a].pc = "update", approvals'[a].pc = "approved",
             approvals'[a].code = d, approvals'[a].user = approvals[a].user,
             approvals'[a].at = approvals[a].at
      PROVE  IInv' /\ CodesKeep
  <2>1. approvals[a].code = None /\ codes[d].status = "pending" /\ codes[d].exp > approvals[a].at
    BY <1>1, <1>4 DEF ApprovalFits, Approvable
  <2>2. CodesKeep
    BY <1>4, <2>1 DEF CodesKeep, CodeMarked, OnlyCode, Known
  <2>3. UserCodesDiffer'
    BY <1>4, <2>1, CodesDiffer DEF CodeMarked, OnlyCode, Present
  <2>4. \A p \in Polls : PollFits(p)'
    BY <1>2, <2>2, PollKeeps
  <2>5. \A e \in DeviceCodes : CodeFits(e) /\ e # None
    BY DeviceAssumption DEF IInv
  <2>6. CodeFits(d)'
    <3>1. \A b \in Approvals : b # a => approvals'[b].code # d
      BY <1>4, <2>1, <2>5 DEF CodeFits, OnlyApproval
    <3>2. approvals'[a].at < codes'[d].exp
      BY <1>4, <2>1, <1>1 DEF CodeMarked, TypeOK, Code, Approval
    <3> QED BY <1>4, <3>1, <3>2 DEF CodeFits, CodeMarked
  <2>7. \A e \in DeviceCodes : e # d => CodeFits(e)'
    BY <1>4, <2>1, <2>5 DEF CodeFits, CodeMarked, OnlyCode, OnlyApproval
  <2>8. \A b \in Approvals : ApprovalFits(b)'
    BY <1>4 DEF IInv, ApprovalFits, OnlyApproval
  <2>9. TypeOK'
    BY <1>1, <1>2, <1>4 DEF TypeOK, CodeMarked, OnlyCode, OnlyApproval
  <2> QED BY <2>2, <2>3, <2>4, <2>6, <2>7, <2>8, <2>9 DEF IInv
<1> QED BY <1>1, <1>3, <1>4, ApproveEffect

LEMMA LoseApprovalStep ==
  ASSUME IInv, NEW a \in Approvals, LoseApproval(a)
  PROVE  IInv' /\ CodesKeep
<1>1. TypeOK
  BY DEF IInv
<1>2. UNCHANGED <<now, codes, polls>> /\ faults' \in Nat /\ approvals[a].pc = "update"
      /\ approvals' = [approvals EXCEPT ![a].pc = "lost"]
  BY <1>1, FaultsType DEF LoseApproval
<1>3. ApprovalDropped(a)
  BY <1>1, <1>2, ApprovalDrop
<1> QED BY <1>2, <1>3, DroppedStep

LEMMA ReceivePollStep ==
  ASSUME IInv, NEW p \in Polls, NEW d \in DeviceCodes, NEW client \in Clients,
         ReceivePoll(p, d, client)
  PROVE  IInv' /\ CodesKeep
<1>1. TypeOK
  BY DEF IInv
<1>2. UNCHANGED <<now, codes, approvals>> /\ faults' \in Nat
  BY <1>1 DEF ReceivePoll, TypeOK
<1>3. /\ OnlyPoll(p) /\ polls'[p].pc = "select" /\ polls'[p].code = d /\ Known(d)
      /\ polls'[p].seen = "absent" /\ polls'[p].pair = "none" /\ polls'[p].del = "none"
  BY <1>1, ReceivePollEffect
<1>4. PollFits(p)'
  BY <1>2, <1>3, DeviceAssumption DEF PollFits, Known, Minted
<1> QED BY <1>2, <1>3, <1>4, PollStep

(* The poll p ends, or waits for nothing more, with what it had.            *)
LEMMA MovedFits ==
  ASSUME IInv, NEW p \in Polls, NEW l \in {"pending", "refused", "lost"},
         PollMoved(p, l), polls[p].pc # "idle", codes' = codes
  PROVE  PollFits(p)'
BY PollFacts DEF PollMoved, SamePoll, PollFits, Known, Minted

LEMMA SelectStep ==
  ASSUME IInv, NEW p \in Polls, SelectDeviceCode(p)
  PROVE  IInv' /\ CodesKeep
<1>1. TypeOK /\ PollFits(p) /\ polls[p].code \in DeviceCodes
  BY PollFacts DEF SelectDeviceCode
<1>2. UNCHANGED <<now, codes, approvals>> /\ faults' \in Nat
  BY <1>1, FaultsType DEF SelectDeviceCode
<1>3. CASE PollMoved(p, "refused")
  BY <1>1, <1>2, <1>3, MovedFits, PollStep DEF PollMoved, SelectDeviceCode
<1>4. CASE /\ OnlyPoll(p) /\ polls'[p].pc = "check"
           /\ polls[p].pc = "select"
           /\ polls'[p].seen = codes[polls[p].code].status
           /\ polls'[p].user = codes[polls[p].code].user
           /\ polls'[p].code = polls[p].code
           /\ polls'[p].pair = polls[p].pair /\ polls'[p].del = polls[p].del
  <2>1. PollFits(p)'
    BY <1>1, <1>2, <1>4 DEF PollFits, Known, Minted
  <2> QED BY <1>2, <1>4, <2>1, PollStep
<1> QED BY <1>1, <1>3, <1>4, SelectEffect

LEMMA CheckStep ==
  ASSUME IInv, NEW p \in Polls, CheckDeviceCode(p)
  PROVE  IInv' /\ CodesKeep
<1>1. TypeOK /\ PollFits(p) /\ polls[p].code \in DeviceCodes /\ polls[p].pc = "check"
  BY PollFacts DEF CheckDeviceCode
<1>2. UNCHANGED <<now, codes, approvals>> /\ faults' \in Nat
  BY <1>1 DEF CheckDeviceCode, TypeOK
<1>3. ASSUME NEW l \in {"pending", "refused", "lost"}, PollMoved(p, l) PROVE IInv' /\ CodesKeep
  BY <1>1, <1>2, <1>3, MovedFits, PollStep DEF PollMoved
<1>4. CASE /\ OnlyPoll(p) /\ polls'[p].pc = "save"
           /\ OfClient(p) /\ ~Expired(p) /\ polls[p].seen = "approved"
           /\ polls'[p].pair = "minted" /\ polls'[p].at = now
           /\ polls'[p].code = polls[p].code /\ polls'[p].client = polls[p].client
           /\ polls'[p].seen = polls[p].seen /\ polls'[p].user = polls[p].user
           /\ polls'[p].del = polls[p].del
  <2>1. now < codes[polls[p].code].exp
    BY <1>1, <1>4 DEF Expired, TypeOK, Code
  <2>2. PollFits(p)'
    BY <1>1, <1>2, <1>4, <2>1 DEF PollFits, Known, Minted, OfClient
  <2> QED BY <1>2, <1>4, <2>2, PollStep
<1> QED BY <1>1, <1>3, <1>4, CheckEffect

LEMMA SaveStep ==
  ASSUME IInv, NEW p \in Polls, SaveTokenPair(p)
  PROVE  IInv' /\ CodesKeep
<1>1. TypeOK /\ PollFits(p)
  BY PollFacts
<1>2. UNCHANGED <<now, codes, approvals>> /\ faults' \in Nat
  BY <1>1, FaultsType DEF SaveTokenPair
<1>3. PollFits(p)'
  BY <1>1, <1>2, SaveEffect DEF PollFits, Known, Minted
<1> QED BY <1>1, <1>2, <1>3, SaveEffect, PollStep

LEMMA AnswerStep ==
  ASSUME IInv, NEW p \in Polls, AnswerPoll(p)
  PROVE  IInv' /\ CodesKeep
<1>1. TypeOK /\ PollFits(p)
  BY PollFacts
<1>2. UNCHANGED <<now, codes, approvals>> /\ faults' \in Nat
  BY <1>1 DEF AnswerPoll, TypeOK
<1>3. PollFits(p)'
  BY <1>1, <1>2, AnswerEffect DEF PollFits, Known, Minted, SamePoll
<1> QED BY <1>1, <1>2, <1>3, AnswerEffect, PollStep

LEMMA DeleteStep ==
  ASSUME IInv, NEW p \in Polls, DeleteDeviceCode(p)
  PROVE  IInv' /\ CodesKeep
<1> DEFINE d == polls[p].code
<1>1. TypeOK /\ PollFits(p) /\ d \in DeviceCodes /\ codes[d].status \in {"approved", "deleted"}
  BY PollFacts DEF DeleteDeviceCode, PollFits
<1>2. UNCHANGED <<now, approvals>> /\ faults' \in Nat
  BY <1>1, FaultsType DEF DeleteDeviceCode
<1>3. /\ OnlyPoll(p) /\ polls[p].del # "none" /\ polls'[p].pc = polls[p].pc
      /\ SamePoll(polls'[p], polls[p])
      /\ \/ codes' = codes
         \/ CodeMarked(d, "deleted") /\ codes'[d].user = codes[d].user
  BY <1>1, DeleteEffect
<1>4. codes' \in [DeviceCodes -> Code]
  BY <1>1, <1>3 DEF TypeOK, CodeMarked, OnlyCode
<1>5. CodesKeep
  BY <1>1, <1>3 DEF CodesKeep, CodeMarked, OnlyCode, Known
<1>6. UserCodesDiffer'
  BY <1>1, <1>3, CodesDiffer DEF CodeMarked, OnlyCode, Present
<1>7. \A e \in DeviceCodes : CodeFits(e)'
  BY <1>1, <1>2, <1>3, CodesFit DEF CodeMarked, OnlyCode
<1>8. PollFits(p)'
  BY <1>1, <1>3, <1>5 DEF PollFits, CodesKeep, Known, Minted, SamePoll
<1>9. \A q \in Polls : PollFits(q)'
  BY <1>3, <1>5, <1>8, PollKeeps DEF OnlyPoll
<1> QED BY <1>1, <1>2, <1>3, <1>4, <1>5, <1>6, <1>7, <1>9
        DEF IInv, TypeOK, OnlyPoll, ApprovalFits

LEMMA LosePollStep ==
  ASSUME IInv, NEW p \in Polls, LosePoll(p)
  PROVE  IInv' /\ CodesKeep
<1>1. TypeOK
  BY DEF IInv
<1>2. /\ UNCHANGED <<now, codes, approvals>> /\ faults' \in Nat /\ polls[p].pc # "idle"
      /\ polls' = [polls EXCEPT ![p].pc = "lost"]
  BY <1>1, FaultsType DEF LosePoll
<1>3. PollMoved(p, "lost")
  BY <1>1, <1>2, PollMove DEF PollPc
<1> QED BY <1>2, <1>3, MovedFits, PollStep DEF PollMoved

LEMMA TickStep ==
  ASSUME IInv, Tick \/ UNCHANGED vars
  PROVE  IInv' /\ CodesKeep
<1>1. UNCHANGED <<codes, polls, approvals, faults>> /\ now' \in Nat
  BY DEF Tick, vars, IInv, TypeOK
<1>2. CodesKeep /\ UserCodesDiffer'
  BY <1>1, CodesSame
<1>3. \A p \in Polls : PollFits(p)'
  BY <1>1, <1>2, PollKeeps
<1> QED BY <1>1, <1>2, <1>3, ApprovalsSame DEF IInv, TypeOK

LEMMA Step == ASSUME IInv, [Next]_vars PROVE IInv' /\ CodesKeep
BY RequestStep, InsertStep, ReceiveApprovalStep, ApproveStep, LoseApprovalStep,
   ReceivePollStep, SelectStep, CheckStep, SaveStep, AnswerStep, DeleteStep,
   LosePollStep, TickStep
   DEF Next, Authorize, Approve, Exchange

-----------------------------------------------------------------------------
LEMMA Initially == Init => IInv
<1> SUFFICES ASSUME Init PROVE IInv
  OBVIOUS
<1>1. TypeOK
  BY DEF Init, TypeOK, NoCode, NoPoll, NoApproval, Code, Poll, Approval, CodeStatus, PollPc
<1>2. UserCodesDiffer
  BY DEF Init, UserCodesDiffer, NoCode, Present
<1>3. \A a \in Approvals : ApprovalFits(a) /\ approvals[a].code = None
  BY DEF Init, ApprovalFits, NoApproval
<1>4. \A d \in DeviceCodes : CodeFits(d)
  BY <1>3, DeviceAssumption DEF Init, CodeFits, NoCode
<1>5. \A p \in Polls : PollFits(p)
  BY DEF Init, PollFits, NoPoll, Minted
<1> QED BY <1>1, <1>2, <1>3, <1>4, <1>5 DEF IInv

(* The inductive invariant of the device grant: user codes of stored rows   *)
(* differ, a row is approved exactly when one accepted approval names it,   *)
(* and a poll with a pair has read an approved row of its client in time.   *)
THEOREM Invariance == Spec => []IInv
<1>1. IInv /\ [Next]_vars => IInv'
  BY Step
<1> QED BY Initially, <1>1, PTL DEF Spec

(* A pair is for the user whose approval of that code was accepted, however *)
(* approvals and polls interleave.                                          *)
THEOREM PairsGoToTheApprover == Spec => []IssuedToApprover
<1>1. IInv => IssuedToApprover
  <2> SUFFICES ASSUME IInv, NEW p \in Polls, Minted(p)
               PROVE  /\ polls[p].client = codes[polls[p].code].client
                      /\ \E a \in Approvals : approvals[a].code = polls[p].code
                                              /\ approvals[a].user = polls[p].user
                      /\ \A a \in Approvals : approvals[a].code = polls[p].code
                                              => approvals[a].user = polls[p].user
    BY DEF IssuedToApprover
  <2>1. PollFits(p) /\ polls[p].code \in DeviceCodes
    BY PollFacts
  <2>2. CodeFits(polls[p].code)
    BY <2>1 DEF IInv
  <2> QED BY <2>1, <2>2 DEF PollFits, CodeFits
<1> QED BY <1>1, Invariance, PTL

(* No pair is built from an expired code, nor from one approved too late.   *)
THEOREM NoLatePair == Spec => []IssuedInTime
<1>1. IInv => IssuedInTime
  <2> SUFFICES ASSUME IInv PROVE IssuedInTime
    OBVIOUS
  <2>1. \A p \in Polls : Minted(p) => polls[p].at < codes[polls[p].code].exp
    BY DEF IInv, PollFits
  <2>2. ASSUME NEW a \in Approvals, approvals[a].code # None
        PROVE  approvals[a].at < codes[approvals[a].code].exp
    <3>1. approvals[a].code \in DeviceCodes
      BY <2>2 DEF IInv, TypeOK, Approval
    <3>2. CodeFits(approvals[a].code)
      BY <3>1 DEF IInv
    <3> QED BY <3>2 DEF CodeFits
  <2> QED BY <2>1, <2>2 DEF IssuedInTime
<1> QED BY <1>1, Invariance, PTL

-----------------------------------------------------------------------------
(* How a step changes one poll: why it is refused, when it gets its pair,   *)
(* and what it has read when it is about to.                                *)
RefusedNow(q) ==
  polls'[q].pc = "refused" =>
    /\ polls[q].pc # "idle"
    /\ polls'[q].code = polls[q].code /\ polls'[q].client = polls[q].client
    /\ \/ polls[q].pc = "refused"
       \/ codes[polls[q].code].status \notin Present
       \/ faults' = faults + 1
       \/ ~OfClient(q)
       \/ Expired(q)

MintsOnce(q) ==
  /\ polls[q].pair = "none" /\ polls'[q].pair # "none" =>
       polls[q].pc = "check" /\ polls[q].seen = "approved" /\ polls'[q].code = polls[q].code
  /\ polls[q].pair # "none" => polls'[q].pair # "none" /\ polls'[q].code = polls[q].code
  /\ polls'[q].pc = "check" /\ polls'[q].seen = "approved" =>
       /\ polls'[q].code = polls[q].code
       /\ \/ polls[q].pc = "check" /\ polls[q].seen = "approved"
          \/ codes[polls[q].code].status \in Present

LEMMA OthersEvolve ==
  ASSUME IInv, NEW q \in Polls, polls'[q] = polls[q]
  PROVE  RefusedNow(q) /\ MintsOnce(q)
BY DEF RefusedNow, MintsOnce

LEMMA MovedEvolves ==
  ASSUME IInv, NEW p \in Polls, NEW l \in {"pending", "lost"}, PollMoved(p, l)
  PROVE  RefusedNow(p) /\ MintsOnce(p)
BY DEF RefusedNow, MintsOnce, PollMoved, SamePoll

LEMMA PollEvolves ==
  ASSUME IInv, NEW p \in Polls, Exchange(p)
  PROVE  OnlyPoll(p) /\ RefusedNow(p) /\ MintsOnce(p)
<1>1. TypeOK /\ PollFits(p)
  BY PollFacts
<1>2. ASSUME NEW d \in DeviceCodes, NEW client \in Clients, ReceivePoll(p, d, client)
      PROVE  OnlyPoll(p) /\ RefusedNow(p) /\ MintsOnce(p)
  BY <1>1, <1>2, ReceivePollEffect DEF RefusedNow, MintsOnce, PollFits, Minted
<1>3. CASE SelectDeviceCode(p)
  <2>1. polls[p].code \in DeviceCodes /\ ~Minted(p)
    BY <1>1, <1>3, PollFacts DEF SelectDeviceCode, PollFits
  <2> QED BY <1>1, <1>3, <2>1, SelectEffect
          DEF RefusedNow, MintsOnce, PollMoved, SamePoll, Minted
<1>4. CASE CheckDeviceCode(p)
  <2>1. polls[p].pc = "check" /\ ~Minted(p)
    BY <1>1, <1>4 DEF CheckDeviceCode, PollFits
  <2>2. CASE PollMoved(p, "refused") /\ (~OfClient(p) \/ Expired(p))
    BY <2>1, <2>2 DEF RefusedNow, MintsOnce, PollMoved, SamePoll
  <2>3. CASE PollMoved(p, "pending")
    BY <2>1, <2>3, MovedEvolves DEF PollMoved
  <2>4. CASE OnlyPoll(p) /\ polls'[p].pc = "save" /\ polls[p].seen = "approved"
             /\ polls'[p].code = polls[p].code
    BY <2>1, <2>4 DEF RefusedNow, MintsOnce, Minted
  <2> QED BY <1>1, <1>4, <2>2, <2>3, <2>4, CheckEffect
<1>5. CASE SaveTokenPair(p)
  BY <1>1, <1>5, SaveEffect DEF RefusedNow, MintsOnce, PollFits, Minted
<1>6. CASE AnswerPoll(p)
  BY <1>1, <1>6, AnswerEffect DEF RefusedNow, MintsOnce, SamePoll
<1>7. CASE DeleteDeviceCode(p)
  <2>1. polls[p].code \in DeviceCodes /\ polls[p].pc # "idle"
    BY <1>1, <1>7, PollFacts DEF DeleteDeviceCode, PollFits
  <2> QED BY <1>1, <1>7, <2>1, DeleteEffect DEF RefusedNow, MintsOnce, SamePoll
<1>8. CASE LosePoll(p)
  <2>1. PollMoved(p, "lost")
    BY <1>1, <1>8, PollMove DEF LosePoll, PollPc
  <2> QED BY <2>1, MovedEvolves DEF PollMoved
<1> QED BY <1>2, <1>3, <1>4, <1>5, <1>6, <1>7, <1>8 DEF Exchange

LEMMA PollsEvolve ==
  ASSUME IInv, [Next]_vars, NEW q \in Polls
  PROVE  RefusedNow(q) /\ MintsOnce(q)
<1>1. CASE polls' = polls
  BY <1>1, OthersEvolve
<1>2. ASSUME NEW p \in Polls, Exchange(p) PROVE RefusedNow(q) /\ MintsOnce(q)
  BY <1>2, PollEvolves, OthersEvolve DEF OnlyPoll
<1>3. ASSUME NEW d \in DeviceCodes, Authorize(d) PROVE polls' = polls
  BY <1>3 DEF Authorize, RequestCodes, InsertDeviceCode
<1>4. ASSUME NEW a \in Approvals, Approve(a) PROVE polls' = polls
  BY <1>4 DEF Approve, ReceiveApproval, ApproveDevice, LoseApproval
<1> QED BY <1>1, <1>2, <1>3, <1>4 DEF Next, Tick, vars

(* The clock and the count of failures do not go back.                      *)
LEMMA Forward ==
  ASSUME IInv, [Next]_vars
  PROVE  now' >= now /\ faults' >= faults
<1>1. now \in Nat /\ faults \in Nat
  BY DEF IInv, TypeOK
<1> USE DEF NoFault, Fault
<1>2. ASSUME NEW d \in DeviceCodes, Authorize(d) PROVE now' >= now /\ faults' >= faults
  BY <1>1, <1>2 DEF Authorize, RequestCodes, InsertDeviceCode
<1>3. ASSUME NEW a \in Approvals, Approve(a) PROVE now' >= now /\ faults' >= faults
  <2>1. ASSUME NEW uc \in UserCodes, NEW user \in Users, ReceiveApproval(a, uc, user) PROVE now' = now /\ (faults' = faults \/ faults' = faults + 1)
    BY <2>1 DEF ReceiveApproval
  <2>2. CASE ApproveDevice(a)
    <3>1. now' = now /\ (faults' = faults \/ faults' = faults + 1)
      BY <2>2 DEF ApproveDevice
    <3> QED BY <1>1, <3>1
  <2>3. CASE LoseApproval(a)
    <3>1. now' = now /\ (faults' = faults \/ faults' = faults + 1)
      BY <2>3 DEF LoseApproval
    <3> QED BY <1>1, <3>1
  <2> QED BY <1>1, <1>3, <2>1, <2>2, <2>3 DEF Approve
<1>4. ASSUME NEW p \in Polls, Exchange(p) PROVE now' >= now /\ faults' >= faults
  <2>1. ASSUME NEW d \in DeviceCodes, NEW client \in Clients, ReceivePoll(p, d, client) PROVE now' = now /\ (faults' = faults \/ faults' = faults + 1)
    BY <2>1 DEF ReceivePoll
  <2>2. CASE SelectDeviceCode(p)
    <3>1. now' = now /\ (faults' = faults \/ faults' = faults + 1)
      BY <2>2 DEF SelectDeviceCode
    <3> QED BY <1>1, <3>1
  <2>3. CASE CheckDeviceCode(p)
    <3>1. now' = now /\ (faults' = faults \/ faults' = faults + 1)
      BY <2>3 DEF CheckDeviceCode
    <3> QED BY <1>1, <3>1
  <2>4. CASE SaveTokenPair(p)
    <3>1. now' = now /\ (faults' = faults \/ faults' = faults + 1)
      BY <2>4 DEF SaveTokenPair
    <3> QED BY <1>1, <3>1
  <2>5. CASE AnswerPoll(p)
    <3>1. now' = now /\ (faults' = faults \/ faults' = faults + 1)
      BY <2>5 DEF AnswerPoll
    <3> QED BY <1>1, <3>1
  <2>6. CASE DeleteDeviceCode(p)
    <3>1. now' = now /\ (faults' = faults \/ faults' = faults + 1)
      BY <2>6 DEF DeleteDeviceCode
    <3> QED BY <1>1, <3>1
  <2>7. CASE LosePoll(p)
    <3>1. now' = now /\ (faults' = faults \/ faults' = faults + 1)
      BY <2>7 DEF LosePoll
    <3> QED BY <1>1, <3>1
  <2> QED BY <1>1, <1>4, <2>1, <2>2, <2>3, <2>4, <2>5, <2>6, <2>7 DEF Exchange
<1> QED BY <1>1, <1>2, <1>3, <1>4 DEF Next, Tick, vars

(* Without failures a poll is refused only for a wrong client, an expired   *)
(* code or one that was consumed.                                           *)
THEOREM RefusalsHaveACause == Spec => []RefusedForCause
<1>1. Init => RefusedForCause
  BY DEF Init, RefusedForCause, NoPoll
<1>2. IInv /\ RefusedForCause /\ [Next]_vars => RefusedForCause'
  <2> SUFFICES ASSUME IInv, RefusedForCause, [Next]_vars, NEW p \in Polls,
                      polls'[p].pc = "refused", faults' = 0
               PROVE  OfClient(p)' /\ ~Expired(p)' =>
                        codes'[polls'[p].code].status = "deleted"
    BY DEF RefusedForCause
  <2> DEFINE d == polls[p].code
  <2>1. faults = 0 /\ now' >= now /\ now \in Nat /\ now' \in Nat
    BY Forward, Step DEF IInv, TypeOK
  <2>2. RefusedNow(p) /\ CodesKeep
    BY PollsEvolve, Step
  <2>3. /\ polls'[p].code = d /\ polls'[p].client = polls[p].client
        /\ d \in DeviceCodes /\ Known(d)
    BY <2>2, PollFacts DEF RefusedNow, PollFits
  <2>4. codes'[d].client = codes[d].client /\ codes'[d].exp = codes[d].exp
    BY <2>2, <2>3 DEF CodesKeep
  <2>5. codes[d].exp \in Nat
    BY <2>3 DEF IInv, TypeOK, Code
  <2>6. CASE ~OfClient(p)
    BY <2>3, <2>4, <2>6 DEF OfClient
  <2>7. CASE Expired(p)
    BY <2>1, <2>3, <2>4, <2>5, <2>7 DEF Expired
  <2>8. CASE codes[d].status \notin Present
    <3>1. codes[d].status = "deleted"
      BY <2>3, <2>8 DEF Known, Present
    <3> QED BY <2>2, <2>3, <3>1 DEF CodesKeep
  <2>9. CASE polls[p].pc = "refused"
    <3>1. CASE codes[d].status = "deleted"
      BY <2>2, <2>3, <3>1 DEF CodesKeep
    <3> QED BY <2>1, <2>6, <2>7, <2>9, <3>1 DEF RefusedForCause
  <2> QED BY <2>1, <2>2, <2>6, <2>7, <2>8, <2>9 DEF RefusedNow
<1> QED BY <1>1, <1>2, Invariance, PTL DEF Spec

(* Once a code is deleted and no poll that read it before is still to be    *)
(* handled, no poll is ever given a pair for it again.                      *)
THEOREM SpentIsSpent == Spec => SpentStaysSpent
<1>1. IInv /\ [Next]_vars =>
        \A d \in DeviceCodes : Spent(d) => Spent(d)' /\ PollsWithPair(d)' = PollsWithPair(d)
  <2> SUFFICES ASSUME IInv, [Next]_vars, NEW d \in DeviceCodes, Spent(d)
               PROVE  Spent(d)' /\ PollsWithPair(d)' = PollsWithPair(d)
    OBVIOUS
  <2>1. codes[d].status = "deleted" /\ codes'[d].status = "deleted"
    BY Step DEF CodesKeep, Spent
  <2>2. ASSUME NEW p \in Polls
        PROVE  /\ ~(polls'[p].code = d /\ polls'[p].pc = "check" /\ polls'[p].seen = "approved")
               /\ polls'[p].code = d /\ polls'[p].pair # "none" <=>
                    polls[p].code = d /\ polls[p].pair # "none"
    <3>1. MintsOnce(p)
      BY PollsEvolve
    <3>2. ~(polls[p].code = d /\ polls[p].pc = "check" /\ polls[p].seen = "approved")
      BY DEF Spent
    <3> QED BY <2>1, <3>1, <3>2 DEF MintsOnce, Present
  <2> QED BY <2>1, <2>2 DEF Spent, PollsWithPair, Minted
<1> QED BY <1>1, Invariance, PTL DEF Spec, SpentStaysSpent
=============================================================================
