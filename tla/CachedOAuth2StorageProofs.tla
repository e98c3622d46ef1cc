--------------------- MODULE CachedOAuth2StorageProofs ---------------------
(***************************************************************************)
(* Proofs about CachedOAuth2Storage, for any number of instances,          *)
(* validations and revocations, with or without Redis, and any number of   *)
(* failures and restarts.                                                  *)
(***************************************************************************)
EXTENDS CachedOAuth2Storage, TLAPS

-----------------------------------------------------------------------------
(* What the records of validations and revocations become when some of      *)
(* their fields are changed.                                                *)
LEMMA ReaderGoto ==
  ASSUME NEW r \in Reader, NEW pc \in ReaderPc
  PROVE  [r EXCEPT !.pc = pc] \in Reader
BY DEF Reader

LEMMA ReaderCopy ==
  ASSUME NEW r \in Reader, NEW pc \in ReaderPc, NEW copy \in Copy
  PROVE  [r EXCEPT !.pc = pc, !.copy = copy] \in Reader
BY DEF Reader

LEMMA ReaderFill ==
  ASSUME NEW r \in Reader, NEW pc \in ReaderPc, NEW fill \in SUBSET {"l1", "l2"}
  PROVE  [r EXCEPT !.pc = pc, !.fill = fill] \in Reader
BY DEF Reader

LEMMA ReaderAnswer ==
  ASSUME NEW r \in Reader, NEW pc \in ReaderPc, NEW answer \in {"none", "accepted", "refused"}
  PROVE  [r EXCEPT !.pc = pc, !.answer = answer] \in Reader
BY DEF Reader

LEMMA RevokerGoto ==
  ASSUME NEW r \in Revoker, NEW pc \in RevokerPc
  PROVE  [r EXCEPT !.pc = pc] \in Revoker
BY DEF Revoker

LEMMA RevokerOverlap ==
  ASSUME NEW r \in Revoker, NEW overlap \in BOOLEAN
  PROVE  /\ [r EXCEPT !.overlap = overlap] \in Revoker
         /\ [r EXCEPT !.overlap = overlap].overlap = overlap
BY DEF Revoker

(* Only validation v, or only revocation w, takes a step.                   *)
OnlyReader(v) ==
  /\ readers' \in [Readers -> Reader]
  /\ \A u \in Readers : u # v => readers'[u] = readers[u]

OnlyRevoker(w) ==
  /\ revokers' \in [Revokers -> Revoker]
  /\ \A u \in Revokers : u # w => revokers'[u] = revokers[u]

LEMMA ReaderPoint ==
  ASSUME TypeOK, NEW v \in Readers, NEW r \in Reader,
         readers' = [readers EXCEPT ![v] = r]
  PROVE  OnlyReader(v) /\ readers'[v] = r
BY DEF TypeOK, OnlyReader

LEMMA RevokerPoint ==
  ASSUME TypeOK, NEW w \in Revokers, NEW r \in Revoker,
         revokers' = [revokers EXCEPT ![w] = r]
  PROVE  OnlyRevoker(w) /\ revokers'[w] = r
BY DEF TypeOK, OnlyRevoker

LEMMA L2CopyType == TypeOK => L2Copy \in Copy
BY DEF TypeOK, L2Copy, Copy

-----------------------------------------------------------------------------
(* The effect of each step of getAccessToken on the validation itself.      *)
LEMMA LookUpReader ==
  ASSUME TypeOK, NEW v \in Readers, NEW i \in Instances, LookUpL1(v, i)
  PROVE  /\ OnlyReader(v)
         /\ readers'[v].inst = i
         /\ readers'[v].copy = "absent"
         /\ "l2" \notin readers'[v].fill
         /\ \/ readers'[v].pc = "done" /\ UNCHANGED revokers
            \/ readers'[v].pc = "get" /\ HasRedis
            \/ readers'[v].pc = "read"
<1> DEFINE arrived == [NoReader EXCEPT !.inst = i, !.since = Acknowledged]
<1>1. /\ arrived \in Reader
      /\ arrived.inst = i /\ arrived.copy = "absent" /\ arrived.fill = {}
  BY DEF NoReader, Reader, ReaderPc, Copy, Acknowledged
<1> HIDE DEF arrived
<1>2. CASE /\ l1[i] # "absent"
           /\ readers' = [readers EXCEPT ![v] = [arrived EXCEPT !.pc = "done",
                                                                !.answer = Verdict(l1[i])]]
           /\ UNCHANGED revokers
  <2> DEFINE answer == Verdict(l1[i])
             rec == [arrived EXCEPT !.pc = "done", !.answer = answer]
  <2>1. answer \in {"none", "accepted", "refused"} /\ "done" \in ReaderPc
    BY DEF Verdict, ReaderPc
  <2> HIDE DEF answer
  <2>2. rec \in Reader
    BY <1>1, <2>1, ReaderAnswer
  <2>3. rec.pc = "done" /\ rec.inst = i /\ rec.copy = "absent" /\ rec.fill = {}
    BY <1>1 DEF Reader
  <2>4. readers' = [readers EXCEPT ![v] = rec]
    BY <1>2 DEF answer
  <2> HIDE DEF rec
  <2> QED BY <1>2, <2>2, <2>3, <2>4, ReaderPoint
<1>3. CASE HasRedis /\ readers' = [readers EXCEPT ![v] = [arrived EXCEPT !.pc = "get"]]
  <2> DEFINE rec == [arrived EXCEPT !.pc = "get"]
  <2>1. rec \in Reader
    BY <1>1, ReaderGoto DEF ReaderPc
  <2>2. rec.pc = "get" /\ rec.inst = i /\ rec.copy = "absent" /\ rec.fill = {}
    BY <1>1 DEF Reader
  <2> HIDE DEF rec
  <2> QED BY <1>3, <2>1, <2>2, ReaderPoint DEF rec
<1>4. CASE readers' = [readers EXCEPT ![v] = [arrived EXCEPT !.pc = "read", !.fill = {"l1"}]]
  <2> DEFINE rec == [arrived EXCEPT !.pc = "read", !.fill = {"l1"}]
  <2>1. rec \in Reader
    BY <1>1, ReaderFill DEF ReaderPc
  <2>2. rec.pc = "read" /\ rec.inst = i /\ rec.copy = "absent" /\ rec.fill = {"l1"}
    BY <1>1 DEF Reader
  <2>3. "l2" \notin rec.fill
    BY <2>2
  <2>4. readers' = [readers EXCEPT ![v] = rec]
    BY <1>4
  <2> HIDE DEF rec
  <2> QED BY <2>1, <2>2, <2>3, <2>4, ReaderPoint
<1> QED BY <1>2, <1>3, <1>4 DEF LookUpL1, arrived

LEMMA GetL2Reader ==
  ASSUME TypeOK, NEW v \in Readers, GetL2(v)
  PROVE  /\ OnlyReader(v)
         /\ readers'[v].inst = readers[v].inst
         /\ readers'[v].pc \in {"got", "read"}
         /\ readers'[v].pc = "got" => readers'[v].copy = L2Copy
<1>1. readers[v] \in Reader /\ L2Copy \in Copy
  BY L2CopyType DEF TypeOK
<1>2. CASE readers' = [readers EXCEPT ![v].pc = "got", ![v].copy = L2Copy, ![v].fill = {"l1"}]
  <2> DEFINE mid == [readers[v] EXCEPT !.pc = "got", !.copy = L2Copy]
             rec == [mid EXCEPT !.pc = "got", !.fill = {"l1"}]
  <2>1. mid \in Reader
    BY <1>1, ReaderCopy DEF ReaderPc
  <2>2. mid.inst = readers[v].inst /\ mid.pc = "got" /\ mid.copy = L2Copy
    BY <1>1 DEF Reader
  <2>3. readers' = [readers EXCEPT ![v] = [mid EXCEPT !.fill = {"l1"}]]
    BY <1>2 DEF TypeOK
  <2> HIDE DEF mid
  <2>4. rec \in Reader
    BY <2>1, ReaderFill DEF ReaderPc
  <2>5. rec = [mid EXCEPT !.fill = {"l1"}]
    BY <2>1, <2>2 DEF Reader
  <2>6. rec.inst = readers[v].inst /\ rec.pc = "got" /\ rec.copy = L2Copy
    BY <2>1, <2>2 DEF Reader
  <2> HIDE DEF rec
  <2> QED BY <2>3, <2>4, <2>5, <2>6, ReaderPoint
<1>3. ASSUME NEW fill \in SUBSET {"l1", "l2"},
             readers' = [readers EXCEPT ![v].pc = "read", ![v].fill = fill]
      PROVE  OnlyReader(v) /\ readers'[v].inst = readers[v].inst /\ readers'[v].pc = "read"
  <2> DEFINE rec == [readers[v] EXCEPT !.pc = "read", !.fill = fill]
  <2>1. rec \in Reader
    BY <1>1, ReaderFill DEF ReaderPc
  <2>2. rec.inst = readers[v].inst /\ rec.pc = "read"
    BY <1>1 DEF Reader
  <2>3. readers' = [readers EXCEPT ![v] = rec]
    BY <1>3 DEF TypeOK
  <2> HIDE DEF rec
  <2> QED BY <2>1, <2>2, <2>3, ReaderPoint
<1>4. CASE readers' = [readers EXCEPT ![v].pc = "read"]
  <2> DEFINE rec == [readers[v] EXCEPT !.pc = "read"]
  <2>1. rec \in Reader
    BY <1>1, ReaderGoto DEF ReaderPc
  <2>2. rec.inst = readers[v].inst /\ rec.pc = "read"
    BY <1>1 DEF Reader
  <2>3. readers' = [readers EXCEPT ![v] = rec]
    BY <1>4 DEF TypeOK
  <2> HIDE DEF rec
  <2> QED BY <2>1, <2>2, <2>3, ReaderPoint
<1> QED
  <2>1. CASE L2Hit(v)
    BY <1>2, <2>1 DEF L2Hit
  <2>2. CASE readers' = [readers EXCEPT ![v].pc = "read", ![v].fill = {"l1", "l2"}]
    BY <1>3, <2>2
  <2> QED BY <1>4, <2>1, <2>2 DEF GetL2

LEMMA ReadRowReader ==
  ASSUME TypeOK, NEW v \in Readers, ReadRow(v)
  PROVE  /\ OnlyReader(v)
         /\ readers'[v].inst = readers[v].inst
         /\ readers'[v].fill = readers[v].fill
         /\ readers'[v].pc = "got"
         /\ readers'[v].copy \in {row.status, "absent"}
<1>1. PICK copy \in Copy : /\ copy \in {row.status, "absent"}
                           /\ readers' = [readers EXCEPT ![v].pc = "got", ![v].copy = copy]
  BY DEF ReadRow, Stored, Copy
<1> DEFINE rec == [readers[v] EXCEPT !.pc = "got", !.copy = copy]
<1>2. readers[v] \in Reader
  BY DEF TypeOK
<1>3. rec \in Reader
  BY <1>2, ReaderCopy DEF ReaderPc
<1>4. /\ rec.inst = readers[v].inst /\ rec.fill = readers[v].fill
      /\ rec.pc = "got" /\ rec.copy = copy
  BY <1>2 DEF Reader
<1>5. readers' = [readers EXCEPT ![v] = rec]
  BY <1>1 DEF TypeOK
<1> HIDE DEF rec
<1> QED BY <1>1, <1>3, <1>4, <1>5, ReaderPoint

LEMMA FillReader ==
  ASSUME TypeOK, NEW v \in Readers, FillAndAnswer(v)
  PROVE  /\ OnlyReader(v)
         /\ readers'[v].inst = readers[v].inst
         /\ readers'[v].copy = readers[v].copy
         /\ readers'[v].fill = readers[v].fill
         /\ \/ readers'[v].pc = "done"
            \/ readers'[v].pc = "set" /\ "l2" \in readers[v].fill
         /\ \A i \in Instances : l1'[i] # l1[i] =>
              i = readers[v].inst /\ l1'[i] = readers[v].copy
         /\ l1' \in [Instances -> Copy]
<1> DEFINE answer == Verdict(readers[v].copy)
           ttl == IF Unexpired THEN row.exp - now ELSE 0
           fill == IF readers[v].copy # "absent" /\ Unexpired THEN readers[v].fill ELSE {}
           pc == IF "l2" \in fill THEN "set" ELSE "done"
           mid == [readers[v] EXCEPT !.pc = pc, !.answer = answer]
           rec == [mid EXCEPT !.ttl = ttl]
<1>1. readers[v] \in Reader /\ readers[v].copy \in Copy
  BY DEF TypeOK, Reader
<1>2. l1' = IF "l1" \in fill THEN [l1 EXCEPT ![readers[v].inst] = readers[v].copy] ELSE l1
  BY DEF FillAndAnswer
<1>3. readers' = [readers EXCEPT ![v] = [readers[v] EXCEPT !.answer = answer, !.pc = pc,
                                                            !.ttl = ttl]]
  BY DEF FillAndAnswer
<1>4. answer \in {"none", "accepted", "refused"}
  BY DEF Verdict
<1>5. ttl \in Nat
  BY DEF TypeOK, Unexpired
<1>6. pc \in ReaderPc /\ (pc = "done" \/ (pc = "set" /\ "l2" \in readers[v].fill))
  <2>1. "l2" \in fill => "l2" \in readers[v].fill
    OBVIOUS
  <2> HIDE DEF fill
  <2>2. CASE "l2" \in fill
    BY <2>1, <2>2 DEF ReaderPc
  <2>3. CASE "l2" \notin fill
    <3>1. pc = "done"
      BY <2>3
    <3> HIDE DEF pc
    <3> QED BY <3>1 DEF ReaderPc
  <2> QED BY <2>2, <2>3
<1>7. /\ l1' \in [Instances -> Copy]
      /\ \A i \in Instances : l1'[i] # l1[i] =>
           i = readers[v].inst /\ l1'[i] = readers[v].copy
  <2> HIDE DEF fill
  <2> QED BY <1>1, <1>2 DEF TypeOK
<1> HIDE DEF answer, ttl, pc
<1>8. mid \in Reader
  BY <1>1, <1>4, <1>6, ReaderAnswer
<1>9. rec = [readers[v] EXCEPT !.answer = answer, !.pc = pc, !.ttl = ttl]
  BY <1>1 DEF Reader
<1>10. /\ rec.inst = readers[v].inst /\ rec.copy = readers[v].copy
       /\ rec.fill = readers[v].fill /\ rec.pc = pc
  BY <1>1 DEF Reader
<1>11. rec \in Reader
  <2> HIDE DEF mid
  <2> QED BY <1>5, <1>8 DEF Reader
<1> HIDE DEF rec
<1> QED BY <1>3, <1>6, <1>7, <1>9, <1>10, <1>11, ReaderPoint

LEMMA FillL2Reader ==
  ASSUME TypeOK, NEW v \in Readers, FillL2(v)
  PROVE  /\ OnlyReader(v)
         /\ readers'[v].inst = readers[v].inst
         /\ readers'[v].fill = readers[v].fill
         /\ readers'[v].pc = "done"
<1> DEFINE rec == [readers[v] EXCEPT !.pc = "done"]
<1>1. readers[v] \in Reader
  BY DEF TypeOK
<1>2. rec \in Reader
  BY <1>1, ReaderGoto DEF ReaderPc
<1>3. rec.inst = readers[v].inst /\ rec.fill = readers[v].fill /\ rec.pc = "done"
  BY <1>1 DEF Reader
<1>4. readers' = [readers EXCEPT ![v] = rec]
  BY DEF FillL2, TypeOK
<1> HIDE DEF rec
<1> QED BY <1>2, <1>3, <1>4, ReaderPoint

-----------------------------------------------------------------------------
(* The effect of each step of the revocation on the revocation itself.      *)
LEMMA LookUpRevokers ==
  ASSUME TypeOK, NEW v \in Readers, NEW i \in Instances, LookUpL1(v, i)
  PROVE  /\ revokers' \in [Revokers -> Revoker]
         /\ \A w \in Revokers :
              /\ revokers'[w].pc = revokers[w].pc
              /\ revokers'[w].inst = revokers[w].inst
              /\ revokers'[w].effective = revokers[w].effective
              /\ revokers[w].overlap => revokers'[w].overlap
              /\ revokers'[w] # revokers[w] => revokers[w].pc \in {"erase", "del"}
              /\ \/ UNCHANGED revokers
                 \/ revokers[w].pc \in {"erase", "del"} => revokers'[w].overlap
<1>1. CASE UNCHANGED revokers
  BY <1>1 DEF TypeOK
<1>2. CASE revokers' = [w \in Revokers |-> [revokers[w] EXCEPT !.overlap =
                          @ \/ revokers[w].pc \in {"erase", "del"}]]
  <2>1. SUFFICES ASSUME NEW w \in Revokers
                 PROVE  /\ revokers'[w] \in Revoker
                        /\ revokers'[w].pc = revokers[w].pc
                        /\ revokers'[w].inst = revokers[w].inst
                        /\ revokers'[w].effective = revokers[w].effective
                        /\ revokers[w].overlap => revokers'[w].overlap
                        /\ revokers'[w] # revokers[w] => revokers[w].pc \in {"erase", "del"}
                        /\ revokers[w].pc \in {"erase", "del"} => revokers'[w].overlap
    BY <1>2
  <2> DEFINE r == revokers[w]
             overlap == r.overlap \/ r.pc \in {"erase", "del"}
  <2>2. r \in Revoker /\ overlap \in BOOLEAN
    BY DEF TypeOK, Revoker
  <2>3. revokers'[w] = [r EXCEPT !.overlap = overlap]
    BY <1>2
  <2>4. /\ [r EXCEPT !.overlap = overlap] \in Revoker
        /\ [r EXCEPT !.overlap = overlap].overlap = overlap
    BY <2>2, RevokerOverlap
  <2>5. /\ [r EXCEPT !.overlap = overlap].pc = r.pc
        /\ [r EXCEPT !.overlap = overlap].inst = r.inst
        /\ [r EXCEPT !.overlap = overlap].effective = r.effective
    BY <2>2 DEF Revoker
  <2>6. [r EXCEPT !.overlap = r.overlap] = r /\ r.overlap \in BOOLEAN
    BY <2>2 DEF Revoker
  <2>7. r.pc \notin {"erase", "del"} => overlap = r.overlap
    BY <2>6
  <2> QED BY <2>2, <2>3, <2>4, <2>5, <2>6, <2>7
<1> QED BY <1>1, <1>2 DEF LookUpL1

LEMMA ReceiveRevoker ==
  ASSUME TypeOK, NEW w \in Revokers, NEW i \in Instances, ReceiveRevoke(w, i)
  PROVE  /\ OnlyRevoker(w)
         /\ revokers'[w].pc = "introspect"
         /\ revokers'[w].inst = i
         /\ revokers'[w].effective = revokers[w].effective
<1> DEFINE rec == [revokers[w] EXCEPT !.pc = "introspect", !.inst = i]
<1>1. revokers[w] \in Revoker
  BY DEF TypeOK
<1>2. /\ rec \in Revoker
      /\ rec.pc = "introspect" /\ rec.inst = i /\ rec.effective = revokers[w].effective
  BY <1>1 DEF Revoker, RevokerPc
<1>3. revokers' = [revokers EXCEPT ![w] = rec]
  BY DEF ReceiveRevoke, TypeOK
<1> HIDE DEF rec
<1> QED BY <1>2, <1>3, RevokerPoint

(* A step that only moves the revocation on.                                *)
LEMMA RevokerMoves ==
  ASSUME TypeOK, NEW w \in Revokers, NEW pc \in RevokerPc,
         revokers' = [revokers EXCEPT ![w].pc = pc]
  PROVE  /\ OnlyRevoker(w)
         /\ revokers'[w].pc = pc
         /\ revokers'[w].inst = revokers[w].inst
         /\ revokers'[w].effective = revokers[w].effective
         /\ revokers'[w].overlap = revokers[w].overlap
<1> DEFINE rec == [revokers[w] EXCEPT !.pc = pc]
<1>1. revokers[w] \in Revoker
  BY DEF TypeOK
<1>2. rec \in Revoker
  BY <1>1, RevokerGoto
<1>3. /\ rec.pc = pc /\ rec.inst = revokers[w].inst
      /\ rec.effective = revokers[w].effective /\ rec.overlap = revokers[w].overlap
  BY <1>1 DEF Revoker
<1>4. revokers' = [revokers EXCEPT ![w] = rec]
  BY DEF TypeOK
<1> HIDE DEF rec
<1> QED BY <1>2, <1>3, <1>4, RevokerPoint

LEMMA IntrospectRevoker ==
  ASSUME TypeOK, NEW w \in Revokers, Introspect(w)
  PROVE  /\ OnlyRevoker(w)
         /\ \/ revokers'[w].pc = "update" /\ row.status = "live"
            \/ revokers'[w].pc = "acked"
         /\ revokers'[w].inst = revokers[w].inst
         /\ revokers'[w].effective = revokers[w].effective
<1>1. CASE row.status = "live" /\ revokers' = [revokers EXCEPT ![w].pc = "update"]
  BY <1>1, RevokerMoves DEF RevokerPc
<1>2. CASE revokers' = [revokers EXCEPT ![w].pc = "acked"]
  BY <1>2, RevokerMoves DEF RevokerPc
<1> QED BY <1>1, <1>2 DEF Introspect

LEMMA UpdateRevoker ==
  ASSUME TypeOK, NEW w \in Revokers, UpdateRow(w)
  PROVE  /\ OnlyRevoker(w)
         /\ revokers'[w].inst = revokers[w].inst
         /\ \/ /\ revokers'[w].pc = "erase"
               /\ ~revokers'[w].overlap => \A v \in Readers : ~InFlight(v)
               /\ row' = IF row.status = "live" THEN [row EXCEPT !.status = "revoked"] ELSE row
            \/ /\ revokers'[w].pc \in {"retry", "erase"}
               /\ revokers'[w].effective = revokers[w].effective
               /\ UNCHANGED row
<1>1. revokers[w] \in Revoker
  BY DEF TypeOK
<1>2. CASE /\ row' = IF row.status = "live" THEN [row EXCEPT !.status = "revoked"] ELSE row
           /\ revokers' = [revokers EXCEPT ![w].pc = "erase", ![w].effective = TRUE,
                                           ![w].overlap = \E v \in Readers : InFlight(v)]
  <2> DEFINE crossed == \E v \in Readers : InFlight(v)
             rec == [revokers[w] EXCEPT !.pc = "erase", !.effective = TRUE, !.overlap = crossed]
  <2>1. crossed \in BOOLEAN /\ (~crossed => \A v \in Readers : ~InFlight(v))
    OBVIOUS
  <2>2. revokers' = [revokers EXCEPT ![w] = rec]
    BY <1>2 DEF TypeOK
  <2> HIDE DEF crossed
  <2>3. /\ rec.pc = "erase" /\ rec.inst = revokers[w].inst
    BY <1>1 DEF Revoker
  <2> DEFINE mid == [revokers[w] EXCEPT !.pc = "erase", !.effective = TRUE]
  <2>4. mid \in Revoker
    BY <1>1 DEF Revoker, RevokerPc
  <2>5. rec = [mid EXCEPT !.overlap = crossed]
    BY <1>1 DEF Revoker
  <2> HIDE DEF mid
  <2>6. rec \in Revoker /\ rec.overlap = crossed
    BY <2>1, <2>4, <2>5, RevokerOverlap
  <2> HIDE DEF rec
  <2> QED BY <1>2, <2>1, <2>2, <2>3, <2>6, RevokerPoint
<1>3. CASE UNCHANGED row /\ revokers' = [revokers EXCEPT ![w].pc = "retry"]
  BY <1>3, RevokerMoves DEF RevokerPc
<1>4. CASE UNCHANGED row /\ revokers' = [revokers EXCEPT ![w].pc = "erase"]
  BY <1>4, RevokerMoves DEF RevokerPc
<1> QED BY <1>2, <1>3, <1>4 DEF UpdateRow

LEMMA EraseRevoker ==
  ASSUME TypeOK, NEW w \in Revokers, EraseL1(w)
  PROVE  /\ OnlyRevoker(w)
         /\ \/ HasRedis /\ revokers'[w].pc = "del"
            \/ ~HasRedis /\ revokers'[w].pc = "acked"
         /\ revokers'[w].inst = revokers[w].inst
         /\ revokers'[w].effective = revokers[w].effective
         /\ revokers'[w].overlap = revokers[w].overlap
<1>1. CASE HasRedis /\ revokers' = [revokers EXCEPT ![w].pc = "del"]
  BY <1>1, RevokerMoves DEF RevokerPc
<1>2. CASE ~HasRedis /\ revokers' = [revokers EXCEPT ![w].pc = "acked"]
  BY <1>2, RevokerMoves DEF RevokerPc
<1> QED BY <1>1, <1>2 DEF EraseL1

LEMMA DeleteRevoker ==
  ASSUME TypeOK, NEW w \in Revokers, DeleteL2(w)
  PROVE  /\ OnlyRevoker(w)
         /\ revokers'[w].pc = "acked"
         /\ revokers'[w].inst = revokers[w].inst
         /\ revokers'[w].overlap = revokers[w].overlap
         /\ \/ l2' = NoL2 /\ revokers'[w].effective = revokers[w].effective
            \/ UNCHANGED l2 /\ ~revokers'[w].effective
<1>1. CASE l2' = NoL2 /\ revokers' = [revokers EXCEPT ![w].pc = "acked"]
  BY <1>1, RevokerMoves DEF RevokerPc
<1>2. CASE /\ UNCHANGED l2
           /\ revokers' = [revokers EXCEPT ![w].pc = "acked", ![w].effective = FALSE]
  <2> DEFINE rec == [revokers[w] EXCEPT !.pc = "acked", !.effective = FALSE]
  <2>1. revokers[w] \in Revoker
    BY DEF TypeOK
  <2>2. /\ rec \in Revoker
        /\ rec.pc = "acked" /\ rec.inst = revokers[w].inst /\ ~rec.effective
    BY <2>1 DEF Revoker, RevokerPc
  <2>3. rec.overlap = revokers[w].overlap
    BY <2>1 DEF Revoker
  <2>4. revokers' = [revokers EXCEPT ![w] = rec]
    BY <1>2 DEF TypeOK
  <2> HIDE DEF rec
  <2> QED BY <1>2, <2>2, <2>3, <2>4, RevokerPoint
<1> QED BY <1>1, <1>2 DEF DeleteL2

(* A restart drops what the instance was doing and leaves the rest.         *)
LEMMA RestartRecords ==
  ASSUME TypeOK, NEW i \in Instances, Restart(i)
  PROVE  /\ readers' \in [Readers -> Reader]
         /\ revokers' \in [Revokers -> Revoker]
         /\ \A v \in Readers : readers'[v] = readers[v] \/ readers'[v].pc = "lost"
         /\ \A v \in Readers : readers'[v].fill = readers[v].fill
         /\ \A w \in Revokers :
              \/ revokers'[w] = revokers[w]
              \/ /\ revokers'[w].pc = "lost"
                 /\ revokers'[w].inst = revokers[w].inst
                 /\ revokers[w].inst = i
<1>1. ASSUME NEW v \in Readers
      PROVE  /\ readers'[v] \in Reader
             /\ readers'[v] = readers[v] \/ readers'[v].pc = "lost"
             /\ readers'[v].fill = readers[v].fill
  <2>1. readers[v] \in Reader
    BY DEF TypeOK
  <2>2. readers'[v] = readers[v] \/ readers'[v] = [readers[v] EXCEPT !.pc = "lost"]
    BY DEF Restart
  <2>3. /\ [readers[v] EXCEPT !.pc = "lost"].pc = "lost"
        /\ [readers[v] EXCEPT !.pc = "lost"].fill = readers[v].fill
    BY <2>1 DEF Reader
  <2>4. [readers[v] EXCEPT !.pc = "lost"] \in Reader
    BY <2>1, ReaderGoto DEF ReaderPc
  <2> QED BY <2>1, <2>2, <2>3, <2>4
<1>2. ASSUME NEW w \in Revokers
      PROVE  /\ revokers'[w] \in Revoker
             /\ \/ revokers'[w] = revokers[w]
                \/ /\ revokers'[w].pc = "lost"
                   /\ revokers'[w].inst = revokers[w].inst
                   /\ revokers[w].inst = i
  <2>1. revokers[w] \in Revoker
    BY DEF TypeOK
  <2>2. \/ revokers'[w] = revokers[w]
        \/ revokers[w].inst = i /\ revokers'[w] = [revokers[w] EXCEPT !.pc = "lost"]
    BY DEF Restart
  <2>3. /\ [revokers[w] EXCEPT !.pc = "lost"].pc = "lost"
        /\ [revokers[w] EXCEPT !.pc = "lost"].inst = revokers[w].inst
    BY <2>1 DEF Revoker
  <2>4. [revokers[w] EXCEPT !.pc = "lost"] \in Revoker
    BY <2>1, RevokerGoto DEF RevokerPc
  <2> QED BY <2>1, <2>2, <2>3, <2>4
<1>3. readers' = [v \in Readers |-> readers'[v]] /\ revokers' = [w \in Revokers |-> revokers'[w]]
  BY DEF Restart
<1> QED BY <1>1, <1>2, <1>3

-----------------------------------------------------------------------------
(* Type correctness.                                                        *)
LEMMA TypeInit == Init => TypeOK
BY CacheAssumption
   DEF Init, TypeOK, Copy, RowStatus, SaverPc, Reader, ReaderPc, Revoker, RevokerPc,
       NoL2, NoReader, NoRevoker

LEMMA TypeStep ==
  ASSUME TypeOK, [Next]_vars
  PROVE  TypeOK'
<1> DEFINE Records == readers' \in [Readers -> Reader] /\ revokers' \in [Revokers -> Revoker]
           Caches == /\ now' \in Nat
                     /\ row' \in [status: RowStatus, exp: Nat]
                     /\ l1' \in [Instances -> Copy]
                     /\ l2' \in [copy: Copy, until: Nat]
                     /\ saver' \in [pc: SaverPc, inst: Instances \cup {None}, ttl: Nat]
                     /\ faults' \in [db: Nat, redis: Nat, restarts: Nat]
<1> SUFFICES Records /\ Caches
  BY DEF TypeOK
<1>f. ASSUME NEW kind \in {"db", "redis", "restarts"}, Fault(kind)
      PROVE  faults' \in [db: Nat, redis: Nat, restarts: Nat]
  BY <1>f DEF Fault, TypeOK
<1>g. DbFault \/ RedisFault \/ UNCHANGED faults => faults' \in [db: Nat, redis: Nat, restarts: Nat]
  BY <1>f DEF DbFault, RedisFault, TypeOK
<1>1. ASSUME NEW i \in Instances, SaveToL1(i)
      PROVE  Records /\ Caches
  BY <1>1, CacheAssumption DEF SaveToL1, TypeOK, Copy, SaverPc
<1>2. CASE InsertRow
  BY <1>2, <1>g DEF InsertRow, NoFault, TypeOK, RowStatus, SaverPc
<1>3. CASE SaveToL2
  BY <1>3, <1>g DEF SaveToL2, NoFault, TypeOK, Copy, SaverPc
<1>4. ASSUME NEW v \in Readers, NEW i \in Instances, LookUpL1(v, i)
      PROVE  Records /\ Caches
  BY <1>4, LookUpReader, LookUpRevokers DEF LookUpL1, OnlyReader, TypeOK
<1>5. ASSUME NEW v \in Readers, GetL2(v)
      PROVE  Records /\ Caches
  BY <1>5, <1>g, GetL2Reader DEF GetL2, L2Hit, NoFault, OnlyReader, TypeOK
<1>6. ASSUME NEW v \in Readers, ReadRow(v)
      PROVE  Records /\ Caches
  BY <1>6, <1>g, ReadRowReader DEF ReadRow, NoFault, OnlyReader, TypeOK
<1>7. ASSUME NEW v \in Readers, FillAndAnswer(v)
      PROVE  Records /\ Caches
  BY <1>7, FillReader DEF FillAndAnswer, OnlyReader, TypeOK
<1>8. ASSUME NEW v \in Readers, FillL2(v)
      PROVE  Records /\ Caches
  <2>1. l2' \in [copy: Copy, until: Nat]
    BY <1>8 DEF FillL2, TypeOK, Reader
  <2> QED BY <1>8, <1>g, <2>1, FillL2Reader DEF FillL2, NoFault, OnlyReader, TypeOK
<1>9. ASSUME NEW w \in Revokers, NEW i \in Instances, ReceiveRevoke(w, i)
      PROVE  Records /\ Caches
  BY <1>9, ReceiveRevoker DEF ReceiveRevoke, OnlyRevoker, TypeOK
<1>10. ASSUME NEW w \in Revokers, Introspect(w)
       PROVE  Records /\ Caches
  BY <1>10, <1>g, IntrospectRevoker DEF Introspect, NoFault, OnlyRevoker, TypeOK
<1>11. ASSUME NEW w \in Revokers, UpdateRow(w)
       PROVE  Records /\ Caches
  BY <1>11, <1>g, UpdateRevoker DEF UpdateRow, NoFault, OnlyRevoker, TypeOK, RowStatus
<1>12. ASSUME NEW w \in Revokers, EraseL1(w)
       PROVE  Records /\ Caches
  BY <1>12, EraseRevoker DEF EraseL1, OnlyRevoker, TypeOK, Copy
<1>13. ASSUME NEW w \in Revokers, DeleteL2(w)
       PROVE  Records /\ Caches
  BY <1>13, <1>g, DeleteRevoker DEF DeleteL2, NoFault, OnlyRevoker, TypeOK, NoL2, Copy
<1>14. CASE RevokeTokenFamily
  BY <1>14 DEF RevokeTokenFamily, TypeOK, RowStatus
<1>15. CASE DeleteExpired
  BY <1>15 DEF DeleteExpired, TypeOK, RowStatus
<1>16. ASSUME NEW i \in Instances, EvictL1(i)
       PROVE  Records /\ Caches
  BY <1>16 DEF EvictL1, TypeOK, Copy
<1>17. ASSUME NEW i \in Instances, Restart(i)
       PROVE  Records /\ Caches
  BY <1>17, <1>f, RestartRecords DEF Restart, TypeOK, Copy, SaverPc
<1>18. CASE Tick
  BY <1>18 DEF Tick, TypeOK
<1>19. CASE UNCHANGED vars
  BY <1>19 DEF vars, TypeOK
<1> QED
  BY <1>1, <1>2, <1>3, <1>4, <1>5, <1>6, <1>7, <1>8, <1>9, <1>10, <1>11, <1>12, <1>13,
     <1>14, <1>15, <1>16, <1>17, <1>18, <1>19
  DEF Next, Save, Read, Revoke

(* Every variable keeps its type.                                           *)
THEOREM TypeCorrect == Spec => []TypeOK
<1>1. TypeOK /\ [Next]_vars => TypeOK'
  BY TypeStep
<1> QED BY TypeInit, <1>1, PTL DEF Spec

-----------------------------------------------------------------------------
(* What Forgotten requires of a validation.                                 *)
Harmless(v, i) ==
  readers[v].copy = "live" => ~ \/ readers[v].pc = "set"
                                \/ readers[v].pc = "got" /\ "l2" \in readers[v].fill
                                \/ readers[v].pc = "got" /\ readers[v].inst = i

(* Forgotten is preserved by every step: an instance that has forgotten the *)
(* token has no way to learn of it again.                                   *)
LEMMA ForgetStep ==
  ASSUME TypeOK, [Next]_vars, NEW i \in Instances, Forgotten(i)
  PROVE  Forgotten(i)'
<1> USE DEF Harmless
<1>0. /\ row.status \in {"revoked", "deleted"}
      /\ l1[i] # "live"
      /\ L2Copy # "live"
      /\ \A v \in Readers : Harmless(v, i)
      /\ saver.pc \notin {"start", "insert", "set"}
  BY DEF Forgotten
<1> DEFINE Goal == /\ row'.status \in {"revoked", "deleted"}
                   /\ l1'[i] # "live"
                   /\ L2Copy' # "live"
                   /\ \A v \in Readers : Harmless(v, i)'
                   /\ saver'.pc \notin {"start", "insert", "set"}
<1> SUFFICES Goal
  BY DEF Forgotten
<1>1. ASSUME NEW j \in Instances, SaveToL1(j)
      PROVE  Goal
  BY <1>0, <1>1 DEF SaveToL1
<1>2. CASE InsertRow
  BY <1>0, <1>2 DEF InsertRow
<1>3. CASE SaveToL2
  BY <1>0, <1>3 DEF SaveToL2
<1>4. ASSUME NEW v \in Readers, NEW j \in Instances, LookUpL1(v, j)
      PROVE  Goal
  BY <1>0, <1>4, LookUpReader DEF LookUpL1, OnlyReader, L2Copy
<1>5. ASSUME NEW v \in Readers, GetL2(v)
      PROVE  Goal
  BY <1>0, <1>5, GetL2Reader DEF GetL2, OnlyReader, L2Copy
<1>6. ASSUME NEW v \in Readers, ReadRow(v)
      PROVE  Goal
  BY <1>0, <1>6, ReadRowReader DEF ReadRow, OnlyReader, L2Copy
<1>7. ASSUME NEW v \in Readers, FillAndAnswer(v)
      PROVE  Goal
  <2>1. readers[v].pc = "got" /\ UNCHANGED <<now, row, l2, saver>>
    BY <1>7 DEF FillAndAnswer
  <2>2. l1'[i] # "live"
    BY <1>0, <1>7, <2>1, FillReader
  <2>3. Harmless(v, i)'
    BY <1>0, <1>7, <2>1, FillReader
  <2>4. \A u \in Readers : Harmless(u, i)'
    BY <1>0, <1>7, <2>3, FillReader DEF OnlyReader
  <2> QED BY <1>0, <2>1, <2>2, <2>4 DEF L2Copy
<1>8. ASSUME NEW v \in Readers, FillL2(v)
      PROVE  Goal
  <2>1. readers[v].copy # "live"
    BY <1>0, <1>8 DEF FillL2
  <2>2. L2Copy' # "live"
    BY <1>0, <1>8, <2>1 DEF FillL2, L2Copy
  <2> QED BY <1>0, <1>8, <2>2, FillL2Reader DEF FillL2, OnlyReader
<1>9. ASSUME NEW w \in Revokers, NEW j \in Instances, ReceiveRevoke(w, j)
      PROVE  Goal
  BY <1>0, <1>9 DEF ReceiveRevoke, L2Copy
<1>10. ASSUME NEW w \in Revokers, Introspect(w)
       PROVE  Goal
  BY <1>0, <1>10 DEF Introspect, L2Copy
<1>11. ASSUME NEW w \in Revokers, UpdateRow(w)
       PROVE  Goal
  BY <1>0, <1>11, UpdateRevoker DEF UpdateRow, L2Copy
<1>12. ASSUME NEW w \in Revokers, EraseL1(w)
       PROVE  Goal
  BY <1>0, <1>12 DEF EraseL1, L2Copy, TypeOK
<1>13. ASSUME NEW w \in Revokers, DeleteL2(w)
       PROVE  Goal
  BY <1>0, <1>13, DeleteRevoker DEF DeleteL2, L2Copy, NoL2
<1>14. CASE RevokeTokenFamily
  BY <1>0, <1>14 DEF RevokeTokenFamily
<1>15. CASE DeleteExpired
  BY <1>0, <1>15 DEF DeleteExpired, L2Copy, TypeOK
<1>16. ASSUME NEW j \in Instances, EvictL1(j)
       PROVE  Goal
  BY <1>0, <1>16 DEF EvictL1, L2Copy, TypeOK
<1>17. ASSUME NEW j \in Instances, Restart(j)
       PROVE  Goal
  <2>1. \A v \in Readers : Harmless(v, i)'
    BY <1>0, <1>17, RestartRecords
  <2>2. saver'.pc \notin {"start", "insert", "set"}
    BY <1>0, <1>17 DEF Restart, TypeOK
  <2> QED BY <1>0, <1>17, <2>1, <2>2 DEF Restart, L2Copy, TypeOK
<1>18. CASE Tick
  BY <1>0, <1>18 DEF Tick, L2Copy, TypeOK
<1>19. CASE UNCHANGED vars
  BY <1>0, <1>19 DEF vars, L2Copy
<1> QED
  BY <1>1, <1>2, <1>3, <1>4, <1>5, <1>6, <1>7, <1>8, <1>9, <1>10, <1>11, <1>12, <1>13,
     <1>14, <1>15, <1>16, <1>17, <1>18, <1>19
  DEF Next, Save, Read, Revoke

(* An instance that has forgotten a revoked token never accepts it again:   *)
(* ForgottenStaysForgotten.                                                 *)
THEOREM ForgettingIsFinal == Spec => ForgottenStaysForgotten
<1>1. TypeOK /\ [Next]_vars =>
        [\A i \in Instances : Forgotten(i) => Forgotten(i)']_vars
  BY ForgetStep
<1> QED BY TypeCorrect, <1>1, PTL DEF Spec, ForgottenStaysForgotten

-----------------------------------------------------------------------------
(* The inductive invariant.                                                 *)
LEMMA RedisStep ==
  ASSUME TypeOK, RedisFits, [Next]_vars
  PROVE  RedisFits'
<1> SUFFICES ASSUME ~HasRedis
             PROVE  /\ l2' = NoL2
                    /\ saver'.pc # "set"
                    /\ \A v \in Readers : /\ readers'[v].pc \notin {"get", "set"}
                                          /\ "l2" \notin readers'[v].fill
  BY DEF RedisFits
<1>0. /\ l2 = NoL2
      /\ saver.pc # "set"
      /\ \A v \in Readers : readers[v].pc \notin {"get", "set"} /\ "l2" \notin readers[v].fill
  BY DEF RedisFits
<1> DEFINE Goal == /\ l2' = NoL2
                   /\ saver'.pc # "set"
                   /\ \A v \in Readers : /\ readers'[v].pc \notin {"get", "set"}
                                         /\ "l2" \notin readers'[v].fill
<1> SUFFICES Goal
  OBVIOUS
<1>1. CASE Save
  BY <1>0, <1>1 DEF Save, SaveToL1, InsertRow, SaveToL2, TypeOK
<1>2. ASSUME NEW v \in Readers, NEW i \in Instances, LookUpL1(v, i)
      PROVE  Goal
  BY <1>0, <1>2, LookUpReader DEF LookUpL1, OnlyReader
<1>3. ASSUME NEW v \in Readers, Read(v)
      PROVE  Goal
  <2>1. ~GetL2(v) /\ ~FillL2(v)
    BY <1>0 DEF GetL2, FillL2
  <2>2. CASE ReadRow(v)
    BY <1>0, <2>2, ReadRowReader DEF ReadRow, OnlyReader
  <2>3. CASE FillAndAnswer(v)
    BY <1>0, <2>3, FillReader DEF FillAndAnswer, OnlyReader
  <2> QED BY <1>3, <2>1, <2>2, <2>3 DEF Read
<1>4. ASSUME NEW w \in Revokers, Revoke(w)
      PROVE  Goal
  BY <1>0, <1>4 DEF Revoke, Introspect, UpdateRow, EraseL1, DeleteL2
<1>5. ASSUME NEW w \in Revokers, NEW i \in Instances, ReceiveRevoke(w, i)
      PROVE  Goal
  BY <1>0, <1>5 DEF ReceiveRevoke
<1>6. ASSUME NEW i \in Instances, Restart(i)
      PROVE  Goal
  BY <1>0, <1>6, RestartRecords DEF Restart, TypeOK
<1>7. CASE RevokeTokenFamily \/ DeleteExpired \/ Tick \/ \E i \in Instances : EvictL1(i)
  BY <1>0, <1>7 DEF RevokeTokenFamily, DeleteExpired, Tick, EvictL1
<1>8. CASE UNCHANGED vars
  BY <1>0, <1>8 DEF vars
<1> QED BY <1>1, <1>2, <1>3, <1>4, <1>5, <1>6, <1>7, <1>8 DEF Next

(* A validation that misses L1 is noticed by the revocations that have      *)
(* updated the row and not evicted yet.                                     *)
LEMMA ArrivalCrosses ==
  ASSUME TypeOK, NEW v \in Readers, NEW i \in Instances, LookUpL1(v, i),
         NEW w \in Revokers, revokers[w].pc \in {"erase", "del"}
  PROVE  readers'[v].pc = "done" \/ revokers'[w].overlap
<1>1. CASE revokers' = [u \in Revokers |-> [revokers[u] EXCEPT !.overlap =
                          @ \/ revokers[u].pc \in {"erase", "del"}]]
  <2> DEFINE overlap == revokers[w].overlap \/ revokers[w].pc \in {"erase", "del"}
  <2>1. revokers[w] \in Revoker /\ overlap \in BOOLEAN /\ overlap
    BY DEF TypeOK, Revoker
  <2>2. revokers'[w] = [revokers[w] EXCEPT !.overlap = overlap]
    BY <1>1
  <2> HIDE DEF overlap
  <2> QED BY <2>1, <2>2, RevokerOverlap
<1>2. CASE UNCHANGED revokers /\ l1[i] # "absent"
  <2> DEFINE rec == [[NoReader EXCEPT !.inst = i, !.since = Acknowledged]
                       EXCEPT !.pc = "done", !.answer = Verdict(l1[i])]
  <2>1. readers'[v] = rec
    BY <1>2 DEF LookUpL1, TypeOK
  <2>2. rec.pc = "done"
    BY DEF NoReader
  <2> QED BY <2>1, <2>2
<1> QED BY <1>1, <1>2 DEF LookUpL1

(* A step of another kind leaves revocation w where it is: what RevocationFits *)
(* says of it holds as long as the row and the instance's copy do.          *)
LEMMA FitsStep ==
  ASSUME IInv, [Next]_vars, NEW w \in Revokers
  PROVE  RevocationFits(w)'
<1>0. TypeOK /\ RevocationFits(w) /\ None \notin Instances
  BY CacheAssumption DEF IInv
<1>a. /\ revokers[w].pc = "idle" <=> revokers[w].inst = None
      /\ revokers[w].pc # "idle" => saver.pc = "done"
      /\ revokers[w].pc \in {"idle", "introspect", "update", "retry"} => ~revokers[w].effective
      /\ revokers[w].pc \in {"update", "retry"} => row.status \in {"live", "revoked", "deleted"}
      /\ revokers[w].pc \in {"erase", "del"} /\ Uncrossed(w) =>
           /\ row.status \in {"revoked", "deleted"}
           /\ \A v \in Readers : ~InFlight(v)
           /\ revokers[w].pc = "del" => l1[revokers[w].inst] # "live"
  BY <1>0 DEF RevocationFits, HandedOut
<1> DEFINE Goal ==
      /\ revokers'[w].pc = "idle" <=> revokers'[w].inst = None
      /\ revokers'[w].pc # "idle" => saver'.pc = "done"
      /\ revokers'[w].pc \in {"idle", "introspect", "update", "retry"} => ~revokers'[w].effective
      /\ revokers'[w].pc \in {"update", "retry"} => row'.status \in {"live", "revoked", "deleted"}
      /\ revokers'[w].pc \in {"erase", "del"} /\ Uncrossed(w)' =>
           /\ row'.status \in {"revoked", "deleted"}
           /\ \A v \in Readers : ~InFlight(v)'
           /\ revokers'[w].pc = "del" => l1'[revokers'[w].inst] # "live"
<1> SUFFICES Goal
  BY DEF RevocationFits, HandedOut
<1>1. CASE Save
  BY <1>0, <1>a, <1>1 DEF Save, SaveToL1, InsertRow, SaveToL2, Uncrossed, InFlight, TypeOK
<1>2. ASSUME NEW v \in Readers, NEW i \in Instances, LookUpL1(v, i)
      PROVE  Goal
  <2>1. UNCHANGED <<row, l1, saver>>
    BY <1>2 DEF LookUpL1
  <2>2. ASSUME revokers'[w].pc \in {"erase", "del"}, Uncrossed(w)'
        PROVE  Uncrossed(w) /\ \A u \in Readers : ~InFlight(u)'
    <3>1. revokers[w].pc \in {"erase", "del"} /\ Uncrossed(w) /\ UNCHANGED revokers
      BY <1>0, <1>2, <2>2, LookUpRevokers DEF Uncrossed
    <3>2. readers'[v].pc = "done"
      BY <1>0, <1>2, <2>2, <3>1, ArrivalCrosses DEF Uncrossed
    <3> QED BY <1>0, <1>2, <1>a, <3>1, <3>2, LookUpReader DEF OnlyReader, InFlight
  <2> QED BY <1>0, <1>2, <1>a, <2>1, <2>2, LookUpRevokers
<1>3. ASSUME NEW v \in Readers, Read(v)
      PROVE  Goal
  <2>1. InFlight(v)
    BY <1>3 DEF Read, GetL2, ReadRow, FillAndAnswer, FillL2, InFlight
  <2>2. UNCHANGED <<row, saver, revokers>>
    BY <1>3 DEF Read, GetL2, ReadRow, FillAndAnswer, FillL2
  <2> QED BY <1>a, <2>1, <2>2 DEF Uncrossed
<1>4. ASSUME NEW u \in Revokers, NEW i \in Instances, ReceiveRevoke(u, i)
      PROVE  Goal
  BY <1>0, <1>a, <1>4, ReceiveRevoker
  DEF ReceiveRevoke, OnlyRevoker, Uncrossed, InFlight, HandedOut
<1>5. ASSUME NEW u \in Revokers, Introspect(u)
      PROVE  Goal
  BY <1>0, <1>a, <1>5, IntrospectRevoker DEF Introspect, OnlyRevoker, Uncrossed, InFlight
<1>6. ASSUME NEW u \in Revokers, UpdateRow(u)
      PROVE  Goal
  BY <1>0, <1>a, <1>6, UpdateRevoker DEF UpdateRow, OnlyRevoker, Uncrossed, InFlight, TypeOK
<1>7. ASSUME NEW u \in Revokers, EraseL1(u)
      PROVE  Goal
  <2>1. /\ UNCHANGED <<row, saver, readers>>
        /\ revokers[u].pc = "erase"
        /\ l1' = [l1 EXCEPT ![revokers[u].inst] = "absent"]
    BY <1>7 DEF EraseL1
  <2>2. \A i \in Instances : l1[i] # "live" => l1'[i] # "live"
    BY <1>0, <2>1 DEF TypeOK
  <2>3. CASE u = w
    <3>1. revokers[w].inst \in Instances
      BY <1>0, <1>a, <2>1, <2>3 DEF TypeOK, Revoker
    <3>2. l1'[revokers[w].inst] # "live"
      BY <1>0, <2>1, <2>3, <3>1 DEF TypeOK
    <3> QED BY <1>0, <1>a, <1>7, <2>1, <2>3, <3>1, <3>2, EraseRevoker DEF Uncrossed, InFlight
  <2>4. CASE u # w
    <3>1. revokers'[w] = revokers[w]
      BY <1>0, <1>7, <2>4, EraseRevoker DEF OnlyRevoker
    <3>2. revokers[w].pc = "del" => revokers[w].inst \in Instances
      BY <1>0, <1>a DEF TypeOK, Revoker
    <3> QED BY <1>a, <2>1, <2>2, <3>1, <3>2 DEF Uncrossed, InFlight
  <2> QED BY <2>3, <2>4
<1>8. ASSUME NEW u \in Revokers, DeleteL2(u)
      PROVE  Goal
  BY <1>0, <1>a, <1>8, DeleteRevoker DEF DeleteL2, OnlyRevoker, Uncrossed, InFlight
<1>9. CASE RevokeTokenFamily \/ DeleteExpired
  BY <1>0, <1>a, <1>9 DEF RevokeTokenFamily, DeleteExpired, Uncrossed, InFlight, TypeOK
<1>10. ASSUME NEW i \in Instances, EvictL1(i)
       PROVE  Goal
  BY <1>0, <1>a, <1>10 DEF EvictL1, Uncrossed, InFlight, TypeOK
<1>11. ASSUME NEW i \in Instances, Restart(i)
       PROVE  Goal
  <2>1. revokers[w].pc # "idle" => saver'.pc = "done"
    BY <1>a, <1>11 DEF Restart
  <2>2. l1' = [l1 EXCEPT ![i] = "absent"] /\ UNCHANGED row
    BY <1>11 DEF Restart
  <2>3. \A v \in Readers : InFlight(v)' => InFlight(v)
    BY <1>0, <1>11, RestartRecords DEF InFlight
  <2> QED BY <1>0, <1>a, <1>11, <2>1, <2>2, <2>3, RestartRecords DEF Uncrossed, TypeOK
<1>12. CASE Tick \/ UNCHANGED vars
  BY <1>a, <1>12 DEF Tick, vars, Uncrossed, InFlight
<1> QED
  BY <1>1, <1>2, <1>3, <1>4, <1>5, <1>6, <1>7, <1>8, <1>9, <1>10, <1>11, <1>12
  DEF Next, Revoke

(* A revocation that is acknowledged now has just evicted the last copy; one *)
(* acknowledged earlier stays final by ForgetStep.                          *)
LEMMA FinalStep ==
  ASSUME IInv, [Next]_vars
  PROVE  RevocationIsFinal'
<1>a. ASSUME NEW w \in Revokers, revokers'[w].pc = "acked"
      PROVE  revokers'[w].inst \in Instances
  <2>1. TypeOK' /\ RevocationFits(w)'
    BY TypeStep, FitsStep DEF IInv
  <2> QED BY <1>a, <2>1 DEF RevocationFits, TypeOK, Revoker
<1> SUFFICES ASSUME NEW w \in Revokers, NEW i \in Instances,
                    revokers'[w].pc = "acked", Uncrossed(w)', revokers'[w].inst = i
             PROVE  Forgotten(i)'
  BY <1>a DEF RevocationIsFinal, Uncrossed
<1>0. TypeOK /\ RedisFits /\ RevocationFits(w) /\ None \notin Instances
  BY CacheAssumption DEF IInv
<1>1. CASE revokers[w].pc = "acked"
  <2>1. /\ revokers'[w].inst = revokers[w].inst
        /\ revokers'[w].effective => revokers[w].effective
        /\ revokers[w].overlap => revokers'[w].overlap
    <3>1. ASSUME NEW u \in Revokers, Revoke(u) \/ \E j \in Instances : ReceiveRevoke(u, j)
          PROVE  u # w /\ OnlyRevoker(u)
      BY <1>0, <1>1, <3>1, IntrospectRevoker, UpdateRevoker, EraseRevoker, DeleteRevoker,
         ReceiveRevoker
      DEF Revoke, Introspect, UpdateRow, EraseL1, DeleteL2, ReceiveRevoke
    <3>2. ASSUME NEW v \in Readers, NEW j \in Instances, LookUpL1(v, j)
          PROVE  revokers'[w].inst = revokers[w].inst
                 /\ revokers'[w].effective = revokers[w].effective
                 /\ (revokers[w].overlap => revokers'[w].overlap)
      BY <1>0, <3>2, LookUpRevokers
    <3>3. ASSUME NEW j \in Instances, Restart(j)
          PROVE  revokers'[w] = revokers[w]
      BY <1>1, <3>3 DEF Restart
    <3>4. CASE \/ Save \/ \E v \in Readers : Read(v)
               \/ RevokeTokenFamily \/ DeleteExpired
               \/ \E j \in Instances : EvictL1(j)
               \/ Tick \/ UNCHANGED vars
      BY <3>4 DEF Save, SaveToL1, InsertRow, SaveToL2, Read, GetL2, ReadRow, FillAndAnswer,
                  FillL2, RevokeTokenFamily, DeleteExpired, EvictL1, Tick, vars
    <3> QED BY <3>1, <3>2, <3>3, <3>4 DEF Next, OnlyRevoker
  <2>2. Forgotten(i)
    BY <1>0, <1>1, <2>1 DEF IInv, RevocationIsFinal, Uncrossed
  <2> QED BY <1>0, <2>2, ForgetStep
<1>2. CASE revokers[w].pc # "acked"
  <2>1. PICK u \in Revokers : Introspect(u) \/ EraseL1(u) \/ DeleteL2(u)
    <3>1. ASSUME NEW v \in Readers, NEW j \in Instances, LookUpL1(v, j)
          PROVE  FALSE
      BY <1>0, <1>2, <3>1, LookUpRevokers
    <3>2. ASSUME NEW u \in Revokers, UpdateRow(u) \/ \E j \in Instances : ReceiveRevoke(u, j)
          PROVE  FALSE
      BY <1>0, <1>2, <3>2, UpdateRevoker, ReceiveRevoker DEF OnlyRevoker
    <3>3. ASSUME NEW j \in Instances, Restart(j)
          PROVE  FALSE
      BY <1>0, <1>2, <3>3, RestartRecords
    <3>4. CASE \/ Save \/ \E v \in Readers : Read(v)
               \/ RevokeTokenFamily \/ DeleteExpired
               \/ \E j \in Instances : EvictL1(j)
               \/ Tick \/ UNCHANGED vars
      BY <1>2, <3>4 DEF Save, SaveToL1, InsertRow, SaveToL2, Read, GetL2, ReadRow,
                        FillAndAnswer, FillL2, RevokeTokenFamily, DeleteExpired, EvictL1,
                        Tick, vars
    <3> QED BY <3>1, <3>2, <3>3, <3>4 DEF Next, Revoke
  <2>2. u = w
    BY <1>0, <1>2, <2>1, IntrospectRevoker, EraseRevoker, DeleteRevoker DEF OnlyRevoker
  <2>3. ~Introspect(w)
    BY <1>0, IntrospectRevoker DEF RevocationFits, Uncrossed, Introspect
  <2>4. CASE EraseL1(w)
    <3>1. ~HasRedis /\ l2 = NoL2
      BY <1>0, <2>4, EraseRevoker DEF RedisFits
    <3>2. /\ revokers[w].pc = "erase" /\ Uncrossed(w)
          /\ revokers[w].inst = i
      BY <1>0, <2>4, EraseRevoker DEF EraseL1, Uncrossed
    <3>3. /\ row.status \in {"revoked", "deleted"} /\ saver.pc = "done"
          /\ \A v \in Readers : ~InFlight(v)
      BY <1>0, <3>2 DEF RevocationFits, HandedOut
    <3>4. /\ l1'[i] = "absent"
          /\ UNCHANGED <<now, row, l2, saver, readers>>
      BY <1>0, <2>4, <3>2 DEF EraseL1, TypeOK
    <3> QED BY <3>1, <3>2, <3>3, <3>4 DEF Forgotten, L2Copy, NoL2, InFlight
  <2>5. CASE DeleteL2(w)
    <3>1. l2' = NoL2 /\ revokers[w].effective
      BY <1>0, <2>5, DeleteRevoker DEF Uncrossed
    <3>2. /\ revokers[w].pc = "del" /\ Uncrossed(w)
          /\ revokers[w].inst = i
      BY <1>0, <2>5, <3>1, DeleteRevoker DEF DeleteL2, Uncrossed
    <3>3. /\ row.status \in {"revoked", "deleted"} /\ saver.pc = "done"
          /\ \A v \in Readers : ~InFlight(v)
          /\ l1[i] # "live"
      BY <1>0, <3>2 DEF RevocationFits, HandedOut
    <3>4. UNCHANGED <<now, row, l1, saver, readers>>
      BY <2>5 DEF DeleteL2
    <3> QED BY <3>1, <3>2, <3>3, <3>4 DEF Forgotten, L2Copy, NoL2, InFlight
  <2> QED BY <2>1, <2>2, <2>3, <2>4, <2>5
<1> QED BY <1>1, <1>2

LEMMA InitInvariant == Init => IInv
<1> SUFFICES ASSUME Init PROVE IInv
  OBVIOUS
<1>1. TypeOK
  BY TypeInit
<1>2. RedisFits
  BY DEF Init, RedisFits, NoReader
<1>3. \A w \in Revokers : RevocationFits(w)
  BY DEF Init, RevocationFits, NoRevoker
<1>4. RevocationIsFinal
  BY DEF Init, RevocationIsFinal, NoRevoker
<1> QED BY <1>1, <1>2, <1>3, <1>4 DEF IInv

(* The inductive invariant holds along every execution.                     *)
THEOREM Invariance == Spec => []IInv
<1>1. IInv /\ [Next]_vars => IInv'
  BY TypeStep, RedisStep, FitsStep, FinalStep DEF IInv
<1> QED BY InitInvariant, <1>1, PTL DEF Spec

(* RevocationIsFinal: an acknowledged revocation that no validation crossed  *)
(* has made its instance forget the token, for any number of instances.     *)
THEOREM RevocationFinality == Spec => []RevocationIsFinal
<1>1. IInv => RevocationIsFinal
  BY DEF IInv
<1> QED BY Invariance, <1>1, PTL
-----------------------------------------------------------------------------
(* Why ValidTokenAccepted holds: the token is handed out when its row is    *)
(* there, and while the row is live and no statement has failed, nothing    *)
(* has been taken for the row but a live copy of it.                        *)
SavedFirst ==
  /\ saver.pc \in {"start", "insert"} => row.status = "none"
  /\ saver.pc \in {"set", "done"} => row.status # "none"
  /\ ~HandedOut => \A v \in Readers : readers[v].pc = "idle" /\ readers[v].copy = "absent"
                                      /\ readers[v].answer = "none"

Sound(v) ==
  /\ readers[v].copy # "revoked"
  /\ readers[v].pc = "got" => readers[v].copy = "live"
  /\ readers[v].answer = "refused" => now > row.exp

Undisturbed == faults.db = 0 /\ row.status \in {"none", "live"}

CopiesFit ==
  Undisturbed => /\ \A i \in Instances : l1[i] # "revoked"
                 /\ l2.copy # "revoked"
                 /\ \A v \in Readers : Sound(v)

(* What a step of getAccessToken does to the copy and the answer.           *)
LEMMA LookUpAnswer ==
  ASSUME TypeOK, NEW v \in Readers, NEW i \in Instances, LookUpL1(v, i)
  PROVE  readers'[v].answer = "none" \/ (readers'[v].answer = Verdict(l1[i]) /\ l1[i] # "absent")
<1> DEFINE arrived == [NoReader EXCEPT !.inst = i, !.since = Acknowledged]
           answer == Verdict(l1[i])
<1>1. arrived \in Reader /\ arrived.answer = "none"
  BY DEF NoReader, Reader, ReaderPc, Copy, Acknowledged
<1>2. readers \in [Readers -> Reader]
  BY DEF TypeOK
<1>3. \/ l1[i] # "absent"
         /\ readers' = [readers EXCEPT ![v] = [arrived EXCEPT !.pc = "done", !.answer = answer]]
      \/ readers' = [readers EXCEPT ![v] = [arrived EXCEPT !.pc = "get"]]
      \/ readers' = [readers EXCEPT ![v] = [arrived EXCEPT !.pc = "read", !.fill = {"l1"}]]
  BY DEF LookUpL1
<1> HIDE DEF arrived, answer
<1>4. /\ [arrived EXCEPT !.pc = "done", !.answer = answer].answer = answer
      /\ [arrived EXCEPT !.pc = "get"].answer = "none"
      /\ [arrived EXCEPT !.pc = "read", !.fill = {"l1"}].answer = "none"
  BY <1>1 DEF Reader
<1>5. readers'[v].answer = "none" \/ (readers'[v].answer = answer /\ l1[i] # "absent")
  BY <1>2, <1>3, <1>4
<1> QED BY <1>5 DEF answer

LEMMA GetL2Answer ==
  ASSUME TypeOK, NEW v \in Readers, GetL2(v)
  PROVE  /\ readers'[v].answer = readers[v].answer
         /\ readers'[v].pc # "got" => readers'[v].copy = readers[v].copy
         /\ readers'[v].pc = "got" => L2Copy # "absent"
<1>1. readers \in [Readers -> Reader] /\ readers[v] \in Reader
  BY DEF TypeOK
<1> QED BY <1>1 DEF GetL2, L2Hit, Reader

LEMMA ReadRowAnswer ==
  ASSUME TypeOK, NEW v \in Readers, ReadRow(v), faults'.db = 0, row.status = "live"
  PROVE  readers'[v].answer = readers[v].answer /\ readers'[v].copy = "live"
<1>1. readers \in [Readers -> Reader] /\ readers[v] \in Reader
  BY DEF TypeOK
<1>2. ~DbFault
  BY DEF DbFault, Fault, TypeOK
<1> QED BY <1>1, <1>2 DEF ReadRow, Stored, Reader

LEMMA FillAnswer ==
  ASSUME TypeOK, NEW v \in Readers, FillAndAnswer(v)
  PROVE  readers'[v].answer = Verdict(readers[v].copy)
<1> DEFINE answer == Verdict(readers[v].copy)
<1>1. readers[v] \in Reader
  BY DEF TypeOK
<1> HIDE DEF answer
<1>2. PICK pc, ttl :
        readers' = [readers EXCEPT ![v] = [readers[v] EXCEPT !.answer = answer, !.pc = pc,
                                                              !.ttl = ttl]]
  BY DEF FillAndAnswer, answer
<1>3. readers \in [Readers -> Reader]
  BY DEF TypeOK
<1>4. readers'[v].answer = answer
  BY <1>1, <1>2, <1>3 DEF Reader
<1> QED BY <1>4 DEF answer

LEMMA FillL2Answer ==
  ASSUME TypeOK, NEW v \in Readers, FillL2(v)
  PROVE  readers'[v].answer = readers[v].answer /\ readers'[v].copy = readers[v].copy
<1>1. readers \in [Readers -> Reader] /\ readers[v] \in Reader
  BY DEF TypeOK
<1> QED BY <1>1 DEF FillL2, Reader

LEMMA RestartAnswer ==
  ASSUME TypeOK, NEW i \in Instances, Restart(i), NEW v \in Readers
  PROVE  /\ readers'[v].answer = readers[v].answer /\ readers'[v].copy = readers[v].copy
         /\ readers[v].pc = "idle" => readers'[v].pc = "idle"
<1>1. readers[v] \in Reader
  BY DEF TypeOK
<1> QED BY <1>1 DEF Restart, Reader, InFlight

LEMMA SavedFirstStep ==
  ASSUME TypeOK, SavedFirst, [Next]_vars
  PROVE  SavedFirst'
<1> USE DEF SavedFirst, HandedOut
<1>1. CASE Save
  BY <1>1 DEF Save, SaveToL1, InsertRow, SaveToL2, TypeOK
<1>2. ASSUME NEW v \in Readers, Read(v)
      PROVE  SavedFirst'
  <2>1. readers[v].pc # "idle" /\ UNCHANGED <<row, saver>>
    BY <1>2 DEF Read, GetL2, ReadRow, FillAndAnswer, FillL2
  <2> QED BY <2>1
<1>3. ASSUME NEW v \in Readers, NEW i \in Instances, LookUpL1(v, i)
      PROVE  SavedFirst'
  BY <1>3 DEF LookUpL1
<1>4. ASSUME NEW w \in Revokers, Revoke(w) \/ \E i \in Instances : ReceiveRevoke(w, i)
      PROVE  SavedFirst'
  <2>1. UNCHANGED <<readers, saver>> /\ (row' = row \/ (row'.status = "revoked" /\ row.status = "live"))
    <3>1. CASE UpdateRow(w)
      <4>1. row.status = "live" => [row EXCEPT !.status = "revoked"].status = "revoked"
        BY DEF TypeOK
      <4> QED BY <3>1, <4>1 DEF UpdateRow
    <3>2. CASE ~UpdateRow(w)
      BY <1>4, <3>2 DEF Revoke, Introspect, EraseL1, DeleteL2, ReceiveRevoke
    <3> QED BY <3>1, <3>2
  <2> QED BY <2>1
<1>5. CASE RevokeTokenFamily \/ DeleteExpired
  BY <1>5 DEF RevokeTokenFamily, DeleteExpired, TypeOK
<1>6. ASSUME NEW i \in Instances, Restart(i)
      PROVE  SavedFirst'
  <2>1. row' = row /\ (saver' = saver \/ (saver'.pc = "lost" /\ saver.pc # "done"))
    <3>1. [saver EXCEPT !.pc = "lost"].pc = "lost"
      BY DEF TypeOK
    <3> QED BY <1>6, <3>1 DEF Restart
  <2>2. \A v \in Readers :
          /\ readers'[v].answer = readers[v].answer /\ readers'[v].copy = readers[v].copy
          /\ readers[v].pc = "idle" => readers'[v].pc = "idle"
    BY <1>6, RestartAnswer
  <2> QED BY <2>1, <2>2
<1>7. CASE Tick \/ UNCHANGED vars \/ \E i \in Instances : EvictL1(i)
  BY <1>7 DEF Tick, vars, EvictL1
<1> QED BY <1>1, <1>2, <1>3, <1>4, <1>5, <1>6, <1>7 DEF Next

(* The row is live later only if it is now, or is stored by this step; a    *)
(* database failure is not forgotten.                                       *)
LEMMA Disturbance ==
  ASSUME TypeOK, [Next]_vars, Undisturbed'
  PROVE  Undisturbed \/ InsertRow
<1>0. UNCHANGED faults \/ DbFault \/ RedisFault \/ Fault("restarts")
  BY DEF Next, Save, SaveToL1, InsertRow, SaveToL2, Read, GetL2, L2Hit, ReadRow,
     FillAndAnswer, FillL2, LookUpL1, Revoke, Introspect, UpdateRow, EraseL1, DeleteL2, ReceiveRevoke,
     RevokeTokenFamily, DeleteExpired, EvictL1, Restart, Tick, vars, NoFault
<1>1. faults.db = 0
  <2>1. faults.db \in Nat /\ faults'.db = 0
    BY DEF TypeOK, Undisturbed
  <2>2. DbFault => faults'.db = faults.db + 1
    BY DEF DbFault, Fault, TypeOK
  <2>3. RedisFault \/ Fault("restarts") => faults'.db = faults.db
    BY DEF RedisFault, Fault, TypeOK
  <2> QED BY <1>0, <2>1, <2>2, <2>3
<1>2. InsertRow \/ row'.status = row.status \/ row'.status \in {"revoked", "deleted"}
  BY DEF TypeOK, Next, Save, SaveToL1, SaveToL2, Read, GetL2, ReadRow,
     FillAndAnswer, FillL2, LookUpL1, Revoke, Introspect, UpdateRow, EraseL1, DeleteL2, ReceiveRevoke,
     RevokeTokenFamily, DeleteExpired, EvictL1, Restart, Tick, vars
<1> QED BY <1>1, <1>2 DEF Undisturbed

(* One validation takes a step and leaves the caches as they should be.     *)
LEMMA OneSound ==
  ASSUME NEW v \in Readers, OnlyReader(v), UNCHANGED <<now, row>>,
         \A u \in Readers : Sound(u), Sound(v)'
  PROVE  \A u \in Readers : Sound(u)'
BY DEF OnlyReader, Sound

LEMMA CopiesStep ==
  ASSUME TypeOK, SavedFirst, CopiesFit, [Next]_vars
  PROVE  CopiesFit'
<1> DEFINE Goal == /\ \A i \in Instances : l1'[i] # "revoked"
                   /\ l2'.copy # "revoked"
                   /\ \A v \in Readers : Sound(v)'
<1> SUFFICES ASSUME Undisturbed' PROVE Goal
  BY DEF CopiesFit
<1>a. InsertRow => row.status = "none"
  BY DEF InsertRow, SavedFirst
<1>b. Undisturbed
  <2>1. InsertRow => faults.db = 0
    BY DEF InsertRow, Undisturbed, NoFault, DbFault, Fault, TypeOK
  <2> QED BY <1>a, <2>1, Disturbance DEF Undisturbed
<1>0. /\ \A i \in Instances : l1[i] # "revoked"
      /\ l2.copy # "revoked"
      /\ \A v \in Readers : Sound(v)
  BY <1>b DEF CopiesFit
<1>1. CASE Save
  <2>1. \A v \in Readers : readers[v].pc = "idle" /\ readers[v].copy = "absent"
                           /\ readers[v].answer = "none"
    BY <1>1 DEF Save, SaveToL1, InsertRow, SaveToL2, SavedFirst, HandedOut
  <2>2. UNCHANGED readers /\ \A v \in Readers : Sound(v)'
    BY <1>1, <2>1 DEF Save, SaveToL1, InsertRow, SaveToL2, Sound
  <2> QED BY <1>0, <1>1, <2>2 DEF Save, SaveToL1, InsertRow, SaveToL2, TypeOK
<1>2. ASSUME NEW v \in Readers, NEW i \in Instances, LookUpL1(v, i)
      PROVE  Goal
  <2>1. UNCHANGED <<now, row, l1, l2>>
    BY <1>2 DEF LookUpL1
  <2>2. l1[i] # "absent" => l1[i] = "live"
    BY <1>0 DEF TypeOK, Copy
  <2>3. Sound(v)'
    BY <1>2, <2>1, <2>2, LookUpReader, LookUpAnswer DEF Sound, Verdict, TypeOK
  <2> QED BY <1>0, <1>2, <2>1, <2>3, LookUpReader, OneSound
<1>3. ASSUME NEW v \in Readers, GetL2(v)
      PROVE  Goal
  <2>1. UNCHANGED <<now, row, l1, l2>>
    BY <1>3 DEF GetL2
  <2>2. L2Copy # "absent" => L2Copy = "live"
    BY <1>0 DEF L2Copy, TypeOK, Copy
  <2>3. Sound(v)'
    BY <1>0, <1>3, <2>1, <2>2, GetL2Reader, GetL2Answer DEF Sound
  <2> QED BY <1>0, <1>3, <2>1, <2>3, GetL2Reader, OneSound
<1>4. ASSUME NEW v \in Readers, ReadRow(v)
      PROVE  Goal
  <2>1. UNCHANGED <<now, row, l1, l2>> /\ readers[v].pc = "read"
    BY <1>4 DEF ReadRow
  <2>2. row.status = "live" /\ faults'.db = 0
    BY <1>b, <2>1 DEF SavedFirst, HandedOut, Undisturbed
  <2>3. Sound(v)'
    BY <1>0, <1>4, <2>1, <2>2, ReadRowAnswer DEF Sound
  <2> QED BY <1>0, <1>4, <2>1, <2>3, ReadRowReader, OneSound
<1>5. ASSUME NEW v \in Readers, FillAndAnswer(v)
      PROVE  Goal
  <2>1. UNCHANGED <<now, row, l2>> /\ readers[v].pc = "got"
    BY <1>5 DEF FillAndAnswer
  <2>2. readers[v].copy = "live"
    BY <1>0, <2>1 DEF Sound
  <2>3. Sound(v)'
    BY <1>5, <2>1, <2>2, FillReader, FillAnswer DEF Sound, Verdict, TypeOK
  <2>4. \A i \in Instances : l1'[i] # "revoked"
    BY <1>0, <1>5, <2>2, FillReader
  <2> QED BY <1>0, <1>5, <2>1, <2>3, <2>4, FillReader, OneSound
<1>6. ASSUME NEW v \in Readers, FillL2(v)
      PROVE  Goal
  <2>1. UNCHANGED <<now, row, l1>>
    BY <1>6 DEF FillL2
  <2>2. l2' = l2 \/ l2'.copy = readers[v].copy
    BY <1>6 DEF FillL2
  <2>3. Sound(v)'
    BY <1>0, <1>6, <2>1, FillL2Reader, FillL2Answer DEF Sound
  <2> QED BY <1>0, <1>6, <2>1, <2>2, <2>3, FillL2Reader, OneSound DEF Sound
<1>7. ASSUME NEW w \in Revokers, Revoke(w) \/ \E i \in Instances : ReceiveRevoke(w, i)
      PROVE  Goal
  <2>1. UNCHANGED <<now, readers>> /\ row'.exp = row.exp
    BY <1>7 DEF Revoke, Introspect, UpdateRow, EraseL1, DeleteL2, ReceiveRevoke, TypeOK
  <2>2. l2' = l2 \/ l2'.copy = "absent"
    BY <1>7 DEF Revoke, Introspect, UpdateRow, EraseL1, DeleteL2, ReceiveRevoke, NoL2
  <2>3. \A i \in Instances : l1'[i] = l1[i] \/ l1'[i] = "absent"
    BY <1>7 DEF Revoke, Introspect, UpdateRow, EraseL1, DeleteL2, ReceiveRevoke, TypeOK
  <2> QED BY <1>0, <2>1, <2>2, <2>3 DEF Sound
<1>8. CASE RevokeTokenFamily \/ DeleteExpired
  BY <1>0, <1>8 DEF RevokeTokenFamily, DeleteExpired, Sound, TypeOK
<1>9. ASSUME NEW i \in Instances, EvictL1(i)
      PROVE  Goal
  BY <1>0, <1>9 DEF EvictL1, Sound, TypeOK
<1>10. ASSUME NEW i \in Instances, Restart(i)
       PROVE  Goal
  <2>1. \A v \in Readers : Sound(v)'
    BY <1>0, <1>10, RestartRecords, RestartAnswer DEF Sound, Restart
  <2> QED BY <1>0, <1>10, <2>1 DEF Restart, TypeOK
<1>11. CASE Tick
  BY <1>0, <1>11 DEF Tick, Sound, TypeOK
<1>12. CASE UNCHANGED vars
  BY <1>0, <1>12 DEF vars, Sound
<1> QED BY <1>1, <1>2, <1>3, <1>4, <1>5, <1>6, <1>7, <1>8, <1>9, <1>10, <1>11, <1>12 DEF Next, Read

LEMMA CopiesInvariance == Spec => [](SavedFirst /\ CopiesFit)
<1>1. Init => SavedFirst /\ CopiesFit
  BY DEF Init, SavedFirst, CopiesFit, Sound, NoReader, NoL2, HandedOut
<1>2. TypeOK /\ SavedFirst /\ CopiesFit /\ [Next]_vars => (SavedFirst /\ CopiesFit)'
  BY SavedFirstStep, CopiesStep
<1> QED BY <1>1, <1>2, TypeCorrect, PTL DEF Spec

(* ValidTokenAccepted: only a database error makes getAccessToken refuse a  *)
(* valid token, for any instances, losses of Redis and restarts.            *)
THEOREM ValidIsAccepted == Spec => []ValidTokenAccepted
<1>1. CopiesFit => ValidTokenAccepted
  BY DEF CopiesFit, Undisturbed, Sound, ValidTokenAccepted
<1> QED BY <1>1, CopiesInvariance, PTL
=============================================================================
