------------------------ MODULE CachedOAuth2Storage ------------------------
(***************************************************************************)
(* The cache in front of PostgreSQL, storage/CachedOAuth2Storage.cc, for   *)
(* one access token: a row in the database (the source of truth), one      *)
(* shared copy in Redis (L2) and one copy in the memory of each server     *)
(* instance (L1).                                                          *)
(*                                                                         *)
(* A database statement, a Redis command and the callback that handles an  *)
(* answer are separate steps; an answer travels while other requests, on   *)
(* this instance or another, go on.                                        *)
(***************************************************************************)
EXTENDS Naturals

CONSTANTS
  Instances,      \* server processes that share the database and Redis
  Readers,        \* validations of the token
  Revokers,       \* requests to POST /oauth2/revoke for the token
  None,           \* no value
  HasRedis,       \* redisClient_ is set
  AccessTokenTtl, \* accessTokenTtl_
  MaxTime,        \* bound on the clock
  MaxFaults       \* bound on the SQL statements and Redis commands that
                  \* fail and the instances that restart, together

ASSUME CacheAssumption ==
  /\ None \notin Instances
  /\ HasRedis \in BOOLEAN
  /\ {AccessTokenTtl, MaxTime, MaxFaults} \subseteq Nat

VARIABLES
  now,       \* the clock
  row,       \* the token's row in oauth2_access_tokens
  l1,        \* tokenCache_ of each instance
  l2,        \* the key oauth2:token:<token> in Redis, and when it expires
  saver,     \* the saveAccessToken of the token
  readers,   \* each getAccessToken
  revokers,  \* each revocation
  faults     \* failures and restarts so far

vars == <<now, row, l1, l2, saver, readers, revokers, faults>>

(* A copy of the token is known by its revoked flag.                        *)
Copy == {"absent", "live", "revoked"}

RowStatus == {"none", "live", "revoked", "deleted", "lost"}

SaverPc   == {"start", "insert", "set", "done", "lost"}
ReaderPc  == {"idle", "get", "read", "got", "set", "done", "lost"}
RevokerPc == {"idle", "introspect", "update", "retry", "erase", "del", "acked", "lost"}

Reader == [pc: ReaderPc, inst: Instances \cup {None}, copy: Copy, fill: SUBSET {"l1", "l2"},
           ttl: Nat, answer: {"none", "accepted", "refused"}, since: SUBSET Revokers]

Revoker == [pc: RevokerPc, inst: Instances \cup {None}, effective: BOOLEAN, overlap: BOOLEAN]

NoL2 == [copy |-> "absent", until |-> 0]

NoReader == [pc |-> "idle", inst |-> None,
             copy |-> "absent",   \* what Redis or the database answered
             fill |-> {},         \* the caches to fill with it
             ttl |-> 0,           \* the lifetime in its SET command
             answer |-> "none",
             since |-> {}]        \* the revocations it comes after

NoRevoker == [pc |-> "idle", inst |-> None,
              effective |-> FALSE,   \* row updated and caches evicted
              overlap |-> FALSE]     \* validations were under way meanwhile

Init ==
  /\ now = 0
  /\ row = [status |-> "none", exp |-> 0]
  /\ l1 = [i \in Instances |-> "absent"]
  /\ l2 = NoL2
  /\ saver = [pc |-> "start", inst |-> None, ttl |-> 0]
  /\ readers = [v \in Readers |-> NoReader]
  /\ revokers = [w \in Revokers |-> NoRevoker]
  /\ faults = [db |-> 0, redis |-> 0, restarts |-> 0]

-----------------------------------------------------------------------------
NoFault == UNCHANGED faults
Fault(kind) ==
  /\ faults.db + faults.redis + faults.restarts < MaxFaults
  /\ faults' = [faults EXCEPT ![kind] = @ + 1]
DbFault == Fault("db")
RedisFault == Fault("redis")

Unexpired == row.exp > now

(* What Redis answers to GET: an expired key is absent.                     *)
L2Copy == IF now < l2.until THEN l2.copy ELSE "absent"

(* validateAccessToken: what becomes of the copy it is given.               *)
Verdict(copy) == IF copy = "live" /\ now <= row.exp THEN "accepted" ELSE "refused"

HandedOut == saver.pc = "done"

InFlight(v) == readers[v].pc \in {"get", "read", "got", "set"}

-----------------------------------------------------------------------------
(* saveAccessToken.  The copy goes to L1 before the row is inserted.        *)
SaveToL1(i) ==
  /\ saver.pc = "start"
  /\ row' = [row EXCEPT !.exp = now + AccessTokenTtl]
  /\ l1' = IF AccessTokenTtl > 0 THEN [l1 EXCEPT ![i] = "live"] ELSE l1
  /\ saver' = [pc |-> "insert", inst |-> i, ttl |-> AccessTokenTtl]
  /\ UNCHANGED <<now, l2, readers, revokers, faults>>

(* The callback of the insert runs after an error too.                      *)
InsertRow ==
  /\ saver.pc = "insert"
  /\ \/ row' = [row EXCEPT !.status = "live"] /\ NoFault
     \/ row' = [row EXCEPT !.status = "lost"] /\ DbFault
  /\ saver' = [saver EXCEPT !.pc = IF HasRedis /\ saver.ttl > 0 THEN "set" ELSE "done"]
  /\ UNCHANGED <<now, l1, l2, readers, revokers>>

(* SET ... EX with the lifetime computed before the insert.                 *)
SaveToL2 ==
  /\ saver.pc = "set"
  /\ \/ l2' = [copy |-> "live", until |-> now + saver.ttl] /\ NoFault
     \/ RedisFault /\ UNCHANGED l2
  /\ saver' = [saver EXCEPT !.pc = "done"]
  /\ UNCHANGED <<now, row, l1, readers, revokers>>

-----------------------------------------------------------------------------
(* History, to tell what a validation that starts now may be expected to    *)
(* know: the revocations whose requests have been answered.                 *)
Acknowledged == {w \in Revokers : revokers[w].pc = "acked"}

(* getAccessToken on instance i: an L1 hit is answered at once.             *)
LookUpL1(v, i) ==
  /\ HandedOut
  /\ readers[v].pc = "idle"
  /\ LET arrived == [NoReader EXCEPT !.inst = i, !.since = Acknowledged] IN
       \/ /\ l1[i] # "absent"
          /\ readers' = [readers EXCEPT ![v] = [arrived EXCEPT !.pc = "done",
                                                               !.answer = Verdict(l1[i])]]
          /\ UNCHANGED revokers
       \/ /\ l1[i] = "absent"
          /\ readers' = [readers EXCEPT ![v] =
               IF HasRedis THEN [arrived EXCEPT !.pc = "get"]
                           ELSE [arrived EXCEPT !.pc = "read", !.fill = {"l1"}]]
          /\ revokers' = [w \in Revokers |-> [revokers[w] EXCEPT !.overlap =
                                                @ \/ revokers[w].pc \in {"erase", "del"}]]
  /\ UNCHANGED <<now, row, l1, l2, saver, faults>>

(* GET: a hit fills L1, nil leads to the database and fills both, an error  *)
(* leads to the database and fills nothing.  Mutant: nil is taken for an    *)
(* unknown token.                                                           *)
L2Hit(v) ==
  /\ L2Copy # "absent"
  /\ readers' = [readers EXCEPT ![v].pc = "got", ![v].copy = L2Copy, ![v].fill = {"l1"}]
  /\ NoFault

GetL2WithoutFallback(v) ==
  /\ readers[v].pc = "get"
  /\ \/ L2Hit(v)
     \/ L2Copy = "absent" /\ NoFault /\ readers' = [readers EXCEPT ![v].pc = "got"]
  /\ UNCHANGED <<now, row, l1, l2, saver, revokers>>

GetL2(v) ==
  /\ readers[v].pc = "get"
  /\ \/ L2Hit(v)
     \/ L2Copy = "absent" /\ NoFault
        /\ readers' = [readers EXCEPT ![v].pc = "read", ![v].fill = {"l1", "l2"}]
     \/ RedisFault /\ readers' = [readers EXCEPT ![v].pc = "read"]
  /\ UNCHANGED <<now, row, l1, l2, saver, revokers>>

(* getAccessToken of PostgreSQL: the row with its revoked flag, or nothing. *)
(* Mutant: the revoked flag is not copied.                                  *)
Stored == row.status \in {"live", "revoked"}

ReadRowWithoutFlag(v) ==
  /\ readers[v].pc = "read"
  /\ readers' = [readers EXCEPT ![v].pc = "got", ![v].copy = IF Stored THEN "live" ELSE "absent"]
  /\ NoFault
  /\ UNCHANGED <<now, row, l1, l2, saver, revokers>>

ReadRow(v) ==
  /\ readers[v].pc = "read"
  /\ \/ Stored /\ NoFault
        /\ readers' = [readers EXCEPT ![v].pc = "got", ![v].copy = row.status]
     \/ ~Stored /\ NoFault
        /\ readers' = [readers EXCEPT ![v].pc = "got", ![v].copy = "absent"]
     \/ DbFault /\ readers' = [readers EXCEPT ![v].pc = "got", ![v].copy = "absent"]
  /\ UNCHANGED <<now, row, l1, l2, saver, revokers>>

(* The callback that has the copy: L1 is filled, a SET is sent and not      *)
(* waited for, and validateAccessToken answers.                             *)
FillAndAnswer(v) ==
  /\ readers[v].pc = "got"
  /\ LET r == readers[v]
         fill == IF r.copy # "absent" /\ Unexpired THEN r.fill ELSE {} IN
       /\ l1' = IF "l1" \in fill THEN [l1 EXCEPT ![r.inst] = r.copy] ELSE l1
       /\ readers' = [readers EXCEPT ![v] =
            [r EXCEPT !.answer = Verdict(r.copy),
                      !.pc = IF "l2" \in fill THEN "set" ELSE "done",
                      !.ttl = IF Unexpired THEN row.exp - now ELSE 0]]
  /\ UNCHANGED <<now, row, l2, saver, revokers, faults>>

FillL2(v) ==
  /\ readers[v].pc = "set"
  /\ \/ l2' = [copy |-> readers[v].copy, until |-> now + readers[v].ttl] /\ NoFault
     \/ RedisFault /\ UNCHANGED l2
  /\ readers' = [readers EXCEPT ![v].pc = "done"]
  /\ UNCHANGED <<now, row, l1, saver, revokers>>

-----------------------------------------------------------------------------
(* POST /oauth2/revoke on instance i.                                       *)
ReceiveRevoke(w, i) ==
  /\ HandedOut
  /\ revokers[w].pc = "idle"
  /\ revokers' = [revokers EXCEPT ![w].pc = "introspect", ![w].inst = i]
  /\ UNCHANGED <<now, row, l1, l2, saver, readers, faults>>

(* introspectToken goes to the database.  An inactive token is acknowledged *)
(* at once, whatever the caches hold.                                       *)
Introspect(w) ==
  /\ revokers[w].pc = "introspect"
  /\ LET active == row.status = "live" /\ row.exp >= now IN
       \/ active /\ NoFault /\ revokers' = [revokers EXCEPT ![w].pc = "update"]
       \/ ~active /\ NoFault /\ revokers' = [revokers EXCEPT ![w].pc = "acked"]
       \/ DbFault /\ revokers' = [revokers EXCEPT ![w].pc = "acked"]
  /\ UNCHANGED <<now, row, l1, l2, saver, readers>>

(* revokeAccessToken of PostgreSQL, retried once; its callback runs after   *)
(* the second error too.                                                    *)
UpdateRow(w) ==
  /\ revokers[w].pc \in {"update", "retry"}
  /\ \/ /\ row' = IF row.status = "live" THEN [row EXCEPT !.status = "revoked"] ELSE row
        /\ revokers' = [revokers EXCEPT ![w].pc = "erase", ![w].effective = TRUE,
                                        ![w].overlap = \E v \in Readers : InFlight(v)]
        /\ NoFault
     \/ /\ DbFault
        /\ revokers' = [revokers EXCEPT ![w].pc =
                          IF revokers[w].pc = "update" THEN "retry" ELSE "erase"]
        /\ UNCHANGED row
  /\ UNCHANGED <<now, l1, l2, saver, readers>>

(* Then this instance's copy, then the one in Redis.  Mutant: the copy in   *)
(* Redis is forgotten.                                                      *)
EraseL1Only(w) ==
  /\ revokers[w].pc = "erase"
  /\ l1' = [l1 EXCEPT ![revokers[w].inst] = "absent"]
  /\ revokers' = [revokers EXCEPT ![w].pc = "acked"]
  /\ UNCHANGED <<now, row, l2, saver, readers, faults>>

EraseL1(w) ==
  /\ revokers[w].pc = "erase"
  /\ l1' = [l1 EXCEPT ![revokers[w].inst] = "absent"]
  /\ revokers' = [revokers EXCEPT ![w].pc = IF HasRedis THEN "del" ELSE "acked"]
  /\ UNCHANGED <<now, row, l2, saver, readers, faults>>

DeleteL2(w) ==
  /\ revokers[w].pc = "del"
  /\ \/ l2' = NoL2 /\ NoFault /\ revokers' = [revokers EXCEPT ![w].pc = "acked"]
     \/ /\ RedisFault
        /\ UNCHANGED l2
        /\ revokers' = [revokers EXCEPT ![w].pc = "acked", ![w].effective = FALSE]
  /\ UNCHANGED <<now, row, l1, saver, readers>>

(* revokeTokenFamily: the database, and no cache.  A password change, an    *)
(* account deletion and an administrator's revocation run the same UPDATE   *)
(* without going through the cache at all.                                  *)
RevokeTokenFamily ==
  /\ HandedOut
  /\ row.status = "live"
  /\ row' = [row EXCEPT !.status = "revoked"]
  /\ UNCHANGED <<now, l1, l2, saver, readers, revokers, faults>>

DeleteExpired ==
  /\ row.status \in {"live", "revoked"} /\ row.exp < now
  /\ row' = [row EXCEPT !.status = "deleted"]
  /\ UNCHANGED <<now, l1, l2, saver, readers, revokers, faults>>

-----------------------------------------------------------------------------
(* CacheMap drops an entry some time after its lifetime.                    *)
EvictL1(i) ==
  /\ l1[i] # "absent" /\ now >= row.exp
  /\ l1' = [l1 EXCEPT ![i] = "absent"]
  /\ UNCHANGED <<now, row, l2, saver, readers, revokers, faults>>

(* Instance i is killed and started again: its memory and the requests it   *)
(* was serving are gone.                                                    *)
Restart(i) ==
  /\ Fault("restarts")
  /\ l1' = [l1 EXCEPT ![i] = "absent"]
  /\ saver' = IF saver.inst = i /\ saver.pc # "done" THEN [saver EXCEPT !.pc = "lost"] ELSE saver
  /\ readers' = [v \in Readers |-> IF readers[v].inst = i /\ InFlight(v)
                                     THEN [readers[v] EXCEPT !.pc = "lost"] ELSE readers[v]]
  /\ revokers' = [w \in Revokers |-> IF revokers[w].inst = i /\ revokers[w].pc # "acked"
                                       THEN [revokers[w] EXCEPT !.pc = "lost"] ELSE revokers[w]]
  /\ UNCHANGED <<now, row, l2>>

Tick ==
  /\ now < MaxTime
  /\ now' = now + 1
  /\ UNCHANGED <<row, l1, l2, saver, readers, revokers, faults>>

-----------------------------------------------------------------------------
Save == (\E i \in Instances : SaveToL1(i)) \/ InsertRow \/ SaveToL2

Read(v) == GetL2(v) \/ ReadRow(v) \/ FillAndAnswer(v) \/ FillL2(v)

Revoke(w) == Introspect(w) \/ UpdateRow(w) \/ EraseL1(w) \/ DeleteL2(w)

Next ==
  \/ Save
  \/ \E v \in Readers : Read(v) \/ \E i \in Instances : LookUpL1(v, i)
  \/ \E w \in Revokers : Revoke(w) \/ \E i \in Instances : ReceiveRevoke(w, i)
  \/ RevokeTokenFamily \/ DeleteExpired
  \/ \E i \in Instances : EvictL1(i) \/ Restart(i)
  \/ Tick

Spec == Init /\ [][Next]_vars

-----------------------------------------------------------------------------
TypeOK ==
  /\ now \in Nat
  /\ row \in [status: RowStatus, exp: Nat]
  /\ l1 \in [Instances -> Copy]
  /\ l2 \in [copy: Copy, until: Nat]
  /\ saver \in [pc: SaverPc, inst: Instances \cup {None}, ttl: Nat]
  /\ readers \in [Readers -> Reader]
  /\ revokers \in [Revokers -> Revoker]
  /\ faults \in [db: Nat, redis: Nat, restarts: Nat]

(* Nothing can make instance i accept the token again: the row is revoked,  *)
(* and neither its L1, nor Redis, nor an answer under way holds a live copy *)
(* that could reach them.                                                   *)
Forgotten(i) ==
  /\ row.status \in {"revoked", "deleted"}
  /\ l1[i] # "live"
  /\ L2Copy # "live"
  /\ \A v \in Readers :
       readers[v].copy = "live" => ~ \/ readers[v].pc = "set"
                                     \/ readers[v].pc = "got" /\ "l2" \in readers[v].fill
                                     \/ readers[v].pc = "got" /\ readers[v].inst = i
  /\ saver.pc \notin {"start", "insert", "set"}

(* An instance that has forgotten a revoked token never accepts it again,   *)
(* whatever the other instances still hold and whatever fails.              *)
ForgottenStaysForgotten ==
  [][\A i \in Instances : Forgotten(i) => Forgotten(i)']_vars

(* A revocation that updated the row and evicted both copies while no       *)
(* validation was under way has made its instance forget the token.         *)
RevocationIsFinal ==
  \A w \in Revokers :
    revokers[w].pc = "acked" /\ revokers[w].effective /\ ~revokers[w].overlap
      => Forgotten(revokers[w].inst)

(* Neither a cold cache, nor an expired or lost Redis key, nor Redis being  *)
(* down refuses a valid token: only a database error does.                  *)
ValidTokenAccepted ==
  \A v \in Readers :
    readers[v].answer = "refused" /\ faults.db = 0 => row.status # "live" \/ now > row.exp

(* Immediate revocation: an instance that has revoked the token, evicted    *)
(* both copies and acknowledged it refuses the validations that start       *)
(* there afterwards.                                                        *)
RevokedIsRefused ==
  \A v \in Readers, w \in Revokers :
    /\ revokers[w].effective
    /\ w \in readers[v].since
    /\ revokers[w].inst = readers[v].inst
    => readers[v].answer # "accepted"

-----------------------------------------------------------------------------
(* The inductive invariant: a revocation under way that no validation has   *)
(* crossed has nothing left to fear but the copies it is about to evict.    *)
Uncrossed(w) == revokers[w].effective /\ ~revokers[w].overlap

RevocationFits(w) ==
  /\ revokers[w].pc = "idle" <=> revokers[w].inst = None
  /\ revokers[w].pc # "idle" => HandedOut
  /\ revokers[w].pc \in {"idle", "introspect", "update", "retry"} => ~revokers[w].effective
  /\ revokers[w].pc \in {"update", "retry"} => row.status \in {"live", "revoked", "deleted"}
  /\ revokers[w].pc \in {"erase", "del"} /\ Uncrossed(w) =>
       /\ row.status \in {"revoked", "deleted"}
       /\ \A v \in Readers : ~InFlight(v)
       /\ revokers[w].pc = "del" => l1[revokers[w].inst] # "live"

(* Without Redis no step reaches for it.                                    *)
RedisFits ==
  HasRedis \/ /\ l2 = NoL2
              /\ saver.pc # "set"
              /\ \A v \in Readers : /\ readers[v].pc \notin {"get", "set"}
                                    /\ "l2" \notin readers[v].fill

IInv ==
  /\ TypeOK
  /\ RedisFits
  /\ \A w \in Revokers : RevocationFits(w)
  /\ RevocationIsFinal
=============================================================================
