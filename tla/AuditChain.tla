----------------------------- MODULE AuditChain -----------------------------
(***************************************************************************)
(* The per-tenant audit hash chain: AuditMiddleware hands every write       *)
(* request to record_audit_event, which numbers and links one audit_logs    *)
(* row under a PostgreSQL advisory lock.  A Redis INCR only suggests the    *)
(* sequence number; Redis may fail, lose its answer or be flushed.          *)
(*                                                                          *)
(* A call is one write request.  SHA-256 is taken to be collision free and  *)
(* a payload carries its request id, so a digest is modelled by the call    *)
(* whose row it was computed for; Genesis is GENESIS_HASH.                  *)
(***************************************************************************)
EXTENDS Naturals, FiniteSets, Sequences

CONSTANTS Calls,     (* write requests seen by the middleware              *)
          Tenants,
          TenantOf,  (* the tenant of a request, NoTenant when it has none *)
          NoTenant,
          Genesis,   (* GENESIS_HASH                                       *)
          NoCall     (* nobody (a free lock), or the None an audit returns *)

ASSUME AuditAssumption ==
  /\ TenantOf \in [Calls -> Tenants \cup {NoTenant}]
  /\ NoTenant \notin Tenants
  /\ NoCall \notin Calls
  /\ Genesis \notin Calls

VARIABLES
  auditSeq, (* audit_seq:{tenant}, 0 when the key is absent                *)
  lock,     (* holder of pg_advisory_xact_lock(hashtext(tenant))           *)
  rows,     (* committed rows of audit_logs                                *)
  pc,       (* where each call is                                          *)
  seq,      (* the local seq: the hint, then the number; 0 is None         *)
  prevMax,  (* the local prev_max                                          *)
  prevHash, (* the local prev_hash                                         *)
  result    (* what record_audit_event returned                            *)

auditVars == <<auditSeq, lock, rows, pc, seq, prevMax, prevHash, result>>
locals == <<seq, prevMax, prevHash>>

AuditStages == {"handling", "incr", "lock", "max", "last", "insert", "done"}
InTransaction == {"max", "last", "insert"}
Row == [tenant : Tenants, seq : Nat \ {0},
        prev : Calls \cup {Genesis}, hash : Calls]

RowsOf(t) == {r \in rows : r.tenant = t}
IsLast(r, t) == r \in RowsOf(t) /\ \A q \in RowsOf(t) : q.seq <= r.seq

AuditTypeOK ==
  /\ auditSeq \in [Tenants -> Nat]
  /\ lock \in [Tenants -> Calls \cup {NoCall}]
  /\ rows \subseteq Row
  /\ pc \in [Calls -> AuditStages]
  /\ seq \in [Calls -> Nat]
  /\ prevMax \in [Calls -> Nat]
  /\ prevHash \in [Calls -> Calls \cup {Genesis}]
  /\ result \in [Calls -> Calls \cup {NoCall}]

AuditInit ==
  /\ auditSeq = [t \in Tenants |-> 0]
  /\ lock = [t \in Tenants |-> NoCall]
  /\ rows = {}
  /\ pc = [c \in Calls |-> "handling"]
  /\ seq = [c \in Calls |-> 0]
  /\ prevMax = [c \in Calls |-> 0]
  /\ prevHash = [c \in Calls |-> Genesis]
  /\ result = [c \in Calls |-> NoCall]

Goto(c, from, to) ==
  /\ pc[c] = from
  /\ pc' = [pc EXCEPT ![c] = to]

-----------------------------------------------------------------------------
(* The middleware: a response gets the audit as its background task, which  *)
(* leaves at once without a tenant; an exception leaves no response and so  *)
(* no audit at all.                                                         *)
Respond(c) ==
  /\ Goto(c, "handling", IF TenantOf[c] = NoTenant THEN "done" ELSE "incr")
  /\ UNCHANGED <<auditSeq, lock, rows, locals, result>>

Raise(c) ==
  /\ Goto(c, "handling", "done")
  /\ UNCHANGED <<auditSeq, lock, rows, locals, result>>

(* The hint.  An INCR that raises may or may not have been applied.         *)
Incr(c) ==
  /\ Goto(c, "incr", "lock")
  /\ auditSeq' = [auditSeq EXCEPT ![TenantOf[c]] = @ + 1]
  /\ seq' = [seq EXCEPT ![c] = auditSeq'[TenantOf[c]]]
  /\ UNCHANGED <<lock, rows, prevMax, prevHash, result>>

IncrFails(c) ==
  /\ Goto(c, "incr", "lock")
  /\ \E applied \in {0, 1} :
        auditSeq' = [auditSeq EXCEPT ![TenantOf[c]] = @ + applied]
  /\ UNCHANGED <<lock, rows, locals, result>>

RedisFlush(t) ==
  /\ auditSeq[t] # 0
  /\ auditSeq' = [auditSeq EXCEPT ![t] = 0]
  /\ UNCHANGED <<lock, rows, pc, locals, result>>

-----------------------------------------------------------------------------
(* The coroutine returns and its frame is gone.                             *)
Return(c) ==
  /\ pc' = [pc EXCEPT ![c] = "done"]
  /\ seq' = [seq EXCEPT ![c] = 0]
  /\ prevMax' = [prevMax EXCEPT ![c] = 0]
  /\ prevHash' = [prevHash EXCEPT ![c] = Genesis]

(* The transaction, statement by statement at READ COMMITTED.               *)
AcquireLockWithoutWaiting(c) ==
  /\ Goto(c, "lock", "max")
  /\ lock' = [lock EXCEPT ![TenantOf[c]] = c]
  /\ UNCHANGED <<auditSeq, rows, locals, result>>

AcquireLock(c) ==
  /\ Goto(c, "lock", "max")
  /\ lock[TenantOf[c]] = NoCall
  /\ lock' = [lock EXCEPT ![TenantOf[c]] = c]
  /\ UNCHANGED <<auditSeq, rows, locals, result>>

NumberRowHintFirst(hint, max) == IF hint = 0 THEN max + 1 ELSE hint

NumberRow(hint, max) == IF hint = 0 \/ hint <= max THEN max + 1 ELSE hint

ReadMax(c) ==
  /\ Goto(c, "max", "last")
  /\ \/ RowsOf(TenantOf[c]) = {} /\ prevMax' = [prevMax EXCEPT ![c] = 0]
     \/ \E r \in rows : /\ IsLast(r, TenantOf[c])
                        /\ prevMax' = [prevMax EXCEPT ![c] = r.seq]
  /\ seq' = [seq EXCEPT ![c] = NumberRow(@, prevMax'[c])]
  /\ UNCHANGED <<auditSeq, lock, rows, prevHash, result>>

ReadLast(c) ==
  /\ Goto(c, "last", "insert")
  /\ \/ /\ prevMax[c] = 0 \/ RowsOf(TenantOf[c]) = {}
        /\ prevHash' = [prevHash EXCEPT ![c] = Genesis]
     \/ /\ prevMax[c] # 0
        /\ \E r \in rows : /\ IsLast(r, TenantOf[c])
                           /\ prevHash' = [prevHash EXCEPT ![c] = r.hash]
  /\ UNCHANGED <<auditSeq, lock, rows, seq, prevMax, result>>

NewRow(c) == [tenant |-> TenantOf[c], seq |-> seq[c],
              prev |-> prevHash[c], hash |-> c]

(* The unique index (tenant_id, sequence_no).                               *)
Conflicts(c) == \E r \in RowsOf(TenantOf[c]) : r.seq = seq[c]

ReleaseNothing(c) == UNCHANGED lock

Release(c) == lock' = [lock EXCEPT ![TenantOf[c]] = NoCall]

(* COMMIT publishes the row and frees the lock; the answer reaches the      *)
(* caller, or is lost (or the RESET after it raises) and None is returned.  *)
Commit(c) ==
  /\ pc[c] = "insert"
  /\ ~Conflicts(c)
  /\ rows' = rows \cup {NewRow(c)}
  /\ Release(c)
  /\ \/ result' = [result EXCEPT ![c] = c]
     \/ UNCHANGED result
  /\ Return(c)
  /\ UNCHANGED auditSeq

(* Any statement may raise (always, when the unique index refuses the row): *)
(* rollback, and the failure is swallowed.                                  *)
RollbackAcknowledged(c) ==
  /\ pc[c] \in InTransaction
  /\ Release(c)
  /\ Return(c)
  /\ result' = [result EXCEPT ![c] = c]
  /\ UNCHANGED <<auditSeq, rows>>

Rollback(c) ==
  /\ pc[c] \in InTransaction
  /\ Release(c)
  /\ Return(c)
  /\ UNCHANGED <<auditSeq, rows, result>>

(* The database is unreachable before the lock is taken.                    *)
NoSession(c) ==
  /\ pc[c] = "lock"
  /\ Return(c)
  /\ UNCHANGED <<auditSeq, lock, rows, result>>

Proceed(c) ==
  \/ Respond(c) \/ Raise(c) \/ Incr(c) \/ IncrFails(c)
  \/ AcquireLock(c) \/ ReadMax(c) \/ ReadLast(c) \/ Commit(c)
  \/ Rollback(c)

Step(c) == Proceed(c) \/ NoSession(c)

AuditNext ==
  \/ \E c \in Calls : Step(c)
  \/ \E t \in Tenants : RedisFlush(t)

AuditSpec == AuditInit /\ [][AuditNext]_auditVars

(* Requests run to completion: the event loop resumes every coroutine, and  *)
(* PostgreSQL hands a freed advisory lock to a waiter.  Nobody who waits for *)
(* the lock can count on losing the database instead.                       *)
FairAuditSpec == AuditSpec /\ \A c \in Calls : WF_auditVars(Proceed(c))

-----------------------------------------------------------------------------
(* Read in order of sequence_no, the rows of a tenant form one chain: the   *)
(* first carries GENESIS_HASH, every other the hash of the row right before *)
(* it (audit.py docstring, "哈希链").                                       *)
LinearChain ==
  \A t \in Tenants : \A r \in RowsOf(t) :
    \/ r.prev = Genesis /\ \A q \in RowsOf(t) : r.seq <= q.seq
    \/ \E p \in RowsOf(t) :
         /\ r.prev = p.hash
         /\ p.seq < r.seq
         /\ \A q \in RowsOf(t) : q.seq <= p.seq \/ r.seq <= q.seq

(* The lock and the calibration against MAX(sequence_no) make sure that the *)
(* unique index never refuses an audit row, whatever Redis suggested.       *)
NoSequenceConflict ==
  \A c \in Calls : pc[c] = "insert" => ~Conflicts(c)

(* No row is ever rewritten, removed or inserted below an existing one of   *)
(* its tenant.                                                              *)
AppendOnly ==
  [][/\ rows \subseteq rows'
     /\ \A r \in rows' \ rows : \A q \in RowsOf(r.tenant) : q.seq < r.seq]_rows

(* The rows of a tenant in the order of sequence_no, as the entries of      *)
(* AuditLog.                                                                *)
Entry(r) == [call |-> r.hash, prev |-> r.prev]
Rank(R, r) == Cardinality({q \in R : q.seq <= r.seq})
EntriesAt(R, i) == {Entry(r) : r \in {q \in R : Rank(R, q) = i}}
InOrder(R) == [i \in 1..Cardinality(R) |-> CHOOSE e \in EntriesAt(R, i) : TRUE]
LogOfTenants == [t \in Tenants |-> InOrder(RowsOf(t))]

(* The table implements the log: record_audit_event as a whole appends one  *)
(* entry behind its tenant's last one or none, statement by statement,      *)
(* beside other calls and whatever Redis answers.                           *)
Log == INSTANCE AuditLog WITH log <- LogOfTenants
ImplementsAuditLog == Log!Spec

(* A hash handed to the caller (and logged as audit_hash) is in the table.  *)
AcknowledgedIsDurable ==
  \A c \in Calls : result[c] # NoCall =>
    \E r \in rows : r.hash = result[c] /\ r.tenant = TenantOf[c]

(* Every request finishes its audit, failed or not: no lock is leaked.      *)
EveryCallReturns == \A c \in Calls : <>(pc[c] = "done")
=============================================================================
