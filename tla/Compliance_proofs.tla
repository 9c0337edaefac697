------------------------- MODULE Compliance_proofs --------------------------
(***************************************************************************)
(* Proofs about the two records that auditors ask for.                      *)
(*                                                                          *)
(* The audit chain of every tenant is linear for any set of concurrent      *)
(* calls, and whatever Redis answers: the inductive invariant ties the      *)
(* locals of the one call inside the transaction to the last row of the     *)
(* table, which nobody else can append to while it holds the lock.  So the  *)
(* table implements AuditLog.                                               *)
(*                                                                          *)
(* A data subject's deletion is complete and respects legal holds, and      *)
(* overlapping grants of a consent do not add up.                           *)
(***************************************************************************)
EXTENDS AuditChain, DataSubject, FiniteSetTheorems, TLAPS

-----------------------------------------------------------------------------
(* The audit chain.                                                         *)

(* A call inside the transaction is the holder of its tenant's lock.        *)
LockInv ==
  \A c \in Calls :
    /\ pc[c] \in InTransaction \cup {"incr", "lock"} => TenantOf[c] \in Tenants
    /\ pc[c] \in InTransaction => lock[TenantOf[c]] = c

(* A row carries the hash of a finished call of its own tenant.             *)
HashInv ==
  \A r \in rows : pc[r.hash] = "done" /\ TenantOf[r.hash] = r.tenant

(* prev_max and seq stay exact from the read to the insert.                 *)
MaxInv ==
  \A c \in Calls : pc[c] \in {"last", "insert"} =>
    /\ prevMax[c] < seq[c]
    /\ \A q \in RowsOf(TenantOf[c]) : q.seq <= prevMax[c]
    /\ prevMax[c] = 0 => RowsOf(TenantOf[c]) = {}

(* The hash about to be linked is the one of the last row.                  *)
PrevInv ==
  \A c \in Calls : pc[c] = "insert" =>
    \/ prevHash[c] = Genesis /\ RowsOf(TenantOf[c]) = {}
    \/ \E p \in RowsOf(TenantOf[c]) :
         /\ p.hash = prevHash[c]
         /\ \A q \in RowsOf(TenantOf[c]) : q.seq <= p.seq

AuditInv ==
  /\ AuditTypeOK
  /\ LockInv
  /\ HashInv
  /\ MaxInv
  /\ PrevInv
  /\ LinearChain
  /\ AcknowledgedIsDurable

(* Without the lock's holder in the transaction, nothing is inconsistent.   *)
LEMMA InitAuditInv == AuditInit => AuditInv
  BY AuditAssumption
  DEF AuditInit, AuditInv, AuditTypeOK, LockInv, HashInv, MaxInv, PrevInv, LinearChain,
      AcknowledgedIsDurable, RowsOf, AuditStages, InTransaction

(* A step that touches no row and no lock, and moves no call into the       *)
(* transaction, preserves the invariant.                                    *)
LEMMA OutsideStep ==
  ASSUME AuditInv, NEW c \in Calls, UNCHANGED <<lock, rows, result>>,
         AuditTypeOK', pc[c] \notin InTransaction, pc[c] # "done",
         pc' = [pc EXCEPT ![c] = pc'[c]], pc'[c] \in {"incr", "lock", "done"},
         pc'[c] # "done" => TenantOf[c] \in Tenants,
         \A d \in Calls \ {c} : /\ seq'[d] = seq[d]
                                /\ prevMax'[d] = prevMax[d]
                                /\ prevHash'[d] = prevHash[d]
  PROVE  AuditInv'
<1> USE DEF RowsOf, AuditStages, InTransaction
<1>1. LockInv'
  BY DEF AuditInv, AuditTypeOK, LockInv
<1>2. HashInv'
  BY DEF AuditInv, AuditTypeOK, HashInv, Row
<1>3. MaxInv'
  BY DEF AuditInv, AuditTypeOK, MaxInv
<1>4. PrevInv'
  BY DEF AuditInv, AuditTypeOK, PrevInv
<1>5. LinearChain' /\ AcknowledgedIsDurable'
  BY DEF AuditInv, LinearChain, AcknowledgedIsDurable
<1> QED
  BY <1>1, <1>2, <1>3, <1>4, <1>5 DEF AuditInv

(* Taking the lock: it was free, so no call of this tenant is inside.       *)
LEMMA AcquireStep ==
  ASSUME AuditInv, NEW c \in Calls, AcquireLock(c)
  PROVE  AuditInv'
<1> USE AuditAssumption DEF AcquireLock, Goto, locals, RowsOf, InTransaction
<1>1. AuditTypeOK'
  BY DEF AuditInv, AuditTypeOK, LockInv, AuditStages
<1>2. LockInv'
  BY DEF AuditInv, AuditTypeOK, LockInv
<1>3. HashInv' /\ MaxInv' /\ PrevInv'
  BY DEF AuditInv, AuditTypeOK, HashInv, MaxInv, PrevInv, Row
<1>4. LinearChain' /\ AcknowledgedIsDurable'
  BY DEF AuditInv, LinearChain, AcknowledgedIsDurable
<1> QED
  BY <1>1, <1>2, <1>3, <1>4 DEF AuditInv

LEMMA ReadMaxStep ==
  ASSUME AuditInv, NEW c \in Calls, ReadMax(c)
  PROVE  AuditInv'
<1> USE AuditAssumption DEF ReadMax, Goto, RowsOf, InTransaction
<1>1. prevMax'[c] \in Nat /\ seq'[c] \in Nat /\ prevMax'[c] < seq'[c]
  BY DEF AuditInv, AuditTypeOK, Row, IsLast, NumberRow
<1>2. AuditTypeOK'
  BY <1>1 DEF AuditInv, AuditTypeOK, AuditStages
<1>3. LockInv' /\ HashInv'
  BY DEF AuditInv, AuditTypeOK, LockInv, HashInv, Row
<1>4. MaxInv'
  <2> SUFFICES ASSUME NEW d \in Calls, pc'[d] \in {"last", "insert"}
               PROVE  /\ prevMax'[d] < seq'[d]
                      /\ \A q \in RowsOf(TenantOf[d])' : q.seq <= prevMax'[d]
                      /\ prevMax'[d] = 0 => RowsOf(TenantOf[d])' = {}
    BY DEF MaxInv
  <2>1. CASE d = c
    BY <1>1, <2>1 DEF AuditInv, AuditTypeOK, Row, IsLast
  <2>2. CASE d # c
    BY <2>2 DEF AuditInv, AuditTypeOK, MaxInv
  <2> QED
    BY <2>1, <2>2
<1>5. PrevInv' /\ LinearChain' /\ AcknowledgedIsDurable'
  BY DEF AuditInv, AuditTypeOK, PrevInv, LinearChain, AcknowledgedIsDurable
<1> QED
  BY <1>2, <1>3, <1>4, <1>5 DEF AuditInv

LEMMA ReadLastStep ==
  ASSUME AuditInv, NEW c \in Calls, ReadLast(c)
  PROVE  AuditInv'
<1> USE AuditAssumption DEF ReadLast, Goto, RowsOf, InTransaction
<1>1. AuditTypeOK'
  BY DEF AuditInv, AuditTypeOK, AuditStages, Row, IsLast
<1>2. LockInv' /\ HashInv' /\ MaxInv'
  BY DEF AuditInv, AuditTypeOK, LockInv, HashInv, MaxInv, Row
<1>3. PrevInv'
  <2> SUFFICES ASSUME NEW d \in Calls, pc'[d] = "insert"
               PROVE  \/ prevHash'[d] = Genesis /\ RowsOf(TenantOf[d])' = {}
                      \/ \E p \in RowsOf(TenantOf[d])' :
                           /\ p.hash = prevHash'[d]
                           /\ \A q \in RowsOf(TenantOf[d])' : q.seq <= p.seq
    BY DEF PrevInv
  <2>1. CASE d = c
    BY <2>1 DEF AuditInv, AuditTypeOK, MaxInv, IsLast
  <2>2. CASE d # c
    BY <2>2 DEF AuditInv, AuditTypeOK, PrevInv
  <2> QED
    BY <2>1, <2>2
<1>4. LinearChain' /\ AcknowledgedIsDurable'
  BY DEF AuditInv, LinearChain, AcknowledgedIsDurable
<1> QED
  BY <1>1, <1>2, <1>3, <1>4 DEF AuditInv

(* A rollback leaves the table as it was and frees the caller's own lock.   *)
LEMMA RollbackStep ==
  ASSUME AuditInv, NEW c \in Calls, Rollback(c)
  PROVE  AuditInv'
<1> USE AuditAssumption DEF Rollback, Return, Release, RowsOf, InTransaction
<1>1. AuditTypeOK'
  BY DEF AuditInv, AuditTypeOK, AuditStages
<1>2. LockInv'
  BY DEF AuditInv, AuditTypeOK, LockInv
<1>3. HashInv' /\ MaxInv' /\ PrevInv'
  BY DEF AuditInv, AuditTypeOK, HashInv, MaxInv, PrevInv, Row
<1>4. LinearChain' /\ AcknowledgedIsDurable'
  BY DEF AuditInv, LinearChain, AcknowledgedIsDurable
<1> QED
  BY <1>1, <1>2, <1>3, <1>4 DEF AuditInv

(* The new row goes on top of its tenant's chain; no other call of that     *)
(* tenant is inside the transaction, so nobody's reads are outdated by it.  *)
LEMMA CommitStep ==
  ASSUME AuditInv, NEW c \in Calls, Commit(c)
  PROVE  AuditInv' /\ \A r \in rows' \ rows : \A q \in RowsOf(r.tenant) : q.seq < r.seq
<1> USE AuditAssumption DEF Commit, Return, Release, InTransaction
<1> DEFINE t == TenantOf[c]
           n == NewRow(c)
<1>1. /\ t \in Tenants
      /\ n \in Row
      /\ n.tenant = t /\ n.hash = c /\ n.seq = seq[c] /\ n.prev = prevHash[c]
      /\ rows' = rows \cup {n}
  BY DEF AuditInv, AuditTypeOK, LockInv, MaxInv, NewRow, Row
<1>2. AuditTypeOK'
  BY <1>1 DEF AuditInv, AuditTypeOK, AuditStages
<1>3. LockInv'
  BY <1>1 DEF AuditInv, AuditTypeOK, LockInv
<1>4. HashInv'
  BY <1>1 DEF AuditInv, AuditTypeOK, HashInv, Row
<1>5. \A d \in Calls : pc'[d] \in {"last", "insert"} =>
        /\ d # c /\ pc[d] = pc'[d]
        /\ RowsOf(TenantOf[d])' = RowsOf(TenantOf[d])
        /\ prevMax'[d] = prevMax[d] /\ seq'[d] = seq[d] /\ prevHash'[d] = prevHash[d]
  <2> SUFFICES ASSUME NEW d \in Calls, pc'[d] \in {"last", "insert"}
               PROVE  /\ d # c /\ pc[d] = pc'[d]
                      /\ RowsOf(TenantOf[d])' = RowsOf(TenantOf[d])
                      /\ prevMax'[d] = prevMax[d] /\ seq'[d] = seq[d]
                      /\ prevHash'[d] = prevHash[d]
    OBVIOUS
  <2>1. d # c /\ pc[d] = pc'[d]
    BY DEF AuditInv, AuditTypeOK
  <2>2. TenantOf[d] # t
    BY <2>1 DEF AuditInv, LockInv
  <2>3. RowsOf(TenantOf[d])' = RowsOf(TenantOf[d])
    BY <1>1, <2>2 DEF RowsOf
  <2> QED
    BY <2>1, <2>3 DEF AuditInv, AuditTypeOK
<1>6. MaxInv' /\ PrevInv'
  BY <1>5 DEF AuditInv, MaxInv, PrevInv
<1>7. \A q \in RowsOf(t) : q.seq < n.seq
  BY <1>1 DEF AuditInv, AuditTypeOK, MaxInv, RowsOf, Row
<1>8. RowsOf(t)' = RowsOf(t) \cup {n} /\ \A u \in Tenants \ {t} : RowsOf(u)' = RowsOf(u)
  BY <1>1 DEF RowsOf
<1>9. LinearChain'
  <2> SUFFICES ASSUME NEW u \in Tenants, NEW r \in RowsOf(u)'
               PROVE  \/ r.prev = Genesis /\ \A q \in RowsOf(u)' : r.seq <= q.seq
                      \/ \E p \in RowsOf(u)' :
                           /\ r.prev = p.hash
                           /\ p.seq < r.seq
                           /\ \A q \in RowsOf(u)' : q.seq <= p.seq \/ r.seq <= q.seq
    BY DEF LinearChain
  <2>0. RowsOf(u) \subseteq Row
    BY DEF AuditInv, AuditTypeOK, RowsOf
  <2>1. CASE u # t
    BY <1>8, <2>1 DEF AuditInv, LinearChain
  <2>2. CASE u = t /\ r # n
    <3>1. r \in RowsOf(t)
      BY <1>8, <2>2
    <3> QED
      BY <1>1, <1>7, <1>8, <2>0, <2>2, <3>1 DEF AuditInv, LinearChain, Row
  <2>3. CASE u = t /\ r = n
    BY <1>1, <1>7, <1>8, <2>0, <2>3 DEF AuditInv, PrevInv, Row
  <2> QED
    BY <2>1, <2>2, <2>3
<1>10. AcknowledgedIsDurable'
  BY <1>1 DEF AuditInv, AuditTypeOK, AcknowledgedIsDurable
<1>11. \A r \in rows' \ rows : \A q \in RowsOf(r.tenant) : q.seq < r.seq
  BY <1>1, <1>7
<1> QED
  BY <1>2, <1>3, <1>4, <1>6, <1>9, <1>10, <1>11 DEF AuditInv
-----------------------------------------------------------------------------
(* Every step preserves the invariant, and only a commit adds rows.         *)
LEMMA StepAuditInv ==
  ASSUME AuditInv, [AuditNext]_auditVars
  PROVE  /\ AuditInv'
         /\ rows \subseteq rows'
         /\ \A r \in rows' \ rows : \A q \in RowsOf(r.tenant) : q.seq < r.seq
<1>1. ASSUME NEW c \in Calls, Respond(c) \/ Raise(c) \/ Incr(c) \/ IncrFails(c) \/ NoSession(c)
      PROVE  AuditInv' /\ rows' = rows
  <2> USE AuditAssumption
      DEF Respond, Raise, Incr, IncrFails, NoSession, Goto, Return, locals, InTransaction
  <2>1. AuditTypeOK'
    BY <1>1 DEF AuditInv, AuditTypeOK, LockInv, AuditStages
  <2>2. /\ UNCHANGED <<lock, rows, result>>
        /\ pc[c] \notin InTransaction /\ pc[c] # "done"
        /\ pc' = [pc EXCEPT ![c] = pc'[c]]
        /\ pc'[c] \in {"incr", "lock", "done"}
        /\ pc'[c] # "done" => TenantOf[c] \in Tenants
    BY <1>1 DEF AuditInv, AuditTypeOK, LockInv
  <2>3. \A d \in Calls \ {c} : /\ seq'[d] = seq[d]
                               /\ prevMax'[d] = prevMax[d]
                               /\ prevHash'[d] = prevHash[d]
    BY <1>1 DEF AuditInv, AuditTypeOK
  <2> QED
    BY <2>1, <2>2, <2>3, OutsideStep
<1>2. ASSUME NEW c \in Calls,
             AcquireLock(c) \/ ReadMax(c) \/ ReadLast(c) \/ Rollback(c)
      PROVE  AuditInv' /\ rows' = rows
  <2>1. AuditInv'
    BY <1>2, AcquireStep, ReadMaxStep, ReadLastStep, RollbackStep
  <2> QED
    BY <1>2, <2>1 DEF AcquireLock, ReadMax, ReadLast, Rollback
<1>3. ASSUME NEW c \in Calls, Commit(c)
      PROVE  /\ AuditInv'
             /\ rows \subseteq rows'
             /\ \A r \in rows' \ rows : \A q \in RowsOf(r.tenant) : q.seq < r.seq
  BY <1>3, CommitStep DEF Commit
<1>4. ASSUME NEW t \in Tenants, RedisFlush(t)
      PROVE  AuditInv' /\ rows' = rows
  BY <1>4
  DEF RedisFlush, AuditInv, AuditTypeOK, LockInv, HashInv, MaxInv, PrevInv, LinearChain,
      AcknowledgedIsDurable, RowsOf, InTransaction, locals
<1>5. CASE UNCHANGED auditVars
  BY <1>5
  DEF auditVars, AuditInv, AuditTypeOK, LockInv, HashInv, MaxInv, PrevInv, LinearChain,
      AcknowledgedIsDurable, RowsOf, InTransaction
<1> QED
  BY <1>1, <1>2, <1>3, <1>4, <1>5 DEF AuditNext, Step, Proceed, auditVars

LEMMA AuditInvariance == AuditSpec => []AuditInv
<1>1. AuditInv /\ [AuditNext]_auditVars => AuditInv'
  BY StepAuditInv
<1> QED
  BY InitAuditInv, <1>1, PTL DEF AuditSpec

(* The tables and the locals always have their types.                       *)
THEOREM AuditTypeCorrect == AuditSpec => []AuditTypeOK
<1>1. AuditInv => AuditTypeOK
  BY DEF AuditInv
<1> QED
  BY <1>1, AuditInvariance, PTL

(* However many writers run, the rows of a tenant form one chain: record_   *)
(* audit_event's lock and calibration never fork or break it.               *)
THEOREM ChainIsLinear == AuditSpec => []LinearChain
<1>1. AuditInv => LinearChain
  BY DEF AuditInv
<1> QED
  BY <1>1, AuditInvariance, PTL

(* The unique index on (tenant_id, sequence_no) never refuses a row.        *)
THEOREM NeverConflicts == AuditSpec => []NoSequenceConflict
<1>1. AuditInv => NoSequenceConflict
  BY DEF AuditInv, AuditTypeOK, MaxInv, NoSequenceConflict, Conflicts, RowsOf, Row
<1> QED
  BY <1>1, AuditInvariance, PTL

(* Rows are only ever added, at the end of their tenant's chain.            *)
THEOREM LogIsAppendOnly == AuditSpec => AppendOnly
<1>1. AuditInv /\ [AuditNext]_auditVars =>
        [/\ rows \subseteq rows'
         /\ \A r \in rows' \ rows : \A q \in RowsOf(r.tenant) : q.seq < r.seq]_rows
  BY StepAuditInv
<1> QED
  BY <1>1, AuditInvariance, PTL DEF AuditSpec, AppendOnly

(* --- the table as a log                                                   *)

(* A row above all others takes the next place, and leaves the others'.     *)
LEMMA PlacesKept ==
  ASSUME NEW R \in SUBSET Row, IsFiniteSet(R), NEW n \in Row, \A q \in R : q.seq < n.seq
  PROVE  /\ Cardinality(R) \in Nat /\ Cardinality(R \cup {n}) = Cardinality(R) + 1
         /\ \A i \in 1..Cardinality(R) : EntriesAt(R \cup {n}, i) = EntriesAt(R, i)
         /\ EntriesAt(R \cup {n}, Cardinality(R) + 1) = {Entry(n)}
<1> DEFINE S == R \cup {n}
<1>1. n \notin R /\ n.seq \in Nat /\ \A q \in R : q.seq \in Nat
  BY DEF Row
<1>2. Cardinality(R) \in Nat /\ Cardinality(S) = Cardinality(R) + 1
  BY <1>1, FS_CardinalityType, FS_AddElement
<1>3. \A r \in R : Rank(S, r) = Rank(R, r) /\ Rank(R, r) <= Cardinality(R)
  <2> SUFFICES ASSUME NEW r \in R
               PROVE  Rank(S, r) = Rank(R, r) /\ Rank(R, r) <= Cardinality(R)
    OBVIOUS
  <2>1. {q \in S : q.seq <= r.seq} = {q \in R : q.seq <= r.seq}
    BY <1>1
  <2>2. {q \in R : q.seq <= r.seq} \subseteq R
    OBVIOUS
  <2> QED
    BY <2>1, <2>2, FS_Subset DEF Rank
<1>4. Rank(S, n) = Cardinality(R) + 1
  <2>1. {q \in S : q.seq <= n.seq} = S
    BY <1>1
  <2> QED
    BY <1>2, <2>1 DEF Rank
<1>5. ASSUME NEW i \in 1..Cardinality(R) PROVE EntriesAt(S, i) = EntriesAt(R, i)
  <2>1. {q \in S : Rank(S, q) = i} = {q \in R : Rank(R, q) = i}
    BY <1>2, <1>3, <1>4
  <2> QED
    BY <2>1 DEF EntriesAt
<1>6. EntriesAt(S, Cardinality(R) + 1) = {Entry(n)}
  <2>1. {q \in S : Rank(S, q) = Cardinality(R) + 1} = {n}
    <3>1. \A r \in R : Rank(S, r) # Cardinality(R) + 1
      <4> SUFFICES ASSUME NEW r \in R PROVE Rank(S, r) # Cardinality(R) + 1
        OBVIOUS
      <4>1. {q \in R : q.seq <= r.seq} \in SUBSET R
        OBVIOUS
      <4>2. Rank(R, r) \in Nat
        BY <4>1, FS_Subset, FS_CardinalityType DEF Rank
      <4> QED
        BY <1>2, <1>3, <4>2
    <3> QED
      BY <1>4, <3>1
  <2> QED
    BY <2>1 DEF EntriesAt
<1> QED
  BY <1>2, <1>5, <1>6

LEMMA InOrderGrows ==
  ASSUME NEW R \in SUBSET Row, IsFiniteSet(R), NEW n \in Row, \A q \in R : q.seq < n.seq
  PROVE  InOrder(R \cup {n}) = Append(InOrder(R), Entry(n))
<1>1. PICK k : k = Cardinality(R)
  OBVIOUS
<1>2. PICK f : f = InOrder(R)
  OBVIOUS
<1>3. PICK g : g = InOrder(R \cup {n})
  OBVIOUS
<1>4. k \in Nat /\ f = [i \in 1..k |-> CHOOSE e \in EntriesAt(R, i) : TRUE]
  BY <1>1, <1>2, PlacesKept DEF InOrder
<1>5. g = [i \in 1..(k + 1) |-> CHOOSE e \in EntriesAt(R \cup {n}, i) : TRUE]
  BY <1>1, <1>3, PlacesKept DEF InOrder
<1>6. \A i \in 1..k : g[i] = f[i]
  <2> SUFFICES ASSUME NEW i \in 1..k PROVE g[i] = f[i]
    OBVIOUS
  <2>1. i \in 1..(k + 1)
    BY <1>4
  <2>2. EntriesAt(R \cup {n}, i) = EntriesAt(R, i)
    BY <1>1, PlacesKept
  <2>3. g[i] = CHOOSE e \in EntriesAt(R \cup {n}, i) : TRUE
    BY <1>5, <2>1
  <2>4. f[i] = CHOOSE e \in EntriesAt(R, i) : TRUE
    BY <1>4
  <2> QED
    BY <2>2, <2>3, <2>4, Zenon
<1>7. g[k + 1] = Entry(n)
  <2>1. EntriesAt(R \cup {n}, k + 1) = {Entry(n)}
    BY <1>1, PlacesKept
  <2>2. k + 1 \in 1..(k + 1)
    BY <1>4
  <2> QED
    BY <1>5, <2>1, <2>2
<1>8. f \in Seq({f[i] : i \in 1..k}) /\ Len(f) = k
  <2>1. f \in [1..k -> {f[i] : i \in 1..k}]
    BY <1>4
  <2> QED
    BY <1>4, <2>1
<1>9. Append(f, Entry(n)) = [i \in 1..(k + 1) |-> IF i = k + 1 THEN Entry(n) ELSE f[i]]
  BY <1>4, <1>8
<1>10. g = [i \in 1..(k + 1) |-> IF i = k + 1 THEN Entry(n) ELSE f[i]]
  <2>1. \A i \in 1..(k + 1) : i # k + 1 => i \in 1..k
    BY <1>4
  <2> QED
    BY <1>4, <1>5, <1>6, <1>7, <2>1
<1> QED
  BY <1>2, <1>3, <1>9, <1>10

(* A tenant's list is made of its rows, and ends with the highest.          *)
Logged(R) ==
  /\ IsFiniteSet(R)
  /\ InOrder(R) \in Seq([call : Calls, prev : Calls \cup {Genesis}])
  /\ InOrder(R) = << >> <=> R = {}
  /\ \A i \in 1..Len(InOrder(R)) : \E r \in R : InOrder(R)[i] = Entry(r)
  /\ \A p \in R : (\A q \in R : q.seq <= p.seq) => InOrder(R)[Len(InOrder(R))] = Entry(p)

LEMMA NothingLogged == Logged({}) /\ InOrder({}) = << >>
<1>1. Cardinality({}) = 0 /\ IsFiniteSet({})
  BY FS_EmptySet
<1>2. InOrder({}) = << >>
  BY <1>1 DEF InOrder
<1>3. PICK f : f = InOrder({})
  OBVIOUS
<1>4. f = << >>
  BY <1>2, <1>3
<1>5. f \in Seq([call : Calls, prev : Calls \cup {Genesis}]) /\ Len(f) = 0
  BY <1>4
<1>6. \A i \in 1..Len(f) : FALSE
  BY <1>5
<1>7. /\ IsFiniteSet({})
      /\ f = << >> <=> {} = {}
      /\ \A i \in 1..Len(f) : \E r \in {} : f[i] = Entry(r)
      /\ \A p \in {} : (\A q \in {} : q.seq <= p.seq) => f[Len(f)] = Entry(p)
  <2>1. f = << >> <=> {} = {}
    BY <1>4
  <2> QED
    BY <1>1, <1>6, <2>1, Zenon
<1> QED
  BY <1>2, <1>3, <1>5, <1>7, Zenon DEF Logged

LEMMA MoreLogged ==
  ASSUME NEW R \in SUBSET Row, Logged(R), NEW n \in Row, \A q \in R : q.seq < n.seq
  PROVE  Logged(R \cup {n})
<1>1. PICK f : f = InOrder(R)
  OBVIOUS
<1>2. PICK g : g = InOrder(R \cup {n})
  OBVIOUS
<1>3. g = Append(f, Entry(n))
  BY <1>1, <1>2, InOrderGrows DEF Logged
<1>4. f \in Seq([call : Calls, prev : Calls \cup {Genesis}]) /\ Len(f) \in Nat
  BY <1>1 DEF Logged
<1>5. Entry(n) \in [call : Calls, prev : Calls \cup {Genesis}]
  BY DEF Entry, Row
<1>6. /\ g \in Seq([call : Calls, prev : Calls \cup {Genesis}]) /\ Len(g) = Len(f) + 1
      /\ \A i \in 1..Len(f) : g[i] = f[i]
      /\ g[Len(g)] = Entry(n) /\ g # << >>
  BY <1>3, <1>4, <1>5
<1>7. IsFiniteSet(R \cup {n})
  BY FS_AddElement DEF Logged
<1>8. ASSUME NEW i \in 1..Len(g) PROVE \E r \in R \cup {n} : g[i] = Entry(r)
  <2>1. CASE i = Len(g)
    BY <1>6, <2>1
  <2>2. CASE i # Len(g)
    <3>1. i \in 1..Len(f) /\ g[i] = f[i]
      BY <1>4, <1>6, <2>2
    <3> QED
      BY <1>1, <3>1 DEF Logged
  <2> QED
    BY <2>1, <2>2
<1>9. ASSUME NEW p \in R \cup {n}, \A q \in R \cup {n} : q.seq <= p.seq PROVE p = n
  <2>1. n.seq <= p.seq /\ n.seq \in Nat /\ p.seq \in Nat
    BY <1>9 DEF Row
  <2> QED
    BY <2>1
<1> QED
  BY <1>2, <1>6, <1>7, <1>8, <1>9 DEF Logged

LogInv == \A t \in Tenants : Logged(RowsOf(t))

(* Only a commit changes what is logged, by one entry behind the last one.  *)
LEMMA RecordsOrRests ==
  ASSUME AuditInv, LogInv, [AuditNext]_auditVars
  PROVE  /\ LogInv'
         /\ Log!Next \/ UNCHANGED <<LogOfTenants, result>>
<1>1. ASSUME UNCHANGED <<rows, result>>
      PROVE  LogInv' /\ UNCHANGED <<LogOfTenants, result>>
  <2>1. \A t \in Tenants : RowsOf(t)' = RowsOf(t)
    BY <1>1 DEF RowsOf
  <2> QED
    BY <1>1, <2>1 DEF LogInv, LogOfTenants
<1>2. ASSUME NEW c \in Calls, Commit(c)
      PROVE  LogInv' /\ Log!Next
  <2> DEFINE n == NewRow(c)
  <2>1. PICK t : t = TenantOf[c]
    OBVIOUS
  <2>2. PICK R : R = RowsOf(t)
    OBVIOUS
  <2>3. /\ pc[c] = "insert" /\ t \in Tenants
        /\ n \in Row /\ n.tenant = t /\ n.hash = c /\ n.seq = seq[c] /\ n.prev = prevHash[c]
        /\ rows' = rows \cup {n} /\ rows \subseteq Row
    BY <1>2, <2>1 DEF Commit, AuditInv, AuditTypeOK, LockInv, MaxInv, NewRow, Row, InTransaction
  <2>4. R \in SUBSET Row /\ \A q \in R : q.seq < n.seq
    BY <2>1, <2>2, <2>3 DEF AuditInv, AuditTypeOK, MaxInv, RowsOf, Row
  <2>5. Logged(R)
    BY <2>2, <2>3 DEF LogInv
  <2> HIDE DEF n
  <2>6. RowsOf(t)' = R \cup {n} /\ \A u \in Tenants \ {t} : RowsOf(u)' = RowsOf(u)
    BY <2>2, <2>3 DEF RowsOf
  <2>7. LogInv'
    <3>1. Logged(R \cup {n})
      BY <2>3, <2>4, <2>5, MoreLogged
    <3> QED
      BY <2>5, <2>6, <3>1 DEF LogInv
  <2>8. LogOfTenants' = [LogOfTenants EXCEPT ![t] = Append(@, Entry(n))]
    <3>1. InOrder(R \cup {n}) = Append(InOrder(R), Entry(n))
      BY <2>3, <2>4, <2>5, InOrderGrows DEF Logged
    <3>2. \A u \in Tenants : InOrder(RowsOf(u))' = InOrder(RowsOf(u)')
      BY DEF InOrder, EntriesAt, Rank, Entry
    <3>3. LogOfTenants' = [u \in Tenants |-> InOrder(RowsOf(u)')]
      BY <3>2 DEF LogOfTenants
    <3>4. LogOfTenants = [u \in Tenants |-> InOrder(RowsOf(u))]
      BY DEF LogOfTenants
    <3> QED
      BY <2>2, <2>3, <2>6, <3>1, <3>3, <3>4
  <2>9. PICK f : f = InOrder(R) /\ LogOfTenants[t] = f
    BY <2>2, <2>3 DEF LogOfTenants
  <2>10. \A i \in DOMAIN f : f[i].call # c
    <3>1. \A r \in R : r.hash # c
      BY <2>2, <2>3 DEF RowsOf, AuditInv, HashInv
    <3>2. \A i \in 1..Len(f) : \E r \in R : f[i] = Entry(r)
      BY <2>5, <2>9 DEF Logged
    <3>3. DOMAIN f = 1..Len(f)
      BY <2>5, <2>9 DEF Logged
    <3> QED
      BY <3>1, <3>2, <3>3 DEF Entry
  <2>11. prevHash[c] = Log!LastCall(f)
    <3>1. CASE R = {}
      <4>1. prevHash[c] = Genesis
        BY <2>1, <2>2, <2>3, <3>1 DEF AuditInv, PrevInv
      <4>2. f = << >>
        BY <2>5, <2>9, <3>1 DEF Logged
      <4> QED
        BY <4>1, <4>2 DEF Log!LastCall
    <3>2. CASE R # {}
      <4>1. PICK p \in R : p.hash = prevHash[c] /\ \A q \in R : q.seq <= p.seq
        BY <2>1, <2>2, <2>3, <3>2 DEF AuditInv, PrevInv
      <4>2. f[Len(f)] = Entry(p) /\ f # << >>
        BY <2>5, <2>9, <3>2, <4>1 DEF Logged
      <4> QED
        BY <4>1, <4>2 DEF Log!LastCall, Entry
    <3> QED
      BY <3>1, <3>2
  <2>12. Entry(n) = [call |-> c, prev |-> Log!LastCall(LogOfTenants[t])]
    BY <2>3, <2>9, <2>11 DEF Entry
  <2>13. Log!Record(t, c)
    BY <1>2, <2>1, <2>8, <2>9, <2>10, <2>12 DEF Log!Record, Commit
  <2> QED
    BY <2>3, <2>7, <2>13 DEF Log!Next
<1>3. ASSUME ~ \E c \in Calls : Commit(c)
      PROVE  UNCHANGED <<rows, result>>
  BY <1>3
  DEF AuditNext, auditVars, Step, Proceed, Respond, Raise, Incr, IncrFails, AcquireLock,
      ReadMax, ReadLast, Rollback, NoSession, RedisFlush
<1> QED
  BY <1>1, <1>2, <1>3

(* With any number of calls, tenants, failures and flushes the table        *)
(* implements AuditLog: initial states map to its initial state, and a step *)
(* of the code to the append of one entry or to none.                       *)
THEOREM TableIsALog == AuditSpec => ImplementsAuditLog
<1>1. AuditInit => LogInv /\ Log!Init
  <2> SUFFICES ASSUME AuditInit PROVE LogInv /\ Log!Init
    OBVIOUS
  <2>1. \A t \in Tenants : RowsOf(t) = {}
    BY DEF AuditInit, RowsOf
  <2> QED
    BY <2>1, NothingLogged DEF AuditInit, LogInv, LogOfTenants, Log!Init
<1>2. AuditInv /\ LogInv /\ [AuditNext]_auditVars => LogInv' /\ [Log!Next]_(Log!vars)
  BY RecordsOrRests DEF Log!vars
<1> QED
  BY <1>1, <1>2, AuditInvariance, PTL DEF AuditSpec, ImplementsAuditLog, Log!Spec

(* A hash returned by record_audit_event names a committed row.             *)
THEOREM ReturnedHashIsDurable == AuditSpec => []AcknowledgedIsDurable
<1>1. AuditInv => AcknowledgedIsDurable
  BY DEF AuditInv
<1> QED
  BY <1>1, AuditInvariance, PTL

-----------------------------------------------------------------------------
(* The rights of data subjects.                                             *)

(* An explanation that is not unseen has its score, and a deletion that has *)
(* read the score has found it; an entry from before a deletion is a key the*)
(* cleaning still sees.                                                     *)
ErasureInv ==
  /\ \A x \in Txs : shap[x] = "explained" => x \in scores
  /\ \A q \in Requests : \A x \in marking[q] : shap[x] = "explained" => x \in removing[q]
  /\ \A x \in Txs : row[x] = "deleted" /\ cached[x] = "before" =>
       \E q \in Requests :
         \/ task[q] # "clean" /\ q \in dirty
         \/ x \in todo[q]
  /\ \A q \in Requests : task[q] \in {"scan", "clean"} => q \in dirty

-----------------------------------------------------------------------------
LEMMA InitType == Init => TypeOK
<1> SUFFICES ASSUME Init PROVE TypeOK
  OBVIOUS
<1>1. /\ granted \in Nat /\ granting \in 0..MaxGrants /\ together \in 0..MaxGrants
      /\ runs \in [Requests -> 0..MaxRuns]
  BY DataSubjectAssumption DEF Init
<1>2. /\ task \in [Requests -> Stages]
      /\ \A q \in Requests : task[q] = "none" <=> request[q] = "none"
  BY DEF Init, Stages
<1>3. /\ todo \in [Requests -> SUBSET Txs]
      /\ \A q \in Requests : todo[q] # {} => task[q] = "clean"
  BY DEF Init
<1>4. /\ marking \in [Requests -> SUBSET Txs] /\ removing \in [Requests -> SUBSET Txs]
      /\ \A q \in Requests : removing[q] \subseteq marking[q]
      /\ \A q \in Requests : \A x \in marking[q] : task[q] = "commit" /\ row[x] # "none"
      /\ late \in [Requests -> SUBSET Reports]
  BY DEF Init
<1> QED
  BY <1>1, <1>2, <1>3, <1>4 DEF Init, TypeOK

LEMMA TypeStep == TypeOK /\ [Next]_vars => TypeOK'
<1> SUFFICES ASSUME TypeOK, [Next]_vars PROVE TypeOK'
  OBVIOUS
<1> USE DataSubjectAssumption
<1> USE DEF tables, stored, redis, requests, consents, deletion, worker, TypeOK
<1>1. ASSUME NEW r \in Reports, FileReport(r) \/ DecideReport(r) PROVE TypeOK'
  <2>1. late' \in [Requests -> SUBSET Reports]
    BY <1>1 DEF FileReport, DecideReport
  <2> QED
    BY <1>1, <2>1 DEF FileReport, DecideReport
<1>2. ASSUME NEW x \in Txs, Persist(x) PROVE TypeOK'
  BY <1>2 DEF Persist
<1>3. ASSUME NEW x \in Txs, \/ CacheScore(x) \/ ExpireCache(x)
                            \/ LoadScore(x) \/ InsertShap(x)
      PROVE  TypeOK'
  BY <1>3 DEF CacheScore, ExpireCache, LoadScore, InsertShap
<1>4. CASE BeginGrant \/ EndGrant \/ Withdraw
  BY <1>4 DEF BeginGrant, EndGrant, Withdraw
<1>5. CASE ExportData
  BY <1>5 DEF ExportData
<1>6. ASSUME NEW q \in Rectifications, RequestRectification(q) \/ RectifyData(q)
      PROVE  TypeOK'
  BY <1>6 DEF RequestRectification, RectifyData
<1>7. ASSUME NEW q \in Requests, RequestDeletion(q) PROVE TypeOK'
  BY <1>7 DEF RequestDeletion, Become, Stages, Running
<1>8. ASSUME NEW q \in Requests, Send(q) PROVE TypeOK'
  BY <1>8 DEF Send, Become, Stages, Running
<1>9. ASSUME NEW q \in Requests, Work(q) PROVE TypeOK'
  <2> USE DEF Become, Stages, Running
  <2>1. CASE Receive(q)
    BY <2>1 DEF Receive
  <2>2. CASE CheckHolds(q)
    BY <2>2 DEF CheckHolds
  <2>3. CASE Block(q)
    BY <2>3 DEF Block
  <2>4. CASE Read(q)
    BY <2>4 DEF Read
  <2>5. CASE Erase(q)
    <3>1. /\ row' \in [Txs -> {"none", "stored", "deleted"}]
          /\ \A x \in Txs : row'[x] = "none" <=> row[x] = "none"
          /\ \A x \in Txs : row'[x] # "stored" /\ row[x] = "stored" => x \in marking[q]
      BY <2>5 DEF Erase, EraseRows
    <3>2. /\ scores' \subseteq {x \in Txs : row'[x] = "stored"}
          /\ copies' \subseteq {x \in Txs : row'[x] # "none"}
      BY <2>5, <3>1 DEF Erase, EraseRows
    <3>3. shap' \in [Txs -> {"none", "explained", "unseen"}]
      BY <2>5 DEF Erase
    <3> QED
      BY <2>5, <3>1, <3>2, <3>3 DEF Erase, EraseRows, Forget
  <2>6. CASE EraseFails(q)
    BY <2>6 DEF EraseFails, Forget
  <2>7. CASE Scan(q)
    BY <2>7 DEF Scan
  <2>8. CASE CleanDone(q) \/ CleanFails(q)
    BY <2>8 DEF CleanDone, CleanFails
  <2>9. CASE Crash(q)
    BY <2>9 DEF Crash, Forget
  <2>10. ASSUME NEW x \in Txs, CleanKey(q, x) PROVE TypeOK'
    BY <2>10 DEF CleanKey
  <2> QED
    BY <1>9, <2>1, <2>2, <2>3, <2>4, <2>5, <2>6, <2>7, <2>8, <2>9, <2>10 DEF Work
<1>10. CASE UNCHANGED vars
  BY <1>10 DEF vars
<1> QED
  BY <1>1, <1>2, <1>3, <1>4, <1>5, <1>6, <1>7, <1>8, <1>9, <1>10 DEF Next

(* Every state has its type: a score has its stored transaction, an export  *)
(* holds only transactions that exist, a message has its request.           *)
THEOREM DataSubjectTypeCorrect == Spec => []TypeOK
  BY InitType, TypeStep, PTL DEF Spec

-----------------------------------------------------------------------------
(* A grant looks when there is no consent, so what the grants in flight can *)
(* still add and what is granted come from those it was in flight with.     *)
ConsentInv == granted + granting <= together

THEOREM OverlapsDoNotAddUp == Spec => []ConsentsDoNotAddUp
<1>1. Init => ConsentInv
  BY DEF Init, ConsentInv
<1>2. TypeOK /\ ConsentInv /\ [Next]_vars => ConsentInv'
  <2> SUFFICES ASSUME TypeOK, ConsentInv, [Next]_vars PROVE ConsentInv'
    OBVIOUS
  <2>1. granted \in Nat /\ granting \in Nat /\ together \in Nat
    BY DataSubjectAssumption DEF TypeOK
  <2>2. CASE BeginGrant
    BY <2>1, <2>2 DEF BeginGrant, ConsentInv, tables
  <2>3. CASE EndGrant \/ Withdraw
    BY <2>1, <2>3 DEF EndGrant, Withdraw, ConsentInv, consents
  <2>4. ASSUME NEW q \in Requests, Erase(q) PROVE ConsentInv'
    BY <2>1, <2>4 DEF Erase, EraseRows, ConsentInv, consents
  <2>5. CASE UNCHANGED <<granted, granting, together>>
    BY <2>5 DEF ConsentInv
  <2> QED
    BY <2>2, <2>3, <2>4, <2>5
    DEF Next, FileReport, DecideReport, Persist, CacheScore, ExpireCache, LoadScore,
        InsertShap, ExportData, RequestRectification, RectifyData, RequestDeletion, Send,
        Work, Receive, CheckHolds, Block, Read, EraseFails, Scan, CleanKey, CleanDone,
        CleanFails, Crash, vars, tables, stored, redis, requests, consents, worker
<1>3. TypeOK /\ ConsentInv => ConsentsDoNotAddUp
  BY DataSubjectAssumption DEF TypeOK, ConsentInv, ConsentsDoNotAddUp
<1> QED
  BY <1>1, <1>2, <1>3, DataSubjectTypeCorrect, PTL DEF Spec

-----------------------------------------------------------------------------
(* The row of a report found through transactions or cases still leads to   *)
(* it, as rows are marked and never removed; what holds when a task may     *)
(* delete was filed after that task's check.                                *)
HoldsInv ==
  /\ \A r \in Reports : report[r] # "none" /\ link[r] # "subject" => SomeRow
  /\ \A q \in Requests \ waived : task[q] \in {"erase", "commit"} =>
       \A r \in Reports : Holding(r) => r \in late[q]

LEMMA HoldsStep == TypeOK /\ HoldsInv /\ [Next]_vars => HoldsInv'
<1> SUFFICES ASSUME TypeOK, HoldsInv, [Next]_vars PROVE HoldsInv'
  OBVIOUS
<1> USE DEF tables, stored, redis, requests, consents, deletion, worker
<1>1. SomeRow => SomeRow'
  <2>1. \A x \in Txs : row[x] # "none" => row'[x] # "none"
    BY DEF TypeOK, Next, FileReport, DecideReport, Persist, CacheScore, ExpireCache,
           LoadScore, InsertShap, BeginGrant, EndGrant, Withdraw, ExportData,
           RequestRectification, RectifyData, RequestDeletion, Send, Work, Receive,
           CheckHolds, Block, Read, Erase, EraseRows, EraseFails, Scan, CleanKey, CleanDone,
           CleanFails, Crash, vars
  <2> QED
    BY <2>1 DEF SomeRow
<1>2. ASSUME NEW r \in Reports, FileReport(r) PROVE HoldsInv'
  <2>1. UNCHANGED <<link, row, task, waived>>
    BY <1>2 DEF FileReport
  <2>2. /\ link[r] = "subject" \/ SomeRow
        /\ \A o \in Reports \ {r} : report'[o] = report[o]
    BY <1>2 DEF FileReport, TypeOK
  <2>3. \A q \in Requests :
          /\ late[q] \subseteq late'[q]
          /\ task[q] \in {"erase", "commit"} /\ q \notin waived => r \in late'[q]
    BY <1>2 DEF FileReport, TypeOK
  <2> QED
    BY <1>1, <2>1, <2>2, <2>3 DEF HoldsInv, Holding
<1>3. ASSUME NEW r \in Reports, DecideReport(r) PROVE HoldsInv'
  <2>1. /\ UNCHANGED <<link, row, task, late, waived>>
        /\ \A o \in Reports \ {r} : report'[o] = report[o]
        /\ report[r] # "none" /\ Holding(r)
    BY <1>3 DEF DecideReport, Holding, TypeOK
  <2> QED
    BY <1>1, <2>1 DEF HoldsInv, Holding
<1>4. ASSUME NEW q \in Requests, CheckHolds(q) PROVE HoldsInv'
  <2>1. UNCHANGED <<link, report, row, late, waived>>
    BY <1>4 DEF CheckHolds
  <2>2. \A p \in Requests \ {q} : task'[p] = task[p]
    BY <1>4 DEF CheckHolds, Become, TypeOK
  <2>3. task'[q] \in {"erase", "commit"} => ActiveHolds = {}
    BY <1>4 DEF CheckHolds, Become, TypeOK
  <2>4. ActiveHolds = {} => \A r \in Reports : ~Holding(r)
    BY DEF ActiveHolds, HoldsInv, Holding
  <2> QED
    BY <1>1, <2>1, <2>2, <2>3, <2>4 DEF HoldsInv, Holding
<1>5. ASSUME NEW q \in Requests,
             \/ RequestDeletion(q) \/ Send(q) \/ Receive(q) \/ Block(q) \/ Read(q)
             \/ Erase(q) \/ EraseFails(q) \/ Scan(q) \/ CleanDone(q) \/ CleanFails(q)
             \/ Crash(q)
      PROVE  HoldsInv'
  <2>1. /\ UNCHANGED <<link, report>>
        /\ \A p \in Requests \ {q} : /\ task'[p] = task[p] /\ late'[p] = late[p]
                                     /\ p \in waived' <=> p \in waived
    BY <1>5 DEF RequestDeletion, Send, Receive, Block, Read, Erase, EraseRows, EraseFails,
                Scan, CleanDone, CleanFails, Crash, Become, Forget, TypeOK
  <2>2. q \notin waived' /\ task'[q] \in {"erase", "commit"} =>
          q \notin waived /\ task[q] \in {"erase", "commit"} /\ late'[q] = late[q]
    BY <1>5 DEF RequestDeletion, Send, Receive, Block, Read, Erase, EraseRows, EraseFails,
                Scan, CleanDone, CleanFails, Crash, Become, TypeOK
  <2> QED
    BY <1>1, <2>1, <2>2 DEF HoldsInv, Holding
<1>6. CASE UNCHANGED <<link, report, task, late, waived>>
  BY <1>1, <1>6 DEF HoldsInv, Holding
<1> QED
  BY <1>2, <1>3, <1>4, <1>5, <1>6
  DEF Next, Persist, CacheScore, ExpireCache, LoadScore, InsertShap, BeginGrant, EndGrant,
      Withdraw, ExportData, RequestRectification, RectifyData, Work, CleanKey, vars

(* A deletion never touches a transaction held by a report its own check    *)
(* could have seen, unless it was told not to look.                         *)
THEOREM HoldsAreRespected == Spec => DeletionRespectsHolds
<1>1. Init => HoldsInv
  BY DEF Init, HoldsInv
<1>2. TypeOK /\ HoldsInv /\ [Next]_vars
      => [\A x \in Txs : row[x] = "stored" /\ row'[x] = "deleted" =>
            \E q \in Requests :
              /\ task[q] = "commit" /\ task'[q] = "scan"
              /\ q \in waived \/ \A r \in Reports : Holding(r) => r \in late[q]]_row
  <2> SUFFICES ASSUME TypeOK, HoldsInv, Next,
                      NEW x \in Txs, row[x] = "stored", row'[x] = "deleted"
               PROVE  \E q \in Requests : task[q] = "commit" /\ task'[q] = "scan"
    BY DEF HoldsInv, vars, tables, stored
  <2>1. PICK q \in Requests : Erase(q)
    BY DEF Next, FileReport, DecideReport, Persist, CacheScore, ExpireCache, LoadScore,
           InsertShap, BeginGrant, EndGrant, Withdraw, ExportData, RequestRectification,
           RectifyData, RequestDeletion, Send, Work, Receive, CheckHolds, Block, Read,
           EraseFails, Scan, CleanKey, CleanDone, CleanFails, Crash, TypeOK,
           tables, stored, redis, requests, consents, worker
  <2> QED
    BY <2>1 DEF Erase, EraseRows, Become, TypeOK
<1> QED
  BY <1>1, <1>2, HoldsStep, DataSubjectTypeCorrect, PTL DEF Spec, DeletionRespectsHolds

-----------------------------------------------------------------------------
LEMMA ErasureStep == TypeOK /\ ErasureInv /\ [Next]_vars => ErasureInv'
<1> SUFFICES ASSUME TypeOK, ErasureInv, [Next]_vars PROVE ErasureInv'
  OBVIOUS
<1> USE DEF tables, stored, redis, requests, consents, deletion, worker
<1>1. ASSUME NEW x \in Txs, Persist(x) PROVE ErasureInv'
  BY <1>1 DEF Persist, ErasureInv, TypeOK
<1>2. ASSUME NEW x \in Txs, CacheScore(x) \/ ExpireCache(x) PROVE ErasureInv'
  BY <1>2 DEF CacheScore, ExpireCache, ErasureInv, TypeOK
<1>3. ASSUME NEW x \in Txs, InsertShap(x) PROVE ErasureInv'
  BY <1>3 DEF InsertShap, ErasureInv, TypeOK
<1>4. ASSUME NEW q \in Requests, \/ RequestDeletion(q) \/ Send(q) \/ Receive(q)
                                 \/ CheckHolds(q) \/ Block(q)
      PROVE  ErasureInv'
  <2>1. UNCHANGED <<row, scores, shap, cached, todo, dirty, marking, removing>>
    BY <1>4 DEF RequestDeletion, Send, Receive, CheckHolds, Block
  <2>2. \A p \in Requests : task'[p] \in {"scan", "clean"} <=> task[p] \in {"scan", "clean"}
    BY <1>4 DEF RequestDeletion, Send, Receive, CheckHolds, Block, Become, TypeOK
  <2>3. \A p \in Requests : task'[p] = "clean" => task[p] = "clean"
    BY <1>4 DEF RequestDeletion, Send, Receive, CheckHolds, Block, Become, TypeOK
  <2> QED
    BY <2>1, <2>2, <2>3 DEF ErasureInv
<1>5. ASSUME NEW q \in Requests, Read(q) \/ EraseFails(q) PROVE ErasureInv'
  <2>1. /\ UNCHANGED <<row, scores, shap, cached, todo, dirty>>
        /\ \A p \in Requests : task'[p] \in {"scan", "clean"} <=> task[p] \in {"scan", "clean"}
        /\ \A p \in Requests : task'[p] = "clean" => task[p] = "clean"
    BY <1>5 DEF Read, EraseFails, Become, TypeOK
  <2>2. \A p \in Requests : \A x \in marking'[p] : shap[x] = "explained" => x \in removing'[p]
    BY <1>5 DEF Read, EraseFails, Forget, ErasureInv, TypeOK
  <2> QED
    BY <2>1, <2>2 DEF ErasureInv
<1>6. ASSUME NEW q \in Requests, Erase(q) PROVE ErasureInv'
  <2>1. /\ task'[q] = "scan" /\ q \in dirty'
        /\ \A p \in Requests \ {q} : task'[p] = task[p]
        /\ dirty \subseteq dirty' /\ UNCHANGED <<cached, todo>>
    BY <1>6 DEF Erase, EraseRows, Become, TypeOK
  <2>2. \A x \in Txs : shap'[x] = "explained" =>
          shap[x] = "explained" /\ x \notin removing[q]
    BY <1>6 DEF Erase, TypeOK
  <2>3. \A x \in Txs : shap'[x] = "explained" => x \in scores'
    BY <1>6, <2>2 DEF Erase, EraseRows, ErasureInv
  <2>4. \A p \in Requests : \A x \in marking'[p] : x \in marking[p] /\ x \in Txs
                              /\ removing'[p] = removing[p]
    BY <1>6 DEF Erase, EraseRows, Forget, TypeOK
  <2>5. \A p \in Requests : \A x \in marking'[p] : shap'[x] = "explained" => x \in removing'[p]
    BY <2>2, <2>4 DEF ErasureInv
  <2> QED
    BY <2>1, <2>3, <2>5 DEF ErasureInv
<1>7. ASSUME NEW q \in Requests, Scan(q) PROVE ErasureInv'
  <2>1. /\ task[q] = "scan" /\ task'[q] = "clean"
        /\ \A p \in Requests \ {q} : task'[p] = task[p] /\ todo'[p] = todo[p]
        /\ todo'[q] = {x \in Txs : cached[x] # "none"}
        /\ UNCHANGED <<row, scores, shap, cached, dirty, marking, removing>>
    BY <1>7 DEF Scan, Become, TypeOK
  <2>2. \A x \in Txs : cached'[x] = "before" => x \in todo'[q]
    BY <2>1
  <2> QED
    BY <2>1, <2>2 DEF ErasureInv
<1>8. ASSUME NEW q \in Requests, NEW y \in Txs, CleanKey(q, y) PROVE ErasureInv'
  <2>1. /\ cached'[y] = "none"
        /\ \A x \in Txs \ {y} : cached'[x] = cached[x]
        /\ \A p \in Requests : todo[p] \subseteq todo'[p] \cup {y}
        /\ UNCHANGED <<row, scores, shap, task, dirty, marking, removing>>
    BY <1>8 DEF CleanKey, TypeOK
  <2> QED
    BY <2>1 DEF ErasureInv
<1>9. ASSUME NEW q \in Requests, CleanDone(q) PROVE ErasureInv'
  <2>1. /\ task[q] = "clean" /\ todo[q] = {} /\ task'[q] = "done"
        /\ \A p \in Requests \ {q} : task'[p] = task[p] /\ (p \in dirty => p \in dirty')
        /\ UNCHANGED <<row, scores, shap, cached, todo, marking, removing>>
    BY <1>9 DEF CleanDone, Become, TypeOK
  <2> QED
    BY <2>1 DEF ErasureInv
<1>10. ASSUME NEW q \in Requests, CleanFails(q) \/ Crash(q) PROVE ErasureInv'
  <2>1. /\ task'[q] \notin {"scan", "clean"} /\ (todo[q] # {} => q \in dirty)
        /\ \A p \in Requests \ {q} : task'[p] = task[p] /\ todo'[p] = todo[p]
        /\ UNCHANGED <<row, scores, shap, cached, dirty>>
    BY <1>10 DEF CleanFails, Crash, Become, ErasureInv, TypeOK
  <2>2. \A p \in Requests : \A x \in marking'[p] :
          x \in marking[p] /\ removing'[p] = removing[p]
    BY <1>10 DEF CleanFails, Crash, Forget, TypeOK
  <2> QED
    BY <2>1, <2>2 DEF ErasureInv
<1>11. CASE UNCHANGED <<row, scores, shap, cached, task, todo, dirty, marking, removing>>
  BY <1>11 DEF ErasureInv
<1> QED
  BY <1>1, <1>2, <1>3, <1>4, <1>5, <1>6, <1>7, <1>8, <1>9, <1>10, <1>11
  DEF Next, FileReport, DecideReport, LoadScore, BeginGrant, EndGrant, Withdraw, ExportData,
      RequestRectification, RectifyData, Work, vars

(* Nothing derived from a deleted transaction that its deletion could have  *)
(* read outlives it, but a cache entry whose cleaning has not ended.        *)
THEOREM DeletionIsComplete == Spec => []ErasureIsComplete
<1>1. Init => ErasureInv
  BY DEF Init, ErasureInv
<1>2. TypeOK /\ ErasureInv => ErasureIsComplete
  BY DEF TypeOK, ErasureInv, ErasureIsComplete
<1> QED
  BY <1>1, <1>2, ErasureStep, DataSubjectTypeCorrect, PTL DEF Spec
=============================================================================
