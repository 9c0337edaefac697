---------------------------- MODULE Edge_proofs ----------------------------
(***************************************************************************)
(* Proofs about the components around the scoring pipeline: Admission in    *)
(* behaviours of its own, the other parts of Edge one by one - an inductive *)
(* invariant, its first state, its steps, the property it implies - and     *)
(* then all of them in the behaviours of Edge.                              *)
(***************************************************************************)
EXTENDS Edge, Sequences, NaturalsInduction, WellFoundedInduction, TLAPS

(* -------------------------------------------------------------- Admission *)

LEMMA MinOfTwo ==
  ASSUME NEW a \in Nat, NEW b \in Nat
  PROVE  Min({a, b}) \in {a, b} /\ Min({a, b}) <= a /\ Min({a, b}) <= b
<1>1. PICK m : m = Min({a, b})
  OBVIOUS
<1>2. m \in {a, b} /\ \A y \in {a, b} : m <= y
  <2>1. \E x \in {a, b} : \A y \in {a, b} : x <= y
    <3>1. CASE a <= b
      BY <3>1
    <3>2. CASE b <= a
      BY <3>2
    <3> QED
      BY <3>1, <3>2
  <2> QED
    BY <1>1, <2>1, Zenon DEF Min
<1> QED
  BY <1>1, <1>2

(* A request's part of the state.                                           *)
ReqRow == [at : {"new", "database", "store", "stamp", "limit"}, age : 0..MaxDelay,
           found : BOOLEAN]
Entry == [answer : {"miss", "valid", "invalid"}, left : 0..(PositiveTTL + NegativeTTL)]

LEMMA NewRequestType == NewRequest \in ReqRow /\ NoEntry \in Entry
  BY AdmissionAssumption DEF NewRequest, ReqRow, NoEntry, Entry

LEMMA AnswerType ==
  ASSUME TypeOK, NEW r \in Requests, NEW found \in BOOLEAN, Answer(r, found)
  PROVE  req' \in [Requests -> ReqRow]
<1>1. [at |-> "stamp", age |-> 0, found |-> TRUE] \in ReqRow /\ NewRequest \in ReqRow
  BY NewRequestType, AdmissionAssumption DEF ReqRow
<1> QED
  BY <1>1 DEF Answer, TypeOK, ReqRow

LEMMA TickType ==
  ASSUME TypeOK, Tick
  PROVE  TypeOK' /\ age' <= age + 1
<1> USE AdmissionAssumption
<1>1. Stale \in Nat /\ age \in Nat /\ age <= Stale
  BY DEF Stale, TypeOK
<1>2. age' \in 0..Stale /\ age' <= age + 1
  <2>1. age' = Min({age + 1, Stale}) /\ age + 1 \in Nat
    BY <1>1 DEF Tick
  <2> HIDE DEF Stale
  <2> QED
    BY <1>1, <2>1, MinOfTwo
<1>3. cache' \in Entry
  <2>1. CASE cache.left <= 1
    BY <2>1, NewRequestType DEF Tick
  <2>2. CASE ~(cache.left <= 1)
    <3>1. cache' = [cache EXCEPT !.left = cache.left - 1] /\ cache \in Entry
      BY <2>2 DEF Tick, TypeOK, Entry
    <3>2. cache.left - 1 \in 0..(PositiveTTL + NegativeTTL)
      BY <2>2, <3>1 DEF Entry
    <3> QED
      BY <3>1, <3>2 DEF Entry
  <2> QED
    BY <2>1, <2>2
<1>4. req' \in [Requests -> ReqRow]
  <2>1. ASSUME NEW r \in Requests PROVE req'[r] \in ReqRow
    <3>1. req[r] \in ReqRow
      BY DEF TypeOK, ReqRow
    <3>2. CASE Timed(r)
      <4>1. req'[r] = [req[r] EXCEPT !.age = req[r].age + 1]
        BY <3>2 DEF Tick
      <4>2. req[r].age + 1 \in 0..MaxDelay
        BY <3>1, <3>2 DEF Tick, ReqRow
      <4> QED
        BY <3>1, <4>1, <4>2 DEF ReqRow
    <3>3. CASE ~Timed(r)
      BY <3>1, <3>3 DEF Tick
    <3> QED
      BY <3>2, <3>3
  <2> QED
    BY <2>1 DEF Tick
<1>5. ASSUME NEW f \in [Ages -> Nat] PROVE Older(f) \in [Ages -> Nat]
  <2>1. \A a \in Ages : a # 0 => a - 1 \in Ages
    BY DEF Ages
  <2>2. \A a \in Ages : (IF a = 0 THEN 0 ELSE f[a - 1]) \in Nat
    BY <2>1
  <2> QED
    BY <2>2 DEF Older
<1>6. hits' \in [Ages -> Nat] /\ admitted' \in [Ages -> Nat]
  BY <1>5 DEF Tick, TypeOK
<1> QED
  BY <1>2, <1>3, <1>4, <1>6 DEF Tick, TypeOK, Entry, ReqRow

LEMMA LimitType ==
  ASSUME TypeOK, NEW r \in Requests, CheckRateLimit(r)
  PROVE  hits' \in [Ages -> Nat] /\ admitted' \in [Ages -> Nat]
<1> USE AdmissionAssumption
<1>1. PICK member \in {0, 1} :
        /\ hits' = Counted(req[r].age, member)
        /\ admitted' = IF Total(hits') <= Limit
                       THEN [admitted EXCEPT ![0] = admitted[0] + member] ELSE admitted
  BY DEF CheckRateLimit
<1>2. \A a \in Ages : hits[a] \in Nat /\ hits[a] + member \in Nat
  BY DEF TypeOK
<1>3. hits' \in [Ages -> Nat]
  BY <1>1, <1>2 DEF Counted
<1>4. 0 \in Ages /\ admitted[0] + member \in Nat
  BY DEF Ages, TypeOK
<1> QED
  BY <1>1, <1>3, <1>4 DEF TypeOK

LEMMA AdmissionTypeStep == TypeOK /\ [Next]_vars => TypeOK'
<1> SUFFICES ASSUME TypeOK, [Next]_vars PROVE TypeOK'
  OBVIOUS
<1> USE AdmissionAssumption
<1>0. /\ req \in [Requests -> ReqRow] /\ cache \in Entry
      /\ \A r \in Requests : req[r].found \in BOOLEAN
  BY DEF TypeOK, ReqRow, Entry
<1>1. ASSUME Change PROVE TypeOK'
  BY <1>1 DEF Change, limiter, TypeOK, Stale
<1>2. ASSUME NEW r \in Requests, CacheHit(r) PROVE TypeOK'
  BY <1>2, AnswerType DEF CacheHit, key, limiter, TypeOK, ReqRow
<1>3. ASSUME NEW r \in Requests, CacheMiss(r) PROVE TypeOK'
  BY <1>3 DEF CacheMiss, key, limiter, TypeOK
<1>4. ASSUME NEW r \in Requests, ReadRow(r) PROVE TypeOK'
  BY <1>4 DEF ReadRow, key, limiter, TypeOK
<1>5. ASSUME NEW r \in Requests, StoreAnswer(r) PROVE TypeOK'
  <2>1. req' \in [Requests -> ReqRow]
    BY <1>0, <1>5, AnswerType DEF StoreAnswer
  <2>2. cache' \in Entry
    <3>1. Name(req[r].found) \in {"miss", "valid", "invalid"}
      BY DEF Name
    <3>2. TTL(req[r].found) \in 0..(PositiveTTL + NegativeTTL)
      BY DEF TTL
    <3> QED
      BY <1>5, <3>1, <3>2 DEF StoreAnswer, Entry
  <2> QED
    BY <1>5, <2>1, <2>2 DEF StoreAnswer, limiter, TypeOK, ReqRow, Entry
<1>6. ASSUME NEW r \in Requests, StoreFails(r) PROVE TypeOK'
  BY <1>0, <1>6, AnswerType DEF StoreFails, key, limiter, TypeOK, ReqRow
<1>7. ASSUME NEW r \in Requests, TakeTime(r) PROVE TypeOK'
  BY <1>7 DEF TakeTime, key, limiter, TypeOK
<1>8. ASSUME NEW r \in Requests, CheckRateLimit(r) PROVE TypeOK'
  <2>1. req' \in [Requests -> ReqRow]
    BY <1>0, <1>8, NewRequestType DEF CheckRateLimit
  <2> QED
    BY <1>8, <2>1, LimitType DEF CheckRateLimit, key, TypeOK, ReqRow
<1>9. ASSUME NEW r \in Requests, LetThrough(r) PROVE TypeOK'
  <2>1. req' \in [Requests -> ReqRow]
    BY <1>0, <1>9, NewRequestType DEF LetThrough
  <2> QED
    BY <1>9, <2>1 DEF LetThrough, key, limiter, TypeOK, ReqRow
<1>10. CASE UNCHANGED vars
  BY <1>10 DEF vars, key, limiter, TypeOK
<1> QED
  BY <1>1, <1>2, <1>3, <1>4, <1>5, <1>6, <1>7, <1>8, <1>9, <1>10, TickType DEF Next

(* Every state has its type: no request outstays its stage, no entry its TTL*)
(* and no age its bound.                                                    *)
THEOREM AdmissionTypeCorrect == Spec => []TypeOK
<1>1. Init => TypeOK
  <2> SUFFICES ASSUME Init PROVE TypeOK
    OBVIOUS
  <2>1. req \in [Requests -> ReqRow] /\ cache \in Entry
    BY NewRequestType DEF Init
  <2>2. hits \in [Ages -> Nat] /\ admitted \in [Ages -> Nat]
    BY DEF Init
  <2>3. valid \in BOOLEAN /\ age \in 0..Stale
    BY AdmissionAssumption DEF Init, Stale
  <2> QED
    BY <2>1, <2>2, <2>3 DEF TypeOK, ReqRow, Entry
<1> QED
  BY <1>1, AdmissionTypeStep, PTL DEF Spec

-----------------------------------------------------------------------------
(* The inductive invariant: an entry never has more left than its TTL, a    *)
(* contradicting entry has spent what the change is old, less the delay of  *)
(* its store, and a lookup about to store what no longer holds read the row *)
(* before the change.                                                       *)
EntryTTL == IF cache.answer = "valid" THEN PositiveTTL ELSE NegativeTTL

CacheInv ==
  /\ cache.answer # "miss" => cache.left <= EntryTTL
  /\ cache.answer # "miss" /\ cache.answer # Name(valid) =>
       age + cache.left <= EntryTTL + MaxDelay
  /\ \A r \in Requests : req[r].at = "store" /\ req[r].found # valid => age <= req[r].age

LEMMA CacheInvStep == TypeOK /\ CacheInv /\ [Next]_vars => CacheInv'
<1> SUFFICES ASSUME TypeOK, CacheInv, [Next]_vars PROVE CacheInv'
  OBVIOUS
<1> USE AdmissionAssumption
<1>0. /\ req \in [Requests -> ReqRow] /\ cache \in Entry
      /\ age \in Nat /\ valid \in BOOLEAN /\ cache.left \in Nat
      /\ EntryTTL \in Nat
  BY DEF TypeOK, ReqRow, Entry, EntryTTL, Stale
<1>1. ASSUME Tick PROVE CacheInv'
  <2>1. age' \in Nat /\ age' <= age + 1 /\ UNCHANGED valid
    BY <1>1, TickType DEF Tick, TypeOK, Stale
  <2>2. \/ cache'.answer = "miss"
        \/ /\ cache'.answer = cache.answer /\ cache'.left = cache.left - 1
           /\ cache.answer # "miss" /\ cache.left > 1
    <3>1. CASE cache.left <= 1
      BY <1>1, <3>1 DEF Tick, NoEntry
    <3>2. CASE ~(cache.left <= 1)
      BY <1>0, <1>1, <3>2 DEF Tick, Entry
    <3> QED
      BY <3>1, <3>2
  <2>3. ASSUME NEW r \in Requests, req'[r].at = "store", req'[r].found # valid'
        PROVE  age' <= req'[r].age
    <3>1. req[r] \in ReqRow
      BY <1>0
    <3>2. Timed(r)
      BY <1>1, <2>3 DEF Tick, Timed
    <3>3. req'[r] = [req[r] EXCEPT !.age = req[r].age + 1]
      BY <1>1, <3>2 DEF Tick
    <3>4. /\ req[r].at = "store" /\ req[r].found # valid
          /\ req'[r].age = req[r].age + 1 /\ req[r].age \in Nat
      BY <2>1, <2>3, <3>1, <3>3 DEF ReqRow
    <3> QED
      BY <1>0, <2>1, <3>4 DEF CacheInv
  <2>4. cache'.answer # "miss" => EntryTTL' = EntryTTL /\ cache'.left <= EntryTTL'
    BY <1>0, <2>2 DEF CacheInv, EntryTTL
  <2>5. Name(valid)' = Name(valid)
    BY <2>1 DEF Name
  <2>6. cache'.answer # "miss" /\ cache'.answer # Name(valid)' =>
          age' + cache'.left <= EntryTTL' + MaxDelay
    BY <1>0, <2>1, <2>2, <2>4, <2>5 DEF CacheInv
  <2> QED
    BY <2>3, <2>4, <2>6 DEF CacheInv
<1>2. ASSUME Change PROVE CacheInv'
  <2>1. /\ age' = 0 /\ UNCHANGED <<cache, req>>
        /\ \A r \in Requests : req[r].age \in Nat
    BY <1>0, <1>2 DEF Change, ReqRow
  <2>2. EntryTTL' = EntryTTL /\ UNCHANGED cache
    BY <2>1 DEF EntryTTL
  <2>3. cache.answer # "miss" => age' + cache.left <= EntryTTL + MaxDelay
    BY <1>0, <2>1 DEF CacheInv
  <2>4. \A r \in Requests : age' <= req'[r].age
    BY <2>1
  <2> QED
    BY <2>2, <2>3, <2>4 DEF CacheInv
<1>3. ASSUME NEW r \in Requests, NEW found \in BOOLEAN, Answer(r, found), UNCHANGED key
      PROVE  CacheInv'
  <2>1. \A q \in Requests : req'[q] = req[q] \/ req'[q].at # "store"
    BY <1>0, <1>3 DEF Answer, NewRequest
  <2> QED
    BY <1>3, <2>1 DEF key, CacheInv, EntryTTL
<1>4. ASSUME NEW r \in Requests, CacheHit(r) PROVE CacheInv'
  BY <1>3, <1>4 DEF CacheHit
<1>5. ASSUME NEW r \in Requests, StoreFails(r) PROVE CacheInv'
  <2>1. req[r].found \in BOOLEAN
    BY <1>0 DEF ReqRow
  <2> QED
    BY <1>3, <1>5, <2>1 DEF StoreFails
<1>6. ASSUME NEW r \in Requests, NEW v, v.at = "store" => v.found = valid,
             req' = [req EXCEPT ![r] = v], UNCHANGED key
      PROVE  CacheInv'
  <2>1. \A q \in Requests : req'[q] = req[q] \/ req'[q] = v
    BY <1>0, <1>6
  <2> QED
    BY <1>6, <2>1 DEF key, CacheInv, EntryTTL
<1>7. ASSUME NEW r \in Requests, CacheMiss(r) \/ TakeTime(r) PROVE CacheInv'
  <2>1. PICK to \in {"database", "limit"} :
          req' = [req EXCEPT ![r] = [req[r] EXCEPT !.at = to]]
    BY <1>7 DEF CacheMiss, TakeTime
  <2>2. [req[r] EXCEPT !.at = to].at # "store"
    BY <1>0 DEF ReqRow
  <2> QED
    BY <1>6, <1>7, <2>1, <2>2 DEF CacheMiss, TakeTime
<1>8. ASSUME NEW r \in Requests, ReadRow(r) PROVE CacheInv'
  BY <1>6, <1>8 DEF ReadRow
<1>9. ASSUME NEW r \in Requests, StoreAnswer(r) PROVE CacheInv'
  <2> DEFINE found == req[r].found
  <2>1. /\ found \in BOOLEAN /\ req[r].age \in 0..MaxDelay
        /\ found # valid => age <= req[r].age
    BY <1>0, <1>9 DEF StoreAnswer, ReqRow, CacheInv
  <2>2. /\ cache'.answer = Name(found) /\ cache'.left = TTL(found)
        /\ UNCHANGED <<valid, age>>
    BY <1>9 DEF StoreAnswer
  <2>3. Name(found) # Name(valid) => found # valid
    BY DEF Name
  <2>4. \A q \in Requests : req'[q] = req[q] \/ req'[q].at # "store"
    BY <1>0, <1>9 DEF StoreAnswer, Answer, NewRequest
  <2>5. TTL(found) \in Nat
    BY DEF TTL
  <2> HIDE DEF found
  <2>6. EntryTTL' = TTL(found)
    BY <2>2 DEF EntryTTL, TTL, Name
  <2>7. cache'.answer # Name(valid') => age' + cache'.left <= TTL(found) + MaxDelay
    BY <1>0, <2>1, <2>2, <2>3, <2>5
  <2>8. cache'.left <= TTL(found)
    BY <2>2, <2>5
  <2>9. \A q \in Requests : req'[q].at = "store" /\ req'[q].found # valid' =>
                              age' <= req'[q].age
    BY <2>2, <2>4 DEF CacheInv
  <2> QED
    BY <2>2, <2>4, <2>6, <2>7, <2>8, <2>9 DEF CacheInv
<1>10. ASSUME NEW r \in Requests, CheckRateLimit(r) \/ LetThrough(r) PROVE CacheInv'
  <2>1. NewRequest.at # "store"
    BY DEF NewRequest
  <2> QED
    BY <1>6, <1>10, <2>1 DEF CheckRateLimit, LetThrough
<1>11. CASE UNCHANGED vars
  BY <1>11 DEF vars, key, CacheInv, EntryTTL
<1> QED
  BY <1>1, <1>2, <1>4, <1>5, <1>7, <1>8, <1>9, <1>10, <1>11 DEF Next

(* However lookups, their stores and changes of the row interleave, a cached*)
(* answer outlives the change that made it wrong by its TTL and one delay at*)
(* most.                                                                    *)
THEOREM StaleAnswersExpire == Spec => []StaleAnswersAreBounded
<1>1. Init => CacheInv
  <2> SUFFICES ASSUME Init PROVE CacheInv
    OBVIOUS
  <2>1. cache.answer = "miss" /\ \A r \in Requests : req[r].at = "new"
    BY DEF Init, NoEntry, NewRequest
  <2> QED
    BY <2>1 DEF CacheInv
<1>2. TypeOK /\ CacheInv => StaleAnswersAreBounded
  <2> SUFFICES ASSUME TypeOK, CacheInv, cache.answer # "miss", cache.answer # Name(valid)
               PROVE  age + cache.left <=
                        (IF valid THEN NegativeTTL ELSE PositiveTTL) + MaxDelay
    BY DEF StaleAnswersAreBounded
  <2>1. EntryTTL = (IF valid THEN NegativeTTL ELSE PositiveTTL)
    BY DEF TypeOK, Name, EntryTTL
  <2> QED
    BY <2>1 DEF CacheInv
<1> QED
  BY <1>1, <1>2, AdmissionTypeCorrect, CacheInvStep, PTL DEF Spec

-----------------------------------------------------------------------------
(* What the rate limit sums.  Induction over the numbers, for a set of them.*)
LEMMA Induction ==
  ASSUME NEW S \in SUBSET Nat, 0 \in S, \A n \in S : n + 1 \in S
  PROVE  S = Nat
<1> DEFINE R == {ss \in Nat \X Nat : ss[1] < ss[2]}
           T == Nat \ S
<1> SUFFICES ASSUME T # {} PROVE FALSE
  OBVIOUS
<1>1. IsWellFoundedOn(R, Nat)
  BY NatLessThanWellFounded, Zenon DEF OpToRel
<1>2. \A x, y \in T : y < x => <<y, x>> \in R
  OBVIOUS
<1>3. T \in SUBSET Nat
  OBVIOUS
<1> HIDE DEF R, T
<1>4. PICK n \in T : \A k \in T : ~ (<<k, n>> \in R)
  BY <1>1, <1>3, WFMin
<1>5. \A k \in T : ~ (k < n)
  BY <1>2, <1>4, Zenon
<1>6. n \in Nat /\ n \notin S /\ (n - 1 \in Nat => ~ (n - 1 < n) \/ n - 1 \in S)
  BY <1>5 DEF T
<1>7. n # 0 /\ n - 1 \in Nat /\ n - 1 < n /\ (n - 1) + 1 = n
  BY <1>6
<1> QED
  BY <1>6, <1>7

(* s sums f over the ages up to k.                                          *)
Sums(s, f, k) ==
  /\ s \in [0..k -> Nat] /\ s[0] = f[0]
  /\ \A a \in 1..k : s[a] = s[a - 1] + f[a]

LEMMA SumsExist ==
  ASSUME NEW N \in Nat, NEW f \in [0..N -> Nat]
  PROVE  \E s : Sums(s, f, N)
<1> DEFINE S == {k \in Nat : k <= N => \E s : Sums(s, f, k)}
<1>1. 0 \in S
  <2> DEFINE s == [a \in 0..0 |-> f[0]]
  <2>1. Sums(s, f, 0)
    BY DEF Sums
  <2> QED
    BY <2>1
<1>2. ASSUME NEW k \in S PROVE k + 1 \in S
  <2>0. k \in Nat /\ (k <= N => \E s : Sums(s, f, k))
    OBVIOUS
  <2> SUFFICES ASSUME k + 1 <= N PROVE \E s : Sums(s, f, k + 1)
    BY <2>0
  <2> HIDE DEF S
  <2>1. PICK s : Sums(s, f, k)
    BY <2>0
  <2> DEFINE g == [a \in 0..(k + 1) |-> IF a = k + 1 THEN s[k] + f[k + 1] ELSE s[a]]
  <2>2. s[k] \in Nat /\ f[k + 1] \in Nat
    BY <2>0, <2>1 DEF Sums
  <2>3. g \in [0..(k + 1) -> Nat] /\ g[0] = f[0]
    BY <2>0, <2>1, <2>2 DEF Sums
  <2>4. ASSUME NEW a \in 1..(k + 1) PROVE g[a] = g[a - 1] + f[a]
    <3>1. CASE a = k + 1
      BY <2>0, <3>1
    <3>2. CASE a # k + 1
      <4>1. a \in 1..k /\ a - 1 # k + 1 /\ a - 1 \in 0..(k + 1) /\ a \in 0..(k + 1)
        BY <2>0, <3>2
      <4>2. g[a] = s[a] /\ g[a - 1] = s[a - 1]
        BY <2>0, <3>2, <4>1
      <4> QED
        BY <2>1, <4>1, <4>2 DEF Sums
    <3> QED
      BY <3>1, <3>2
  <2> QED
    BY <2>3, <2>4 DEF Sums
<1>3. S \in SUBSET Nat
  OBVIOUS
<1> HIDE DEF S
<1>4. S = Nat
  BY <1>1, <1>2, <1>3, Induction
<1> QED
  BY <1>4 DEF S

(* The recursive sum is defined, and is that sum.                           *)
LEMMA WithinIsSum ==
  ASSUME NEW N \in Nat, NEW f, NEW s, Sums(s, f, N), NEW d \in 0..N
  PROVE  Within(f, d) = s[d]
<1> DEFINE sum == CHOOSE g : g = [a \in 0..d |-> IF a = 0 THEN f[0] ELSE g[a - 1] + f[a]]
           t == [a \in 0..d |-> s[a]]
<1>1. t = [a \in 0..d |-> IF a = 0 THEN f[0] ELSE t[a - 1] + f[a]]
  <2>1. \A a \in 0..d : s[a] = (IF a = 0 THEN f[0] ELSE s[a - 1] + f[a])
    BY DEF Sums
  <2>2. \A a \in 0..d : a # 0 => a - 1 \in 0..d
    OBVIOUS
  <2> QED
    BY <2>1, <2>2
<1>2. sum = [a \in 0..d |-> IF a = 0 THEN f[0] ELSE sum[a - 1] + f[a]]
  BY <1>1
<1> HIDE DEF sum, t
<1> DEFINE S == {i \in Nat : i <= d => sum[i] = s[i]}
<1>3. 0 \in S
  BY <1>2 DEF Sums
<1>4. ASSUME NEW i \in S PROVE i + 1 \in S
  <2>0. i \in Nat /\ (i <= d => sum[i] = s[i])
    OBVIOUS
  <2> SUFFICES ASSUME i + 1 <= d PROVE sum[i + 1] = s[i + 1]
    BY <2>0
  <2> HIDE DEF S
  <2>1. i + 1 \in 0..d /\ i + 1 \in 1..N /\ i + 1 # 0 /\ (i + 1) - 1 = i /\ i <= d
    BY <2>0
  <2>2. sum[i + 1] = sum[(i + 1) - 1] + f[i + 1]
    BY <1>2, <2>1
  <2>3. s[i + 1] = s[(i + 1) - 1] + f[i + 1]
    BY <2>1 DEF Sums
  <2> QED
    BY <2>0, <2>1, <2>2, <2>3
<1>5. S \in SUBSET Nat
  OBVIOUS
<1>6. S = Nat
  <2> HIDE DEF S
  <2> QED
    BY <1>3, <1>4, <1>5, Induction
<1>7. sum[d] = s[d]
  BY <1>6
<1>8. Within(f, d) = sum[d]
  BY DEF Within, sum
<1> QED
  BY <1>7, <1>8

LEMMA WithinIs ==
  ASSUME NEW N \in Nat, NEW f \in [0..N -> Nat]
  PROVE  /\ Within(f, 0) = f[0]
         /\ \A d \in 0..N : Within(f, d) \in Nat
         /\ \A d \in 1..N : Within(f, d) = Within(f, d - 1) + f[d]
<1>1. PICK s : Sums(s, f, N)
  BY SumsExist
<1>2. \A d \in 0..N : Within(f, d) = s[d]
  BY <1>1, WithinIsSum
<1>3. 0 \in 0..N /\ \A d \in 1..N : d \in 0..N /\ d - 1 \in 0..N
  OBVIOUS
<1> QED
  BY <1>1, <1>2, <1>3 DEF Sums

(* A sum grows with its age.                                                *)
LEMMA WithinGrows ==
  ASSUME NEW N \in Nat, NEW f \in [0..N -> Nat], NEW c \in 0..N, NEW d \in 0..N, c <= d
  PROVE  Within(f, c) <= Within(f, d)
<1> DEFINE S == {i \in Nat : i <= N /\ c <= i => Within(f, c) <= Within(f, i)}
<1>1. /\ \A i \in 0..N : Within(f, i) \in Nat
      /\ \A i \in 1..N : Within(f, i) = Within(f, i - 1) + f[i]
  BY WithinIs
<1>2. 0 \in S
  <2>1. c <= 0 => c = 0
    OBVIOUS
  <2> QED
    BY <1>1, <2>1
<1>3. ASSUME NEW i \in S PROVE i + 1 \in S
  <2>0. i \in Nat /\ (i <= N /\ c <= i => Within(f, c) <= Within(f, i))
    OBVIOUS
  <2> SUFFICES ASSUME i + 1 <= N, c <= i + 1 PROVE Within(f, c) <= Within(f, i + 1)
    BY <2>0
  <2> HIDE DEF S
  <2>1. /\ i + 1 \in 1..N /\ i + 1 \in 0..N /\ i \in 0..N /\ (i + 1) - 1 = i
        /\ c = i + 1 \/ c <= i
    BY <2>0
  <2>2. Within(f, i + 1) = Within(f, i) + f[i + 1] /\ f[i + 1] \in Nat
    BY <1>1, <2>1
  <2> QED
    BY <1>1, <2>0, <2>1, <2>2
<1>4. S \in SUBSET Nat
  OBVIOUS
<1>5. S = Nat
  <2> HIDE DEF S
  <2> QED
    BY <1>2, <1>3, <1>4, Induction
<1> QED
  BY <1>5

(* A tick later the sum of an age is what that of the age before was.       *)
LEMMA WithinOlder ==
  ASSUME NEW f \in [Ages -> Nat]
  PROVE  /\ Older(f) \in [Ages -> Nat]
         /\ Within(Older(f), 0) = 0
         /\ \A d \in Ages : d # 0 => Within(Older(f), d) = Within(f, d - 1)
<1> DEFINE N == Window + MaxDelay
           g == Older(f)
<1>0. N \in Nat /\ Ages = 0..N
  BY AdmissionAssumption DEF Ages
<1>1. g \in [Ages -> Nat] /\ g[0] = 0 /\ \A a \in 1..N : g[a] = f[a - 1]
  <2>1. \A a \in Ages : a # 0 => a - 1 \in Ages
    BY <1>0
  <2>2. \A a \in Ages : (IF a = 0 THEN 0 ELSE f[a - 1]) \in Nat
    BY <2>1
  <2> QED
    BY <1>0, <2>2 DEF Older
<1> HIDE DEF N, g
<1>2. /\ Within(f, 0) = f[0] /\ \A d \in 0..N : Within(f, d) \in Nat
      /\ \A d \in 1..N : Within(f, d) = Within(f, d - 1) + f[d]
      /\ Within(g, 0) = 0 /\ \A d \in 1..N : Within(g, d) = Within(g, d - 1) + f[d - 1]
  BY <1>0, <1>1, WithinIs
<1> DEFINE S == {i \in Nat : i + 1 <= N => Within(g, i + 1) = Within(f, i)}
<1>3. 0 \in S
  <2> SUFFICES ASSUME 0 + 1 <= N PROVE Within(g, 0 + 1) = Within(f, 0)
    OBVIOUS
  <2>1. 1 \in 1..N /\ 1 - 1 = 0 /\ f[0] \in Nat
    BY <1>0
  <2>2. Within(g, 1) = Within(g, 0) + f[0]
    BY <1>2, <2>1
  <2> QED
    BY <1>2, <2>1, <2>2
<1>4. ASSUME NEW i \in S PROVE i + 1 \in S
  <2>0. i \in Nat /\ (i + 1 <= N => Within(g, i + 1) = Within(f, i))
    OBVIOUS
  <2> SUFFICES ASSUME (i + 1) + 1 <= N PROVE Within(g, (i + 1) + 1) = Within(f, i + 1)
    BY <2>0
  <2> HIDE DEF S
  <2>1. /\ (i + 1) + 1 \in 1..N /\ i + 1 \in 1..N /\ i + 1 <= N
        /\ ((i + 1) + 1) - 1 = i + 1 /\ (i + 1) - 1 = i
    BY <1>0, <2>0
  <2>2. Within(g, (i + 1) + 1) = Within(g, i + 1) + f[i + 1]
    BY <1>2, <2>1
  <2>3. Within(f, i + 1) = Within(f, i) + f[i + 1]
    BY <1>2, <2>1
  <2> QED
    BY <2>0, <2>1, <2>2, <2>3
<1>5. S \in SUBSET Nat
  OBVIOUS
<1>6. S = Nat
  <2> HIDE DEF S
  <2> QED
    BY <1>3, <1>4, <1>5, Induction
<1>7. ASSUME NEW d \in Ages, d # 0 PROVE Within(g, d) = Within(f, d - 1)
  <2>1. d - 1 \in Nat /\ (d - 1) + 1 = d /\ d <= N
    BY <1>0, <1>7
  <2>2. d - 1 \in S
    BY <1>6, <2>1
  <2> QED
    BY <2>1, <2>2
<1> QED
  BY <1>1, <1>2, <1>7 DEF g

(* Members added at one age are added to the sums from that age on.         *)
AddsAt(f, g, stamp, m, M) ==
  /\ f \in [Ages -> Nat] /\ g \in [Ages -> Nat]
  /\ stamp \in Ages /\ m \in Nat /\ M \in Ages
  /\ \A a \in 0..M : g[a] = IF a = stamp THEN f[a] + m ELSE f[a]

LEMMA WithinAdds ==
  ASSUME NEW f, NEW g, NEW stamp, NEW m, NEW M, AddsAt(f, g, stamp, m, M)
  PROVE  \A d \in stamp..M : Within(g, d) = Within(f, d) + m
<1> DEFINE Added(d) == IF stamp <= d THEN m ELSE 0
           N == Window + MaxDelay
           S == {i \in Nat : i <= M => Within(g, i) = Within(f, i) + Added(i)}
<1>0. /\ Ages = 0..N /\ N \in Nat /\ f \in [0..N -> Nat] /\ g \in [0..N -> Nat]
      /\ stamp \in 0..N /\ m \in Nat /\ M \in 0..N
  BY AdmissionAssumption DEF AddsAt, Ages
<1> HIDE DEF N
<1>1. /\ Within(f, 0) = f[0] /\ Within(g, 0) = g[0]
      /\ \A d \in 0..N : Within(f, d) \in Nat /\ Within(g, d) \in Nat
      /\ \A d \in 1..N : Within(f, d) = Within(f, d - 1) + f[d]
      /\ \A d \in 1..N : Within(g, d) = Within(g, d - 1) + g[d]
  BY <1>0, WithinIs
<1>2. 0 \in S
  <2>1. 0 \in 0..M /\ (stamp <= 0 <=> stamp = 0) /\ f[0] \in Nat
    BY <1>0
  <2> QED
    BY <1>0, <1>1, <2>1 DEF AddsAt
<1>3. ASSUME NEW i \in S PROVE i + 1 \in S
  <2>0. i \in Nat /\ (i <= M => Within(g, i) = Within(f, i) + Added(i))
    OBVIOUS
  <2> SUFFICES ASSUME i + 1 <= M PROVE Within(g, i + 1) = Within(f, i + 1) + Added(i + 1)
    BY <2>0
  <2> HIDE DEF S, Added
  <2>1. i + 1 \in 1..N /\ i + 1 \in 0..M /\ i + 1 \in 0..N /\ i \in 0..N /\ (i + 1) - 1 = i
    BY <1>0, <2>0
  <2>2. /\ Within(g, i + 1) = Within(g, i) + g[i + 1]
        /\ Within(f, i + 1) = Within(f, i) + f[i + 1]
        /\ g[i + 1] = IF i + 1 = stamp THEN f[i + 1] + m ELSE f[i + 1]
        /\ f[i + 1] \in Nat /\ Within(f, i) \in Nat
    BY <1>0, <1>1, <2>1 DEF AddsAt
  <2>3. /\ i + 1 = stamp => Added(i) = 0 /\ Added(i + 1) = m
        /\ i + 1 # stamp => Added(i + 1) = Added(i) /\ Added(i) \in Nat
    BY <1>0, <2>0 DEF Added
  <2>4. Within(g, i) = Within(f, i) + Added(i)
    BY <1>0, <2>0, <2>1
  <2> QED
    BY <1>0, <2>2, <2>3, <2>4
<1>4. S \in SUBSET Nat
  OBVIOUS
<1>5. S = Nat
  <2> HIDE DEF S
  <2> QED
    BY <1>2, <1>3, <1>4, Induction
<1>6. ASSUME NEW d \in stamp..M PROVE Within(g, d) = Within(f, d) + m
  <2>1. d \in S /\ d <= M /\ stamp <= d
    <3> HIDE DEF S
    <3> QED
      BY <1>0, <1>5
  <2> QED
    BY <2>1
<1> QED
  BY <1>6

-----------------------------------------------------------------------------
(* The inductive invariant: a request admitted d ticks ago took its time at *)
(* most MaxDelay before, and that member no later stamp has removed.        *)
Reach == Window - MaxDelay - 1
Last == Window + MaxDelay

Limited(h, a) ==
  /\ \A d \in 0..Reach : Within(a, d) <= Within(h, d + MaxDelay)
  /\ Within(a, Reach) <= Limit

LimitInv == Limited(hits, admitted)

LEMMA AgesAre ==
  /\ Last \in Nat /\ Ages = 0..Last /\ Reach \in 0..Last /\ MaxDelay \in Nat /\ Limit \in Nat
  /\ Window \in Nat /\ Window - 1 \in 0..Last /\ Reach + MaxDelay = Window - 1
  /\ 0 \in 0..Last /\ Last \in 0..Last /\ Window - 1 <= Last
  /\ \A d \in 0..Reach : /\ d \in 0..Last /\ d + MaxDelay \in 0..Last
                         /\ d + MaxDelay \in MaxDelay..(Window - 1)
  BY AdmissionAssumption DEF Ages, Reach, Last

LEMMA TickKeepsLimit ==
  ASSUME NEW h \in [Ages -> Nat], NEW a \in [Ages -> Nat], Limited(h, a)
  PROVE  Limited(Older(h), Older(a))
<1> USE AgesAre
<1>1. /\ Within(Older(a), 0) = 0
      /\ \A d \in Ages : d # 0 => Within(Older(a), d) = Within(a, d - 1)
      /\ \A d \in Ages : d # 0 => Within(Older(h), d) = Within(h, d - 1)
      /\ Older(h) \in [Ages -> Nat]
  BY WithinOlder
<1>2. /\ \A d \in 0..Last : Within(a, d) \in Nat
      /\ \A d \in 0..Last : Within(Older(h), d) \in Nat
  BY <1>1, WithinIs
<1>3. ASSUME NEW d \in 0..Reach PROVE Within(Older(a), d) <= Within(Older(h), d + MaxDelay)
  <2>1. CASE d = 0
    BY <1>1, <1>2, <2>1
  <2>2. CASE d # 0
    <3>1. /\ d \in Ages /\ d + MaxDelay \in Ages /\ d + MaxDelay # 0
          /\ d - 1 \in 0..Reach /\ (d - 1) + MaxDelay = (d + MaxDelay) - 1
      BY <2>2
    <3>2. /\ Within(Older(a), d) = Within(a, d - 1)
          /\ Within(Older(h), d + MaxDelay) = Within(h, (d - 1) + MaxDelay)
      BY <1>1, <2>2, <3>1
    <3> QED
      BY <3>1, <3>2 DEF Limited
  <2> QED
    BY <2>1, <2>2
<1>4. Within(Older(a), Reach) <= Limit
  <2>1. CASE Reach = 0
    BY <1>1, <2>1
  <2>2. CASE Reach # 0
    <3>1. Reach \in Ages /\ Reach - 1 \in 0..Last /\ Reach - 1 <= Reach
      BY <2>2
    <3>2. Within(Older(a), Reach) = Within(a, Reach - 1)
      BY <1>1, <2>2, <3>1
    <3>3. Within(a, Reach - 1) <= Within(a, Reach)
      BY <3>1, WithinGrows
    <3>4. Within(a, Reach - 1) \in Nat /\ Within(a, Reach) \in Nat /\ Limit \in Nat
      BY <1>2, <3>1
    <3> QED
      BY <3>2, <3>3, <3>4 DEF Limited
  <2> QED
    BY <2>1, <2>2
<1> QED
  BY <1>3, <1>4 DEF Limited

(* One pipeline: h becomes j, a becomes b.                                  *)
LEMMA PipelineKeepsLimit ==
  ASSUME NEW h \in [Ages -> Nat], NEW a \in [Ages -> Nat], Limited(h, a),
         NEW j \in [Ages -> Nat], NEW b \in [Ages -> Nat],
         NEW stamp \in 0..MaxDelay, NEW m \in Nat,
         AddsAt(h, j, stamp, m, Window - 1),
         b = a \/ (Total(j) <= Limit /\ AddsAt(a, b, 0, m, Last))
  PROVE  Limited(j, b)
<1>0. /\ h \in [0..Last -> Nat] /\ a \in [0..Last -> Nat]
      /\ j \in [0..Last -> Nat] /\ b \in [0..Last -> Nat]
      /\ Last \in Nat /\ 0 \in 0..Last /\ Last \in 0..Last /\ Window - 1 \in 0..Last
      /\ Reach \in 0..Last /\ Reach + MaxDelay = Window - 1 /\ Limit \in Nat
      /\ \A d \in 0..Reach : d \in 0..Last /\ d + MaxDelay \in 0..Last
  BY AgesAre
<1>1. /\ \A d \in 0..Last : Within(h, d) \in Nat
      /\ \A d \in 0..Last : Within(a, d) \in Nat
      /\ \A d \in 0..Last : Within(j, d) \in Nat
      /\ \A d \in 0..Last : Within(b, d) \in Nat
  BY <1>0, WithinIs
<1>2. \A d \in 0..Reach : Within(j, d + MaxDelay) = Within(h, d + MaxDelay) + m
  <2>2. \A d \in stamp..(Window - 1) : Within(j, d) = Within(h, d) + m
    BY WithinAdds
  <2>3. \A d \in 0..Reach : d + MaxDelay \in stamp..(Window - 1)
    BY AgesAre
  <2> QED
    BY <2>2, <2>3
<1>3. \A d \in 0..Reach : Within(a, d) <= Within(h, d + MaxDelay)
  BY DEF Limited
<1>4. CASE b = a
  <2>1. ASSUME NEW d \in 0..Reach PROVE Within(b, d) <= Within(j, d + MaxDelay)
    <3>1. /\ Within(a, d) \in Nat /\ Within(h, d + MaxDelay) \in Nat
          /\ Within(a, d) <= Within(h, d + MaxDelay)
          /\ Within(j, d + MaxDelay) = Within(h, d + MaxDelay) + m
      BY <1>0, <1>1, <1>2, <1>3
    <3> QED
      BY <1>4, <3>1
  <2> QED
    BY <1>4, <2>1 DEF Limited
<1>5. CASE Total(j) <= Limit /\ AddsAt(a, b, 0, m, Last)
  <2>1. \A d \in 0..Last : Within(b, d) = Within(a, d) + m
    BY <1>5, WithinAdds
  <2>2. ASSUME NEW d \in 0..Reach PROVE Within(b, d) <= Within(j, d + MaxDelay)
    <3>1. /\ Within(a, d) \in Nat /\ Within(h, d + MaxDelay) \in Nat
          /\ Within(a, d) <= Within(h, d + MaxDelay)
          /\ Within(j, d + MaxDelay) = Within(h, d + MaxDelay) + m
          /\ Within(b, d) = Within(a, d) + m
      BY <1>0, <1>1, <1>2, <1>3, <2>1
    <3> QED
      BY <3>1
  <2>3. Within(b, Reach) <= Within(j, Window - 1)
    <3>1. Reach \in 0..Reach
      BY <1>0
    <3> QED
      BY <1>0, <2>2, <3>1
  <2>4. Within(j, Window - 1) <= Within(j, Last)
    BY <1>0, AgesAre, WithinGrows
  <2>5. Within(j, Last) <= Limit
    BY <1>5 DEF Total, Last
  <2>6. Within(b, Reach) <= Limit
    <3>1. /\ Within(b, Reach) \in Nat /\ Within(j, Window - 1) \in Nat
          /\ Within(j, Last) \in Nat
      BY <1>0, <1>1
    <3> QED
      BY <1>0, <2>3, <2>4, <2>5, <3>1
  <2> QED
    BY <2>2, <2>6 DEF Limited
<1> QED
  BY <1>4, <1>5

LEMMA LimitStep == TypeOK /\ LimitInv /\ [Next]_vars => LimitInv'
<1> SUFFICES ASSUME TypeOK, LimitInv, [Next]_vars PROVE LimitInv'
  OBVIOUS
<1>1. hits \in [Ages -> Nat] /\ admitted \in [Ages -> Nat] /\ Limited(hits, admitted)
  BY DEF TypeOK, LimitInv
<1>2. ASSUME Tick PROVE LimitInv'
  <2>1. Limited(Older(hits), Older(admitted))
    BY <1>1, TickKeepsLimit
  <2> QED
    BY <1>2, <2>1 DEF Tick, LimitInv
<1>3. ASSUME NEW r \in Requests, CheckRateLimit(r) PROVE LimitInv'
  <2>0. PICK j, b : j = hits' /\ b = admitted'
    OBVIOUS
  <2>1. PICK m \in {0, 1}, stamp \in 0..MaxDelay :
          /\ j = hits' /\ b = admitted' /\ stamp = req[r].age
          /\ hits' = Counted(req[r].age, m)
          /\ admitted' = IF Total(hits') <= Limit
                         THEN [admitted EXCEPT ![0] = admitted[0] + m] ELSE admitted
    <3>1. req[r].age \in 0..MaxDelay
      BY DEF TypeOK
    <3> QED
      BY <1>3, <2>0, <3>1 DEF CheckRateLimit
  <2>2. j \in [Ages -> Nat] /\ b \in [Ages -> Nat] /\ m \in Nat
    BY <1>3, <2>1, LimitType
  <2>3. AddsAt(hits, j, stamp, m, Window - 1)
    <3>1. \A a \in 0..(Window - 1) : a \in Ages /\ ~ (a >= stamp + Window)
      BY AgesAre
    <3>2. stamp \in Ages /\ Window - 1 \in Ages
      BY AgesAre
    <3> QED
      BY <1>1, <2>1, <2>2, <3>1, <3>2 DEF Counted, Expired, AddsAt
  <2>4. b = admitted \/ (Total(j) <= Limit /\ AddsAt(admitted, b, 0, m, Last))
    <3>1. CASE Total(hits') <= Limit
      <4>1. b = [admitted EXCEPT ![0] = admitted[0] + m] /\ Total(j) <= Limit
        BY <2>1, <3>1
      <4>2. /\ admitted \in [0..Last -> Nat] /\ 0 \in Ages /\ Last \in Ages
            /\ admitted \in [Ages -> Nat]
        BY <1>1, AgesAre
      <4>3. AddsAt(admitted, b, 0, m, Last)
        BY <2>2, <4>1, <4>2 DEF AddsAt
      <4> QED
        BY <4>1, <4>3
    <3>2. CASE ~ (Total(hits') <= Limit)
      BY <2>1, <3>2
    <3> QED
      BY <3>1, <3>2
  <2>5. Limited(j, b)
    BY <1>1, <2>2, <2>3, <2>4, PipelineKeepsLimit
  <2> QED
    BY <2>1, <2>5 DEF LimitInv
<1>4. CASE UNCHANGED limiter
  BY <1>4 DEF limiter, LimitInv
<1> QED
  BY <1>2, <1>3, <1>4
  DEF Next, Change, CacheHit, CacheMiss, ReadRow, StoreAnswer, StoreFails, TakeTime,
      LetThrough, vars

(* However late pipelines are executed, fewer ticks than the window less the*)
(* longest delay never see more requests admitted than the limit.           *)
THEOREM AdmissionIsLimited == Spec => []AdmittedWithinLimit
<1>1. Init => LimitInv
  <2> SUFFICES ASSUME Init PROVE LimitInv
    OBVIOUS
  <2> DEFINE zero == [a \in Ages |-> 0]
  <2>0. Last \in Nat /\ Ages = 0..Last
    BY AgesAre
  <2>1. zero \in [Ages -> Nat] /\ zero = Older(zero)
    <3>1. \A a \in Ages : a # 0 => a - 1 \in Ages
      BY <2>0
    <3> QED
      BY <3>1 DEF Older
  <2>2. hits = zero /\ admitted = zero
    BY DEF Init
  <2> HIDE DEF zero
  <2>3. Within(zero, 0) = 0 /\ \A d \in 1..Last : Within(zero, d) = Within(zero, d - 1)
    <3>1. Within(Older(zero), 0) = 0 /\
          \A d \in Ages : d # 0 => Within(Older(zero), d) = Within(zero, d - 1)
      BY <2>1, WithinOlder
    <3> QED
      BY <2>0, <2>1, <3>1
  <2> DEFINE S == {i \in Nat : i <= Last => Within(zero, i) = 0}
  <2>4. 0 \in S
    BY <2>3
  <2>5. ASSUME NEW i \in S PROVE i + 1 \in S
    <3>0. i \in Nat /\ (i <= Last => Within(zero, i) = 0)
      OBVIOUS
    <3>1. i + 1 <= Last => /\ i + 1 \in 1..Last /\ (i + 1) - 1 = i /\ i <= Last
      BY <2>0, <3>0
    <3> QED
      BY <2>3, <3>0, <3>1
  <2>6. S \in SUBSET Nat
    OBVIOUS
  <2>7. S = Nat
    <3> HIDE DEF S
    <3> QED
      BY <2>4, <2>5, <2>6, Induction
  <2>8. \A d \in 0..Last : Within(zero, d) = 0
    BY <2>7
  <2> QED
    BY <2>0, <2>2, <2>8, AgesAre DEF LimitInv, Limited
<1>2. LimitInv => AdmittedWithinLimit
  BY DEF LimitInv, Limited, AdmittedWithinLimit, Reach
<1> QED
  BY <1>1, <1>2, AdmissionTypeCorrect, LimitStep, PTL DEF Spec

(* -------------------------------------------------- the constants of Edge *)

LEMMA NonZero == ASSUME NEW n \in Nat \ {0} PROVE n \in Nat /\ n > 0
  OBVIOUS

LEMMA EdgeConstants ==
  /\ OwnerTTL \in Nat /\ Deliveries \in Nat
  /\ PositiveTTL + MaxDelay \in Nat /\ MaxDelay \in Nat
  /\ AccessTTL \in Nat /\ AccessTTL > 0 /\ RefreshTTL \in Nat /\ RefreshTTL > 0
  /\ TicketTTL \in Nat /\ TicketTTL > 0 /\ ShapTTL \in Nat /\ ShapTTL > 0
  /\ Risks \subseteq Nat
<1>1. PositiveTTL \in Nat /\ MaxDelay \in Nat
  BY AdmissionAssumption
<1>2. OwnerTTL \in Nat /\ Deliveries \in Nat
  BY EdgeAssumption
<1>3. AccessTTL \in Nat \ {0} /\ RefreshTTL \in Nat \ {0}
  BY EdgeAssumption
<1>4. TicketTTL \in Nat \ {0} /\ ShapTTL \in Nat \ {0}
  BY EdgeAssumption
<1>5. Risks \subseteq Nat
  BY EdgeAssumption
<1> QED
  BY <1>1, <1>2, <1>3, <1>4, <1>5, NonZero

LEMMA EdgeNames ==
  /\ NoUrl \notin Urls
  /\ Tenants \cap {"none", "", "NULL"} = {}
  /\ "none" \notin Connections
  BY EdgeAssumption

(* ----------------------------------------------------------- WebhookConfig *)

Writes == [op : {"configure", "verify", "delete"}, write : Webhook!Rows, alone : BOOLEAN,
           columns : SUBSET Webhook!Columns, approve : Urls \cup {NoUrl},
           withdraw : Urls \cup {NoUrl}]

(* A row that is dispatched to only where its URL is approved, and whose    *)
(* pending challenge is for its own URL.                                    *)
Sound(r, ok) ==
  /\ r.url # NoUrl /\ r.status = "ACTIVE" =>
       r.url \in ok /\ r.profile.webhook_status \in {"unset", "ACTIVE"}
  /\ r.profile.challenge_id # NoUrl /\ r.url # NoUrl =>
       r.url = r.profile.challenge_id \/ r.url \in ok

After(w) == (approved \cup ({w.approve} \ {NoUrl})) \ {w.withdraw}

(* What a handler that nobody overlapped is about to commit: the row it     *)
(* loaded is still the row, and what it writes is sound - by hand, if what  *)
(* it loaded was.                                                           *)
LoadedSound(w) ==
  w.alone =>
    /\ \A c \in Webhook!Columns : c \notin w.columns => w.write[c] = row[c]
    /\ (w.op = "verify" /\ crossed) \/ Sound(w.write, After(w))

WebhookInv ==
  /\ row \in Webhook!Rows /\ approved \subseteq Urls /\ crossed \in BOOLEAN
  /\ handlers \in [Requests -> Writes \cup {Webhook!Idle}]
  /\ crossed \/ Sound(row, approved)
  /\ \A h \in Requests : handlers[h] # Webhook!Idle => LoadedSound(handlers[h])

LEMMA WritesAreNotIdle == Webhook!Idle \notin Writes
  BY Zenon DEF Webhook!Idle, Writes

LEMMA WebhookTypes == WebhookInv => Webhook!TypeOK /\ Webhook!EnabledMeansApproved
<1> SUFFICES ASSUME WebhookInv PROVE Webhook!TypeOK /\ Webhook!EnabledMeansApproved
  OBVIOUS
<1>1. Webhook!TypeOK
  BY DEF WebhookInv, Webhook!TypeOK, Writes
<1>2. Webhook!EnabledMeansApproved
  BY DEF WebhookInv, Sound, Webhook!EnabledMeansApproved, Webhook!Enabled, Webhook!Reported
<1> QED
  BY <1>1, <1>2

LEMMA WebhookInit == Webhook!Init => WebhookInv
<1> SUFFICES ASSUME Webhook!Init PROVE WebhookInv
  OBVIOUS
<1>1. row \in Webhook!Rows
  BY DEF Webhook!Init, Webhook!Rows, Webhook!Profiles, Webhook!Statuses
<1> QED
  BY <1>1 DEF Webhook!Init, WebhookInv, Sound

(* A handler loads a row and means to write a sound one.                    *)
LEMMA WebhookLoads ==
  ASSUME WebhookInv, NEW h \in Requests, NEW op \in {"configure", "verify", "delete"},
         NEW write \in Webhook!Rows, NEW assigned \in SUBSET Webhook!Columns,
         NEW approve \in Urls \cup {NoUrl}, NEW withdraw \in Urls \cup {NoUrl},
         Webhook!Load(h, op, write, assigned, approve, withdraw),
         \/ op = "verify" /\ crossed
         \/ Sound(write, (approved \cup ({approve} \ {NoUrl})) \ {withdraw})
  PROVE  WebhookInv'
<1> DEFINE w == [op |-> op, write |-> write, alone |-> TRUE,
                 columns |-> assigned \cup {c \in Webhook!Columns : write[c] # row[c]},
                 approve |-> approve, withdraw |-> withdraw]
<1>1. /\ handlers' = [handlers EXCEPT ![h] = w] /\ UNCHANGED <<row, approved, crossed>>
  BY DEF Webhook!Load
<1>2. w \in Writes
  BY DEF Writes
<1>3. LoadedSound(w)
  BY DEF LoadedSound, After
<1> HIDE DEF w
<1>4. \A k \in Requests : handlers'[k] # Webhook!Idle => LoadedSound(handlers'[k])
  BY <1>1, <1>3 DEF WebhookInv
<1>5. \A v : LoadedSound(v)' <=> LoadedSound(v)
  BY <1>1 DEF LoadedSound, After
<1>6. (\A k \in Requests : handlers[k] # Webhook!Idle => LoadedSound(handlers[k]))'
  BY <1>1, <1>4 DEF LoadedSound, After
<1> QED
  BY <1>1, <1>2, <1>6 DEF WebhookInv

LEMMA WebhookCommits ==
  ASSUME WebhookInv, NEW h \in Requests, Webhook!Commit(h)
  PROVE  WebhookInv'
<1> DEFINE w == handlers[h]
<1>1. /\ w \in Writes /\ LoadedSound(w)
      /\ row' = [c \in {"url", "secret", "status", "profile"} |->
                   IF c = "profile" \/ c \in w.columns THEN w.write[c] ELSE row[c]]
      /\ approved' = After(w)
      /\ crossed' = IF w.alone THEN crossed /\ w.op = "verify" ELSE TRUE
      /\ handlers' = [k \in Requests |->
                        IF k = h \/ handlers[k] = Webhook!Idle THEN Webhook!Idle
                        ELSE [handlers[k] EXCEPT !.alone = FALSE]]
  BY DEF Webhook!Commit, WebhookInv, Webhook!Merged, After
<1>2. w.write \in Webhook!Rows /\ row \in Webhook!Rows
  BY <1>1 DEF WebhookInv, Writes
<1> HIDE DEF w
<1>3. row' \in Webhook!Rows
  BY <1>1, <1>2 DEF Webhook!Rows
<1>4. approved' \subseteq Urls /\ crossed' \in BOOLEAN
  BY <1>1 DEF After, WebhookInv, Writes
<1>5. ASSUME NEW k \in Requests, handlers[k] # Webhook!Idle
      PROVE  [handlers[k] EXCEPT !.alone = FALSE] \in Writes
  BY <1>5 DEF WebhookInv, Writes
<1>6. handlers' \in [Requests -> Writes \cup {Webhook!Idle}]
  BY <1>1, <1>5
<1>7. ASSUME NEW k \in Requests, handlers'[k] # Webhook!Idle
      PROVE  handlers'[k].alone = FALSE
  BY <1>1, <1>5, <1>7 DEF Writes
<1>8. (\A k \in Requests : handlers[k] # Webhook!Idle => LoadedSound(handlers[k]))'
  BY <1>7 DEF LoadedSound
<1>9. crossed' \/ Sound(row', approved')
  <2> SUFFICES ASSUME ~crossed' PROVE Sound(row', approved')
    OBVIOUS
  <2>1. w.alone /\ ~(crossed /\ w.op = "verify")
    BY <1>1
  <2>2. row'.url = w.write.url /\ row'.status = w.write.status /\ row'.profile = w.write.profile
    BY <1>1, <2>1 DEF LoadedSound, Webhook!Columns
  <2> QED
    BY <1>1, <2>1, <2>2 DEF LoadedSound, Sound
<1> QED
  BY <1>3, <1>4, <1>6, <1>8, <1>9 DEF WebhookInv

LEMMA WebhookStep == WebhookInv /\ [Webhook!Next]_(Webhook!vars) => WebhookInv'
<1> SUFFICES ASSUME WebhookInv, [Webhook!Next]_(Webhook!vars) PROVE WebhookInv'
  OBVIOUS
<1> USE EdgeNames
<1>0. /\ row \in Webhook!Rows /\ row.url \in Urls \cup {NoUrl} /\ row.secret \in BOOLEAN
      /\ row.status \in Webhook!Statuses /\ row.profile \in Webhook!Profiles
      /\ row.profile.challenge_id \in Urls \cup {NoUrl}
  BY DEF WebhookInv, Webhook!Rows, Webhook!Profiles
<1>1. ASSUME NEW h \in Requests, NEW u \in Urls, Webhook!CreateWebhook(h, u)
      PROVE  WebhookInv'
  <2> DEFINE done == [row EXCEPT !.url = u, !.secret = TRUE, !.profile.webhook_status = "ACTIVE"]
             pending == Webhook!Pending([row EXCEPT !.url = u, !.secret = TRUE], u)
  <2>1. \/ Webhook!Load(h, "configure", done, {"secret"}, u, NoUrl)
        \/ Webhook!Load(h, "configure", pending, {"secret"}, NoUrl, u)
    BY <1>1 DEF Webhook!CreateWebhook
  <2>2. done \in Webhook!Rows /\ Sound(done, (approved \cup ({u} \ {NoUrl})) \ {NoUrl})
    BY <1>0 DEF Webhook!Rows, Webhook!Profiles, Sound
  <2>3. pending \in Webhook!Rows /\ Sound(pending, (approved \cup ({NoUrl} \ {NoUrl})) \ {u})
    BY <1>0 DEF Webhook!Rows, Webhook!Profiles, Webhook!Statuses, Sound, Webhook!Pending
  <2> HIDE DEF done, pending
  <2> QED
    BY <2>1, <2>2, <2>3, WebhookLoads DEF Webhook!Columns
<1>2. ASSUME NEW h \in Requests, NEW u \in Urls, Webhook!UpdateWebhook(h, u)
      PROVE  WebhookInv'
  <2> DEFINE done == [url |-> u, secret |-> TRUE, status |-> "ACTIVE",
                      profile |-> [webhook_status |-> "ACTIVE", challenge_id |-> NoUrl]]
             pending == Webhook!Pending([row EXCEPT !.url = u, !.secret = TRUE], u)
  <2>1. PICK assigned \in {{"secret"}, {}} :
          \/ Webhook!Load(h, "configure", done, assigned, u, NoUrl)
          \/ Webhook!Load(h, "configure", pending, assigned, NoUrl, u)
    BY <1>2 DEF Webhook!UpdateWebhook
  <2>2. done \in Webhook!Rows /\ Sound(done, (approved \cup ({u} \ {NoUrl})) \ {NoUrl})
    BY <1>0 DEF Webhook!Rows, Webhook!Profiles, Webhook!Statuses, Sound
  <2>3. pending \in Webhook!Rows /\ Sound(pending, (approved \cup ({NoUrl} \ {NoUrl})) \ {u})
    BY <1>0 DEF Webhook!Rows, Webhook!Profiles, Webhook!Statuses, Sound, Webhook!Pending
  <2>4. assigned \in SUBSET Webhook!Columns
    BY <2>1 DEF Webhook!Columns
  <2> HIDE DEF done, pending
  <2> QED
    BY <2>1, <2>2, <2>3, <2>4, WebhookLoads
<1>3. ASSUME NEW h \in Requests, NEW u \in Urls, Webhook!Verify(h, u)
      PROVE  WebhookInv'
  <2> DEFINE done == [row EXCEPT !.status = "ACTIVE",
                                 !.profile = [webhook_status |-> "ACTIVE", challenge_id |-> NoUrl]]
  <2>1. Webhook!Load(h, "verify", done, {}, u, NoUrl) /\ row.profile.challenge_id = u
    BY <1>3 DEF Webhook!Verify, Webhook!VerifyAny
  <2>2. done \in Webhook!Rows
    BY <1>0 DEF Webhook!Rows, Webhook!Profiles, Webhook!Statuses
  <2>3. crossed \/ Sound(done, (approved \cup ({u} \ {NoUrl})) \ {NoUrl})
    BY <1>0, <2>1 DEF WebhookInv, Sound, Webhook!Rows
  <2> HIDE DEF done
  <2> QED
    BY <2>1, <2>2, <2>3, WebhookLoads
<1>4. ASSUME NEW h \in Requests, Webhook!DeleteWebhook(h) PROVE WebhookInv'
  <2> DEFINE gone == [row EXCEPT !.url = NoUrl, !.secret = FALSE, !.status = "INACTIVE",
                                 !.profile.webhook_status = "DELETED"]
  <2>1. Webhook!Load(h, "delete", gone, {}, NoUrl, NoUrl)
    BY <1>4 DEF Webhook!DeleteWebhook
  <2>2. gone \in Webhook!Rows /\ Sound(gone, (approved \cup ({NoUrl} \ {NoUrl})) \ {NoUrl})
    BY <1>0 DEF Webhook!Rows, Webhook!Profiles, Webhook!Statuses, Sound
  <2> HIDE DEF gone
  <2> QED
    BY <2>1, <2>2, WebhookLoads
<1>5. ASSUME NEW h \in Requests, Webhook!Commit(h) PROVE WebhookInv'
  BY <1>5, WebhookCommits
<1>6. ASSUME NEW h \in Requests, Webhook!Abort(h) PROVE WebhookInv'
  <2>1. handlers' = [handlers EXCEPT ![h] = Webhook!Idle] /\ UNCHANGED <<row, approved, crossed>>
    BY <1>6 DEF Webhook!Abort
  <2> QED
    BY <2>1 DEF WebhookInv, LoadedSound, After
<1>7. CASE UNCHANGED Webhook!vars
  BY <1>7 DEF Webhook!vars, WebhookInv, LoadedSound, After
<1> QED
  BY <1>1, <1>2, <1>3, <1>4, <1>5, <1>6, <1>7 DEF Webhook!Next

(* ------------------------------------------------------------- ShapResults *)

LEMMA RawTypes ==
  ASSUME NEW t
  PROVE  /\ Shap!Amount(t.amount) \in Int /\ Shap!Bin(t.bin) \in Int /\ Shap!Type(t.type) \in Int
         /\ Shap!ThreeDS(t.threeDS) \in Int /\ Shap!Channel(t.channel) \in Int
         /\ Shap!Category(t.category) \in Int
  BY SMT DEF Shap!Amount, Shap!Bin, Shap!Type, Shap!ThreeDS, Shap!Channel, Shap!Category

(* The last contribution makes the sum come out.                            *)
LEMMA ExplanationAddsUp ==
  ASSUME NEW t, NEW risk \in Int
  PROVE  Shap!Base + Shap!Sum(Shap!Explain(t, risk)) = risk
<1> DEFINE raw == Shap!Raw(t)
           e == Shap!Explain(t, risk)
<1>1. /\ raw = <<Shap!Amount(t.amount), Shap!Bin(t.bin), Shap!Type(t.type),
                 Shap!ThreeDS(t.threeDS), Shap!Channel(t.channel), Shap!Category(t.category)>>
      /\ raw \in Seq(Int) /\ Len(raw) = 6
  BY RawTypes DEF Shap!Raw
<1>2. /\ raw[1] \in Int /\ raw[2] \in Int /\ raw[3] \in Int /\ raw[4] \in Int
      /\ raw[5] \in Int /\ raw[6] \in Int
  BY <1>1, RawTypes
<1>3. e = [raw EXCEPT ![6] = @ + (risk - Shap!Base - Shap!Sum(raw))]
  BY DEF Shap!Explain
<1> HIDE DEF raw, e
<1>4. /\ e[1] = raw[1] /\ e[2] = raw[2] /\ e[3] = raw[3] /\ e[4] = raw[4] /\ e[5] = raw[5]
      /\ e[6] = raw[6] + (risk - Shap!Base - Shap!Sum(raw))
  BY <1>1, <1>3
<1>5. Shap!Base + Shap!Sum(e) = risk
  BY <1>2, <1>4 DEF Shap!Sum, Shap!Base
<1> QED
  BY <1>5 DEF e

(* A task beyond its insert has stored its own explanation.                 *)
ShapInv ==
  /\ Shap!TypeOK
  /\ about \in [transaction : Transactions, risk : Risks]
  /\ explained.by # "none" => explained.factors = Shap!Explanation
  /\ copy.left > 0 => copy.factors = Shap!Explanation
  /\ scored /\ (announced \/ copy.left > 0 \/ \E d \in Requests : task[d] \in {"cache", "announce"})
       => explained.by = "worker"

LEMMA ShapNothing ==
  /\ Shap!NoRow.by = "none" /\ Shap!NoRow.age \in 0..(ShapTTL + 1)
  /\ Shap!NoCopy.left \in 0..ShapTTL /\ ~(Shap!NoCopy.left > 0)
<1>1. Shap!NoRow.by = "none" /\ Shap!NoRow.age = 0 /\ Shap!NoCopy.left = 0
  BY DEF Shap!NoRow, Shap!NoCopy
<1> QED
  BY <1>1, EdgeConstants

LEMMA ShapTells == ShapInv => Shap!WorkerTellsOfItsOwn /\ Shap!ExplanationsAddUp
<1> SUFFICES ASSUME ShapInv PROVE Shap!WorkerTellsOfItsOwn /\ Shap!ExplanationsAddUp
  OBVIOUS
<1>1. Shap!WorkerTellsOfItsOwn
  BY DEF ShapInv, Shap!WorkerTellsOfItsOwn, Shap!ShapStatus
<1>2. Shap!Base + Shap!Sum(Shap!Explanation) = about.risk
  <2>1. about \in [transaction : Transactions, risk : Risks]
    BY DEF ShapInv
  <2>2. about.risk \in Risks
    BY <2>1
  <2>3. about.risk \in Nat
    BY <2>2, EdgeConstants
  <2> QED
    BY <2>3, ExplanationAddsUp DEF Shap!Explanation
<1>3. Shap!ShapResult.answer = "ok" => Shap!ShapResult.factors = Shap!Explanation
  BY DEF ShapInv, Shap!ShapResult, Shap!TypeOK
<1> QED
  BY <1>1, <1>2, <1>3 DEF ShapInv, Shap!ExplanationsAddUp

LEMMA ShapInit == Shap!Init => ShapInv
<1> SUFFICES ASSUME Shap!Init PROVE ShapInv
  OBVIOUS
<1>1. Shap!TypeOK
  BY ShapNothing DEF Shap!Init, Shap!TypeOK, Shap!Running
<1> QED
  BY <1>1, ShapNothing DEF Shap!Init, ShapInv

LEMMA ShapStep == ShapInv /\ [Shap!Next]_(Shap!shapVars) => ShapInv'
<1> SUFFICES ASSUME ShapInv, [Shap!Next]_(Shap!shapVars) PROVE ShapInv'
  OBVIOUS
<1> USE EdgeConstants
<1>0. about' = about => Shap!Explanation' = Shap!Explanation
  BY DEF Shap!Explanation
<1>1. ASSUME NEW c \in Requests, Shap!LoadScore(c) PROVE ShapInv'
  BY <1>0, <1>1 DEF ShapInv, Shap!TypeOK, Shap!LoadScore
<1>2. ASSUME NEW c \in Requests, Shap!TriggerShap(c) PROVE ShapInv'
  BY <1>0, <1>2 DEF ShapInv, Shap!TypeOK, Shap!TriggerShap, Shap!Insert
<1>3. ASSUME NEW d \in Requests, Shap!Begin(d) PROVE ShapInv'
  BY <1>0, <1>3 DEF ShapInv, Shap!TypeOK, Shap!Begin, Shap!To, Shap!Running
<1>4. ASSUME NEW d \in Requests, Shap!Store(d) PROVE ShapInv'
  BY <1>0, <1>4 DEF ShapInv, Shap!TypeOK, Shap!Store, Shap!Insert, Shap!To, Shap!Running
<1>5. ASSUME NEW d \in Requests, Shap!InsertFails(d) \/ Shap!Crash(d) PROVE ShapInv'
  BY <1>0, <1>5 DEF ShapInv, Shap!TypeOK, Shap!InsertFails, Shap!Crash, Shap!To, Shap!Running
<1>6. ASSUME NEW d \in Requests, Shap!CacheResult(d) PROVE ShapInv'
  BY <1>0, <1>6 DEF ShapInv, Shap!TypeOK, Shap!CacheResult, Shap!To, Shap!Running
<1>7. ASSUME NEW d \in Requests, Shap!PublishReady(d) PROVE ShapInv'
  BY <1>0, <1>7 DEF ShapInv, Shap!TypeOK, Shap!PublishReady, Shap!To, Shap!Running
<1>8. CASE Shap!Tick
  <2>1. /\ explained' = [explained EXCEPT !.age = IF explained.by = "none" \/ @ > ShapTTL
                                                   THEN @ ELSE @ + 1]
        /\ copy' = IF copy.left <= 1 THEN Shap!NoCopy ELSE [copy EXCEPT !.left = @ - 1]
        /\ UNCHANGED <<about, scored, calls, task, announced>>
    BY <1>8 DEF Shap!Tick
  <2>2. explained'.by = explained.by /\ explained'.factors = explained.factors
    BY <2>1 DEF ShapInv
  <2>3. explained'.age \in 0..(ShapTTL + 1)
    BY <2>1 DEF ShapInv, Shap!TypeOK
  <2>4. /\ copy'.left \in 0..ShapTTL
        /\ copy'.left > 0 => copy.left > 0 /\ copy'.factors = copy.factors
    BY <2>1, ShapNothing DEF ShapInv, Shap!TypeOK
  <2> QED
    BY <1>0, <2>1, <2>2, <2>3, <2>4 DEF ShapInv, Shap!TypeOK
<1>9. CASE Shap!Erase
  BY <1>0, <1>9, ShapNothing DEF ShapInv, Shap!TypeOK, Shap!Erase
<1>10. CASE UNCHANGED Shap!shapVars
  BY <1>0, <1>10
     DEF ShapInv, Shap!TypeOK, Shap!shapVars
<1> QED
  BY <1>1, <1>2, <1>3, <1>4, <1>5, <1>6, <1>7, <1>8, <1>9, <1>10 DEF Shap!Next

(* ---------------------------------------------------------------- Sessions *)

KeyStale == PositiveTTL + MaxDelay

LEMMA SessionMin ==
  ASSUME NEW a \in Nat, NEW b \in Nat
  PROVE  Session!Min({a, b}) \in {a, b} /\ Session!Min({a, b}) <= a /\ Session!Min({a, b}) <= b
<1>1. \E x \in {a, b} : \A y \in {a, b} : x <= y
  <2>1. CASE a <= b
    BY <2>1
  <2>2. CASE b <= a
    BY <2>2
  <2> QED
    BY <2>1, <2>2
<1>2. Session!Min({a, b}) \in {a, b} /\ \A y \in {a, b} : Session!Min({a, b}) <= y
  BY <1>1 DEF Session!Min
<1> QED
  BY <1>2

LEMMA SessionMax ==
  ASSUME NEW a \in Nat, NEW b \in Nat
  PROVE  Session!Max({a, b}) \in Nat
<1>1. \E x \in {a, b} : \A y \in {a, b} : x >= y
  <2>1. CASE a <= b
    BY <2>1
  <2>2. CASE b <= a
    BY <2>2
  <2> QED
    BY <2>1, <2>2
<1>2. Session!Max({a, b}) \in {a, b}
  BY <1>1 DEF Session!Max
<1> QED
  BY <1>2

LEMMA LongestType == Session!Longest \in Nat
  BY SessionMax, EdgeConstants DEF Session!Longest

SessionRow == [at : {"idle", "verified", "checked", "ticket"}, age : 0..MaxDelay,
               who : {"account", "key"}]

(* While a principal is disabled: how long, at most, for every stage a      *)
(* request of its can be at, and for every token and ticket it holds.       *)
AccessBounded ==
  \A p \in {"account", "key"}, n \in Nat :
    ~live[p] /\ n \in access[p] => off[p] + n <= Session!Grace(p)
IssueBounded ==
  \A r \in Requests : ~live["account"] /\ request[r].at = "checked" => off["account"] <= request[r].age
AskBounded ==
  \A r \in Requests : ~live[request[r].who] /\ request[r].at = "ticket" =>
    off[request[r].who] <= Session!Grace(request[r].who) + request[r].age
TicketsBounded ==
  \A p \in {"account", "key"}, n \in Nat :
    ~live[p] /\ n \in tickets[p] => off[p] + n <= Session!Grace(p) + MaxDelay + TicketTTL

SessionsInv ==
  /\ Session!TypeOK
  /\ AccessBounded /\ IssueBounded /\ AskBounded /\ TicketsBounded

LEMMA GraceType == ASSUME NEW p PROVE Session!Grace(p) \in Nat
  BY EdgeConstants DEF Session!Grace

LEMMA SessionsLose == SessionsInv => Session!DisabledLosesAccess
<1> SUFFICES ASSUME SessionsInv, NEW p \in {"account", "key"}, ~live[p]
             PROVE  /\ off[p] > Session!Grace(p) => access[p] = {}
                    /\ off[p] > Session!Grace(p) + MaxDelay + TicketTTL => tickets[p] = {}
  BY DEF Session!DisabledLosesAccess, Session!Principals
<1>1. /\ access[p] \subseteq 1..AccessTTL /\ tickets[p] \subseteq 1..TicketTTL
      /\ off[p] \in 0..Session!Longest
  BY DEF SessionsInv, Session!TypeOK, Session!Principals
<1>2. off[p] \in Nat /\ Session!Grace(p) \in Nat
  BY <1>1, LongestType, GraceType
<1>3. ASSUME NEW n \in access[p] PROVE off[p] <= Session!Grace(p)
  <2>1. n \in Nat /\ n >= 1 /\ off[p] + n <= Session!Grace(p)
    BY <1>1, <1>3, EdgeConstants DEF SessionsInv, AccessBounded
  <2> QED
    BY <2>1, <1>2
<1>4. ASSUME NEW n \in tickets[p] PROVE off[p] <= Session!Grace(p) + MaxDelay + TicketTTL
  <2>1. n \in Nat /\ n >= 1 /\ off[p] + n <= Session!Grace(p) + MaxDelay + TicketTTL
    BY <1>1, <1>4, EdgeConstants DEF SessionsInv, TicketsBounded
  <2> QED
    BY <2>1, <1>2, EdgeConstants
<1> QED
  BY <1>2, <1>3, <1>4, EdgeConstants

LEMMA SessionsInit == Session!Init => SessionsInv
<1> SUFFICES ASSUME Session!Init PROVE SessionsInv
  OBVIOUS
<1>1. Session!TypeOK
  BY LongestType, EdgeConstants
     DEF Session!Init, Session!TypeOK, Session!Principals, Session!Idle
<1> QED
  BY <1>1
     DEF Session!Init, SessionsInv, AccessBounded, IssueBounded, AskBounded, TicketsBounded,
         Session!Principals, Session!Idle

(* A request that goes to a stage, or ends.                                 *)
LEMMA RequestMoves ==
  ASSUME SessionsInv, NEW r \in Requests, NEW to \in {"verified", "checked", "ticket"},
         NEW p \in {"account", "key"},
         Session!Advance(r, to, p) \/ Session!End(r),
         UNCHANGED <<live, off, access, refresh, tickets>>,
         request'[r].at = "checked" => live["account"] \/ off["account"] <= 0,
         request'[r].at = "ticket" => live[p] \/ off[p] <= Session!Grace(p)
  PROVE  SessionsInv'
<1>1. /\ request \in [Requests -> SessionRow]
      /\ \/ request' = [request EXCEPT ![r] = [at |-> to, age |-> 0, who |-> p]]
         \/ request' = [request EXCEPT ![r] = Session!Idle]
  BY DEF SessionsInv, Session!TypeOK, Session!Advance, Session!End, SessionRow,
         Session!Principals
<1>2. request' \in [Requests -> SessionRow]
  BY <1>1, EdgeConstants DEF SessionRow, Session!Idle
<1>3. /\ \A q \in Requests \ {r} : request'[q] = request[q]
      /\ request'[r] \in {[at |-> to, age |-> 0, who |-> p], Session!Idle}
  BY <1>1
<1>4. Session!TypeOK' /\ AccessBounded' /\ TicketsBounded'
  BY <1>2 DEF SessionsInv, Session!TypeOK, AccessBounded, TicketsBounded, Session!Grace,
              SessionRow, Session!Principals
<1>5. IssueBounded'
  BY <1>3 DEF SessionsInv, IssueBounded, Session!Idle
<1>6. AskBounded'
  <2>1. Session!Grace(p) \in Nat
    BY GraceType
  <2> QED
    BY <1>3, <2>1 DEF SessionsInv, AskBounded, Session!Idle, Session!Grace
<1> QED
  BY <1>4, <1>5, <1>6 DEF SessionsInv

(* A token is issued to p, of full life.                                    *)
LEMMA TokenIssued ==
  ASSUME SessionsInv, NEW p \in {"account", "key"},
         access' = [access EXCEPT ![p] = @ \cup {AccessTTL}],
         ~live[p] => off[p] + AccessTTL <= Session!Grace(p),
         UNCHANGED <<live, off>>
  PROVE  AccessBounded' /\ access' \in [Session!Principals -> SUBSET (1..AccessTTL)]
<1>1. access \in [{"account", "key"} -> SUBSET (1..AccessTTL)]
  BY DEF SessionsInv, Session!TypeOK, Session!Principals
<1>2. AccessTTL \in 1..AccessTTL
  BY EdgeConstants
<1>3. /\ access'[p] = access[p] \cup {AccessTTL}
      /\ \A q \in {"account", "key"} \ {p} : access'[q] = access[q]
  BY <1>1
<1>4. AccessBounded'
  BY <1>3 DEF SessionsInv, AccessBounded, Session!Grace
<1> QED
  BY <1>1, <1>2, <1>4 DEF Session!Principals

LEMMA TicketStored ==
  ASSUME SessionsInv, NEW r \in Requests, Session!StoreTicket(r)
  PROVE  SessionsInv'
<1> DEFINE p == request[r].who
<1>1. /\ tickets \in [{"account", "key"} -> SUBSET (1..TicketTTL)]
      /\ request \in [Requests -> SessionRow] /\ off \in [{"account", "key"} -> 0..Session!Longest]
  BY DEF SessionsInv, Session!TypeOK, Session!Principals, SessionRow
<1>2. p \in {"account", "key"} /\ request[r].age \in 0..MaxDelay
  BY <1>1 DEF SessionRow
<1>3. ~live[p] => off[p] <= Session!Grace(p) + request[r].age
  BY DEF SessionsInv, AskBounded, Session!StoreTicket
<1>4. ~live[p] => off[p] + TicketTTL <= Session!Grace(p) + MaxDelay + TicketTTL
  <2>1. off[p] \in Nat /\ Session!Grace(p) \in Nat
    BY <1>1, <1>2, GraceType, LongestType
  <2> QED
    BY <1>2, <1>3, <2>1, EdgeConstants
<1>5. /\ tickets' = [tickets EXCEPT ![p] = @ \cup {TicketTTL}]
      /\ request' = [request EXCEPT ![r] = Session!Idle]
      /\ UNCHANGED <<live, off, access, refresh>>
  BY DEF Session!StoreTicket, Session!End
<1> HIDE DEF p
<1>6. /\ tickets'[p] = tickets[p] \cup {TicketTTL}
      /\ \A q \in {"account", "key"} \ {p} : tickets'[q] = tickets[q]
      /\ \A q \in Requests \ {r} : request'[q] = request[q]
      /\ request'[r] = Session!Idle
  BY <1>1, <1>2, <1>5
<1>7. TicketsBounded'
  BY <1>4, <1>5, <1>6 DEF SessionsInv, TicketsBounded, Session!Grace
<1>8. Session!TypeOK'
  <2>1. TicketTTL \in 1..TicketTTL
    BY EdgeConstants
  <2>2. tickets' \in [{"account", "key"} -> SUBSET (1..TicketTTL)]
    BY <1>1, <1>5, <2>1
  <2>3. request' \in [Requests -> SessionRow]
    BY <1>1, <1>5, EdgeConstants DEF SessionRow, Session!Idle
  <2> QED
    BY <1>5, <2>2, <2>3 DEF SessionsInv, Session!TypeOK, Session!Principals, SessionRow
<1>9. AccessBounded' /\ IssueBounded' /\ AskBounded'
  BY <1>5, <1>6 DEF SessionsInv, AccessBounded, IssueBounded, AskBounded, Session!Grace, Session!Idle
<1> QED
  BY <1>7, <1>8, <1>9 DEF SessionsInv

(* Time passes for everything at once.                                      *)
LEMMA SessionsTick ==
  ASSUME SessionsInv, Session!Tick
  PROVE  SessionsInv'
<1>1. /\ live \in [{"account", "key"} -> BOOLEAN]
      /\ off \in [{"account", "key"} -> 0..Session!Longest]
      /\ access \in [{"account", "key"} -> SUBSET (1..AccessTTL)]
      /\ refresh \subseteq 1..RefreshTTL
      /\ tickets \in [{"account", "key"} -> SUBSET (1..TicketTTL)]
      /\ request \in [Requests -> SessionRow]
  BY DEF SessionsInv, Session!TypeOK, Session!Principals, SessionRow
<1>2. /\ live' = live
      /\ off' = [p \in {"account", "key"} |->
                   IF live[p] THEN 0 ELSE Session!Min({off[p] + 1, Session!Longest})]
      /\ access' = [p \in {"account", "key"} |-> Session!Older(access[p])]
      /\ tickets' = [p \in {"account", "key"} |-> Session!Older(tickets[p])]
      /\ refresh' = Session!Older(refresh)
      /\ request' = [r \in Requests |-> IF request[r].at = "idle" THEN Session!Idle
                                        ELSE [request[r] EXCEPT !.age = @ + 1]]
      /\ \A r \in Requests : request[r].at # "idle" => request[r].age < MaxDelay
  BY DEF Session!Tick, Session!Principals
<1>3. ASSUME NEW p \in {"account", "key"}
      PROVE  off'[p] \in 0..Session!Longest /\ off[p] \in Nat
             /\ (~live[p] => off'[p] <= off[p] + 1)
  <2>1. off[p] \in Nat /\ off[p] + 1 \in Nat /\ off[p] <= Session!Longest
    BY <1>1, LongestType
  <2>2. Session!Min({off[p] + 1, Session!Longest}) \in 0..Session!Longest
        /\ Session!Min({off[p] + 1, Session!Longest}) <= off[p] + 1
    BY <2>1, SessionMin, LongestType
  <2> QED
    BY <1>2, <2>1, <2>2, LongestType
<1>4. ASSUME NEW lives, NEW ttl \in Nat, lives \subseteq 1..ttl
      PROVE  /\ Session!Older(lives) \subseteq 1..ttl
             /\ \A n \in Session!Older(lives) : n \in Nat /\ n + 1 \in lives
  BY <1>4 DEF Session!Older
<1>5. ASSUME NEW r \in Requests
      PROVE  /\ request'[r] \in SessionRow
             /\ request'[r].at # "idle" =>
                  /\ request'[r].at = request[r].at /\ request'[r].who = request[r].who
                  /\ request'[r].age = request[r].age + 1 /\ request[r].age \in Nat
  <2>1. CASE request[r].at = "idle"
    BY <1>2, <2>1, EdgeConstants DEF SessionRow, Session!Idle
  <2>2. CASE request[r].at # "idle"
    <3>1. request'[r] = [request[r] EXCEPT !.age = @ + 1] /\ request[r] \in SessionRow
      BY <1>1, <1>2, <2>2
    <3>2. request[r].age \in 0..MaxDelay /\ request[r].age < MaxDelay
      BY <1>2, <2>2, <3>1 DEF SessionRow
    <3>3. request[r].age + 1 \in 0..MaxDelay /\ request[r].age \in Nat
      BY <3>2, EdgeConstants
    <3> QED
      BY <3>1, <3>3 DEF SessionRow
  <2> QED
    BY <2>1, <2>2
<1>6. Session!TypeOK'
  <2>1. off' \in [{"account", "key"} -> 0..Session!Longest]
    BY <1>2, <1>3
  <2>2. access' \in [{"account", "key"} -> SUBSET (1..AccessTTL)]
    BY <1>1, <1>2, <1>4, EdgeConstants
  <2>3. tickets' \in [{"account", "key"} -> SUBSET (1..TicketTTL)]
    BY <1>1, <1>2, <1>4, EdgeConstants
  <2>4. refresh' \subseteq 1..RefreshTTL
    BY <1>1, <1>2, <1>4, EdgeConstants
  <2>5. request' \in [Requests -> SessionRow]
    BY <1>2, <1>5
  <2> QED
    BY <1>1, <1>2, <2>1, <2>2, <2>3, <2>4, <2>5 DEF Session!TypeOK, Session!Principals, SessionRow
<1>7. ASSUME NEW p \in {"account", "key"}, NEW n \in Nat, NEW m \in Nat, ~live[p],
             off[p] + (n + 1) <= m
      PROVE  off'[p] + n <= m
  BY <1>3, <1>7, LongestType
<1>8. AccessBounded'
  <2> SUFFICES ASSUME NEW p \in {"account", "key"}, NEW n \in Nat, ~live[p], n \in access'[p]
               PROVE  off'[p] + n <= Session!Grace(p)
    BY <1>2 DEF AccessBounded, Session!Grace
  <2>1. n + 1 \in access[p] /\ n + 1 \in Nat
    BY <1>1, <1>2, <1>4, EdgeConstants
  <2>2. off[p] + (n + 1) <= Session!Grace(p)
    BY <2>1 DEF SessionsInv, AccessBounded
  <2> QED
    BY <1>7, <2>2, GraceType
<1>9. TicketsBounded'
  <2> SUFFICES ASSUME NEW p \in {"account", "key"}, NEW n \in Nat, ~live[p], n \in tickets'[p]
               PROVE  off'[p] + n <= Session!Grace(p) + MaxDelay + TicketTTL
    BY <1>2 DEF TicketsBounded, Session!Grace
  <2>1. n + 1 \in tickets[p] /\ n + 1 \in Nat
    BY <1>1, <1>2, <1>4, EdgeConstants
  <2>2. off[p] + (n + 1) <= Session!Grace(p) + MaxDelay + TicketTTL
    BY <2>1 DEF SessionsInv, TicketsBounded
  <2>3. Session!Grace(p) + MaxDelay + TicketTTL \in Nat
    BY GraceType, EdgeConstants
  <2> QED
    BY <1>7, <2>2, <2>3
<1>10. IssueBounded'
  <2> SUFFICES ASSUME NEW r \in Requests, ~live["account"], request'[r].at = "checked"
               PROVE  off'["account"] <= request'[r].age
    BY <1>2 DEF IssueBounded
  <2>1. off["account"] <= request[r].age /\ request[r].age \in Nat
        /\ request'[r].age = request[r].age + 1
    BY <1>5 DEF SessionsInv, IssueBounded
  <2>2. off'["account"] <= off["account"] + 1 /\ off["account"] \in Nat
        /\ off'["account"] \in 0..Session!Longest
    BY <1>3
  <2> QED
    BY <2>1, <2>2, LongestType
<1>11. AskBounded'
  <2> SUFFICES ASSUME NEW r \in Requests, NEW p \in {"account", "key"}, p = request'[r].who,
                      ~live[p], request'[r].at = "ticket"
               PROVE  off'[p] <= Session!Grace(p) + request'[r].age
    BY <1>2, <1>5 DEF AskBounded, Session!Grace, SessionRow
  <2>1. off[p] <= Session!Grace(p) + request[r].age /\ request[r].age \in Nat
        /\ request'[r].age = request[r].age + 1
    BY <1>5 DEF SessionsInv, AskBounded
  <2>2. off'[p] <= off[p] + 1 /\ off[p] \in Nat /\ off'[p] \in 0..Session!Longest
    BY <1>3
  <2> QED
    BY <2>1, <2>2, LongestType, GraceType
<1> QED
  BY <1>6, <1>8, <1>9, <1>10, <1>11 DEF SessionsInv

LEMMA SessionsStep == SessionsInv /\ [Session!Next]_(Session!sessionVars) => SessionsInv'
<1> SUFFICES ASSUME SessionsInv, [Session!Next]_(Session!sessionVars) PROVE SessionsInv'
  OBVIOUS
<1>0. /\ live \in [{"account", "key"} -> BOOLEAN]
      /\ off \in [{"account", "key"} -> 0..Session!Longest]
      /\ access \in [{"account", "key"} -> SUBSET (1..AccessTTL)]
      /\ tickets \in [{"account", "key"} -> SUBSET (1..TicketTTL)]
      /\ request \in [Requests -> SessionRow]
  BY DEF SessionsInv, Session!TypeOK, Session!Principals, SessionRow
<1>1. ASSUME NEW r \in Requests, Session!Login(r) PROVE SessionsInv'
  BY <1>0, <1>1, RequestMoves DEF Session!Login, Session!Advance, Session!End
<1>2. ASSUME NEW r \in Requests, Session!Verify(r) PROVE SessionsInv'
  <2>1. request'[r].at = "verified"
    BY <1>0, <1>2 DEF Session!Verify, Session!Advance
  <2> QED
    BY <1>2, <2>1, RequestMoves DEF Session!Verify
<1>3. ASSUME NEW r \in Requests, Session!CheckStatus(r) PROVE SessionsInv'
  <2>1. request'[r].at \in {"idle", "checked"} /\ (request'[r].at = "checked" => live["account"])
    BY <1>0, <1>3 DEF Session!CheckStatus, Session!Advance, Session!End, Session!Idle
  <2> QED
    BY <1>3, <2>1, RequestMoves DEF Session!CheckStatus
<1>4. ASSUME NEW r \in Requests, Session!Issue(r) PROVE SessionsInv'
  <2>1. /\ request[r].at = "checked" /\ request' = [request EXCEPT ![r] = Session!Idle]
        /\ access' = [access EXCEPT !["account"] = @ \cup {AccessTTL}]
        /\ refresh' = refresh \cup {RefreshTTL}
        /\ UNCHANGED <<live, off, tickets>>
    BY <1>4 DEF Session!Issue, Session!End
  <2>2. ~live["account"] => off["account"] + AccessTTL <= Session!Grace("account")
    <3>1. ~live["account"] => off["account"] <= request[r].age
      BY <2>1 DEF SessionsInv, IssueBounded
    <3>2. request[r].age \in 0..MaxDelay /\ off["account"] \in Nat
      BY <1>0, LongestType DEF SessionRow
    <3> QED
      BY <3>1, <3>2, EdgeConstants DEF Session!Grace
  <2>3. AccessBounded' /\ access' \in [Session!Principals -> SUBSET (1..AccessTTL)]
    BY <2>1, <2>2, TokenIssued
  <2>4. refresh' \subseteq 1..RefreshTTL
    BY <2>1, EdgeConstants DEF SessionsInv, Session!TypeOK
  <2>5. request' \in [Requests -> SessionRow]
    BY <1>0, <2>1, EdgeConstants DEF SessionRow, Session!Idle
  <2>6. Session!TypeOK'
    BY <2>1, <2>3, <2>4, <2>5 DEF SessionsInv, Session!TypeOK, SessionRow, Session!Principals
  <2>7. IssueBounded' /\ AskBounded' /\ TicketsBounded'
    BY <1>0, <2>1
       DEF SessionsInv, IssueBounded, AskBounded, TicketsBounded, Session!Grace, Session!Idle
  <2> QED
    BY <2>3, <2>6, <2>7 DEF SessionsInv
<1>5. ASSUME NEW r \in Requests, Session!Fail(r) PROVE SessionsInv'
  <2>1. request'[r].at = "idle"
    BY <1>0, <1>5 DEF Session!Fail, Session!End, Session!Idle
  <2> QED
    BY <1>5, <2>1, RequestMoves DEF Session!Fail
<1>6. ASSUME NEW r \in Requests, NEW p \in {"account", "key"}, Session!AskTicket(r, p)
      PROVE  SessionsInv'
  <2>1. PICK n \in access[p] : TRUE
    BY <1>6 DEF Session!AskTicket
  <2>2. n \in Nat /\ off[p] \in Nat /\ Session!Grace(p) \in Nat
    BY <1>0, <2>1, LongestType, GraceType, EdgeConstants
  <2>3. live[p] \/ off[p] + n <= Session!Grace(p)
    BY <2>1, <2>2 DEF SessionsInv, AccessBounded
  <2>4. live[p] \/ off[p] <= Session!Grace(p)
    BY <2>2, <2>3
  <2>5. request'[r].at = "ticket"
    BY <1>0, <1>6 DEF Session!AskTicket, Session!Advance
  <2> QED
    BY <1>6, <2>4, <2>5, RequestMoves DEF Session!AskTicket
<1>7. ASSUME NEW r \in Requests, Session!StoreTicket(r) PROVE SessionsInv'
  BY <1>7, TicketStored
<1>8. ASSUME NEW p \in {"account", "key"}, Session!UseTicket(p) PROVE SessionsInv'
  <2>1. PICK gone \in tickets[p] : tickets' = [tickets EXCEPT ![p] = @ \ {gone}]
    BY <1>8 DEF Session!UseTicket
  <2>2. UNCHANGED <<live, off, access, refresh, request>>
    BY <1>8 DEF Session!UseTicket
  <2>3. /\ tickets' \in [{"account", "key"} -> SUBSET (1..TicketTTL)]
        /\ \A q \in {"account", "key"} : tickets'[q] \subseteq tickets[q]
    BY <1>0, <2>1
  <2>4. Session!TypeOK'
    BY <2>2, <2>3 DEF SessionsInv, Session!TypeOK, Session!Principals
  <2> QED
    BY <2>2, <2>3, <2>4
       DEF SessionsInv, AccessBounded, IssueBounded, AskBounded, TicketsBounded, Session!Grace
<1>9. ASSUME NEW p \in {"account", "key"}, Session!SetLive(p) PROVE SessionsInv'
  <2>1. /\ live' = [live EXCEPT ![p] = ~@] /\ off' = [off EXCEPT ![p] = 0]
        /\ UNCHANGED <<access, refresh, tickets, request>>
    BY <1>9 DEF Session!SetLive
  <2>2. /\ off'[p] = 0
        /\ \A q \in {"account", "key"} \ {p} : off'[q] = off[q] /\ live'[q] = live[q]
    BY <1>0, <2>1
  <2>3. Session!TypeOK'
    BY <1>0, <2>1, LongestType DEF SessionsInv, Session!TypeOK, Session!Principals
  <2>4. ASSUME NEW q \in {"account", "key"}
        PROVE  /\ access'[q] = access[q] /\ access[q] \subseteq 1..AccessTTL
               /\ tickets'[q] = tickets[q] /\ tickets[q] \subseteq 1..TicketTTL
               /\ Session!Grace(q) \in Nat
    BY <1>0, <2>1, GraceType
  <2>5. AccessTTL <= Session!Grace(p)
    BY EdgeConstants DEF Session!Grace
  <2>6. AccessBounded'
    <3> SUFFICES ASSUME NEW q \in {"account", "key"}, NEW n \in Nat, ~live'[q], n \in access'[q]
                 PROVE  off'[q] + n <= Session!Grace(q)
      BY DEF AccessBounded, Session!Grace
    <3>1. CASE q = p
      <4>1. n <= AccessTTL
        BY <2>4, EdgeConstants
      <4> QED
        BY <2>2, <2>4, <2>5, <3>1, <4>1, EdgeConstants
    <3>2. CASE q # p
      BY <2>1, <2>2, <3>2 DEF SessionsInv, AccessBounded
    <3> QED
      BY <3>1, <3>2
  <2>7. TicketsBounded'
    <3> SUFFICES ASSUME NEW q \in {"account", "key"}, NEW n \in Nat, ~live'[q], n \in tickets'[q]
                 PROVE  off'[q] + n <= Session!Grace(q) + MaxDelay + TicketTTL
      BY DEF TicketsBounded, Session!Grace
    <3>1. CASE q = p
      <4>1. n <= TicketTTL
        BY <2>4, EdgeConstants
      <4> QED
        BY <2>2, <2>4, <3>1, <4>1, EdgeConstants
    <3>2. CASE q # p
      BY <2>1, <2>2, <3>2 DEF SessionsInv, TicketsBounded
    <3> QED
      BY <3>1, <3>2
  <2>8. IssueBounded'
    <3> SUFFICES ASSUME NEW r \in Requests, ~live'["account"], request[r].at = "checked"
                 PROVE  off'["account"] <= request[r].age
      BY <2>1 DEF IssueBounded
    <3>1. request[r].age \in Nat
      BY <1>0, EdgeConstants DEF SessionRow
    <3> QED
      BY <2>2, <3>1 DEF SessionsInv, IssueBounded
  <2>9. AskBounded'
    <3> SUFFICES ASSUME NEW r \in Requests, NEW q \in {"account", "key"}, q = request[r].who,
                        ~live'[q], request[r].at = "ticket"
                 PROVE  off'[q] <= Session!Grace(q) + request[r].age
      BY <1>0, <2>1 DEF AskBounded, Session!Grace, SessionRow
    <3>1. request[r].age \in Nat
      BY <1>0, EdgeConstants DEF SessionRow
    <3>2. CASE q = p
      BY <2>2, <2>4, <3>1, <3>2
    <3>3. CASE q # p
      BY <2>2, <3>3 DEF SessionsInv, AskBounded
    <3> QED
      BY <3>2, <3>3
  <2> QED
    BY <2>3, <2>6, <2>7, <2>8, <2>9 DEF SessionsInv
<1>10. CASE Session!KeyToken
  <2>1. /\ access' = [access EXCEPT !["key"] = @ \cup {AccessTTL}]
        /\ UNCHANGED <<live, off, refresh, tickets, request>>
        /\ live["key"] \/ off["key"] <= PositiveTTL + MaxDelay
    BY <1>10 DEF Session!KeyToken, Session!Found
  <2>2. ~live["key"] => off["key"] + AccessTTL <= Session!Grace("key")
    <3>1. off["key"] \in Nat
      BY <1>0, LongestType
    <3> QED
      BY <2>1, <3>1, EdgeConstants DEF Session!Grace
  <2>3. AccessBounded' /\ access' \in [Session!Principals -> SUBSET (1..AccessTTL)]
    BY <2>1, <2>2, TokenIssued
  <2>4. Session!TypeOK'
    BY <2>1, <2>3 DEF SessionsInv, Session!TypeOK
  <2> QED
    BY <2>1, <2>3, <2>4
       DEF SessionsInv, IssueBounded, AskBounded, TicketsBounded, Session!Grace
<1>11. CASE Session!Tick
  BY <1>11, SessionsTick
<1>12. CASE UNCHANGED Session!sessionVars
  BY <1>12
     DEF Session!sessionVars, SessionsInv, Session!TypeOK, AccessBounded, IssueBounded,
         AskBounded, TicketsBounded, Session!Grace
<1> QED
  BY <1>1, <1>2, <1>3, <1>4, <1>5, <1>6, <1>7, <1>8, <1>9, <1>10, <1>11, <1>12
     DEF Session!Next, Session!Principals

(* -------------------------------------------------------------- AsyncScore *)

AsyncStatuses == {"none", "PENDING", "RUNNING", "COMPLETED", "FAILED",
                  "STARTED", "SUCCESS", "FAILURE"}
AsyncAnswers == [status : AsyncStatuses, decision : BOOLEAN, error : BOOLEAN]

(* A request that is to tell of an end keeps the state it has read, and has *)
(* passed successful() with no success.                                     *)
EndsAreKept ==
  \A t \in Tasks :
    /\ asking[t].status = "COMPLETED" => asking[t].kept = "SUCCESS"
    /\ asking[t].status = "FAILED" => asking[t].kept = "FAILURE"
    /\ asking[t].at = "failed" => asking[t].kept # "SUCCESS"

AsyncInv ==
  /\ Async!TypeOK
  /\ EndsAreKept
  /\ told \in [Tasks -> AsyncAnswers]
  /\ Async!DecisionIffCompleted

LEMMA AsyncInit == Async!Init => AsyncInv
<1> SUFFICES ASSUME Async!Init PROVE AsyncInv
  OBVIOUS
<1> USE EdgeConstants
<1>1. Async!TypeOK /\ EndsAreKept
  BY DEF Async!Init, Async!TypeOK, EndsAreKept, Async!None, Async!Idle, Async!Branches,
         Async!Final
<1>2. Async!Untold \in AsyncAnswers
  BY DEF Async!Untold, AsyncAnswers, AsyncStatuses
<1> QED
  BY <1>1, <1>2 DEF Async!Init, AsyncInv, Async!DecisionIffCompleted, Async!Untold

LEMMA AskingIs ==
  ASSUME AsyncInv, NEW t \in Tasks
  PROVE  /\ asking[t].status \in AsyncStatuses
         /\ asking[t].kept \in {"none", "SUCCESS", "FAILURE"}
         /\ Async!Read(t) \in {"PENDING", "STARTED", "SUCCESS", "FAILURE"}
         /\ Async!Kept(t) \in {"none", "SUCCESS", "FAILURE"}
         /\ asking[t].kept # "none" => Async!Kept(t) = asking[t].kept
         /\ asking[t].status = "COMPLETED" => asking[t].kept = "SUCCESS"
         /\ asking[t].status = "FAILED" => asking[t].kept = "FAILURE"
         /\ asking[t].at = "failed" => asking[t].kept # "SUCCESS"
  BY DEF AsyncInv, Async!TypeOK, EndsAreKept, Async!Read, Async!Kept, Async!Final,
         Async!None, AsyncStatuses

(* A step to the next reading keeps what it has read and, where it sets a   *)
(* status, one that goes with it.                                           *)
LEMMA AskOnKeeps ==
  ASSUME AsyncInv, NEW t \in Tasks, NEW at, NEW status \in AsyncStatuses,
         at \in {"PENDING", "STARTED", "SUCCESS", "FAILURE", "else", "successful", "failed"},
         status = "COMPLETED" => Async!Kept(t) = "SUCCESS",
         status = "FAILED" => Async!Kept(t) = "FAILURE",
         at = "failed" => Async!Kept(t) # "SUCCESS",
         Async!AskOn(t, at, status)
  PROVE  AsyncInv'
<1> DEFINE next == [at |-> at, kept |-> Async!Kept(t), status |-> status]
<1>1. Async!Kept(t) \in {"none", "SUCCESS", "FAILURE"}
  BY AskingIs
<1>2. asking' = [asking EXCEPT ![t] = next]
  BY DEF Async!AskOn
<1>3. Async!TypeOK'
  BY <1>1, <1>2 DEF AsyncInv, Async!TypeOK, Async!AskOn, Async!Branches, Async!Final,
                    Async!None, AsyncStatuses
<1>4. EndsAreKept'
  BY <1>2 DEF AsyncInv, Async!TypeOK, EndsAreKept
<1> QED
  BY <1>3, <1>4 DEF AsyncInv, Async!AskOn, Async!DecisionIffCompleted

(* An answer carries a decision exactly when it tells of a completion.      *)
LEMMA TellAgrees ==
  ASSUME AsyncInv, NEW t \in Tasks,
         NEW status \in AsyncStatuses, NEW decision \in BOOLEAN, NEW error \in BOOLEAN,
         decision <=> status = "COMPLETED", status = "FAILED" => error,
         Async!Tell(t, status, decision, error)
  PROVE  AsyncInv'
<1> DEFINE answer == [status |-> status, decision |-> decision, error |-> error]
<1>1. /\ answer \in AsyncAnswers
      /\ answer.decision <=> answer.status = "COMPLETED"
      /\ answer.status = "FAILED" => answer.error
  BY DEF AsyncAnswers
<1> HIDE DEF answer
<1>2. told' = [told EXCEPT ![t] = answer]
  BY DEF Async!Tell, answer
<1>3. told' \in [Tasks -> AsyncAnswers]
  BY <1>1, <1>2 DEF AsyncInv
<1>4. Async!DecisionIffCompleted'
  BY <1>1, <1>2 DEF AsyncInv, Async!DecisionIffCompleted
<1>5. Async!TypeOK'
  BY DEF AsyncInv, Async!TypeOK, Async!Tell, Async!None, Async!Idle, Async!Final
<1>6. EndsAreKept'
  BY DEF AsyncInv, Async!TypeOK, EndsAreKept, Async!Tell, Async!None, Async!Idle
<1> QED
  BY <1>3, <1>4, <1>5, <1>6 DEF AsyncInv

LEMMA CompareKeeps ==
  ASSUME AsyncInv, NEW t \in Tasks, Async!Compare(t)
  PROVE  AsyncInv'
<1> DEFINE at == asking[t].at
<1>1. at \in {"PENDING", "STARTED", "SUCCESS", "FAILURE"}
  BY DEF Async!Compare, Async!Branches
<1>2. /\ Async!Branches[at].status \in {"PENDING", "RUNNING", "COMPLETED", "FAILED"}
      /\ Async!Branches[at].status = "COMPLETED" => at = "SUCCESS"
      /\ Async!Branches[at].status = "FAILED" => at = "FAILURE"
      /\ Async!Branches[at].orElse \in {"STARTED", "SUCCESS", "FAILURE", "else"}
  BY <1>1 DEF Async!Branches
<1>3. CASE Async!Read(t) = at /\ Async!AskOn(t, "successful", Async!Branches[at].status)
  <2>1. at \in {"SUCCESS", "FAILURE"} => Async!Kept(t) = at
    BY <1>3 DEF Async!Kept, Async!Final
  <2> QED
    BY <1>2, <1>3, <2>1, AskOnKeeps DEF AsyncStatuses
<1>4. CASE Async!AskOn(t, Async!Branches[at].orElse, "none")
  BY <1>2, <1>4, AskOnKeeps DEF AsyncStatuses
<1> QED
  BY <1>3, <1>4 DEF Async!Compare, Async!None

LEMMA OtherStateKeeps ==
  ASSUME AsyncInv, NEW t \in Tasks, Async!OtherState(t)
  PROVE  AsyncInv'
  BY AskingIs, AskOnKeeps DEF Async!OtherState, AsyncStatuses

LEMMA SuccessfulKeeps ==
  ASSUME AsyncInv, NEW t \in Tasks, Async!Successful(t)
  PROVE  AsyncInv'
<1>1. CASE Async!Tell(t, "COMPLETED", TRUE, FALSE)
  BY <1>1, TellAgrees DEF AsyncStatuses
<1>2. CASE Async!Read(t) # "SUCCESS" /\ Async!AskOn(t, "failed", asking[t].status)
  <2>1. Async!Kept(t) # "SUCCESS"
    BY <1>2 DEF Async!Kept, Async!None
  <2> QED
    BY <1>2, <2>1, AskingIs, AskOnKeeps
<1> QED
  BY <1>1, <1>2 DEF Async!Successful, Async!Succeed, Async!ResultStatus

LEMMA FailedKeeps ==
  ASSUME AsyncInv, NEW t \in Tasks, Async!Failed(t)
  PROVE  AsyncInv'
<1> DEFINE error == Async!Read(t) = "FAILURE"
<1>1. asking[t].at = "failed" /\ Async!Tell(t, asking[t].status, FALSE, error)
  BY DEF Async!Failed
<1>2. asking[t].status \in AsyncStatuses /\ (asking[t].status = "FAILED" => error)
  BY AskingIs DEF Async!Read, Async!None
<1>3. asking[t].status # "COMPLETED"
  BY <1>1, AskingIs
<1> QED
  BY <1>1, <1>2, <1>3, TellAgrees

LEMMA AsyncStep == AsyncInv /\ [Async!Next]_(Async!asyncVars) => AsyncInv'
<1> SUFFICES ASSUME AsyncInv, [Async!Next]_(Async!asyncVars) PROVE AsyncInv'
  OBVIOUS
<1> USE EdgeConstants DEF AsyncInv
<1>1. ASSUME UNCHANGED <<asking, told>>, Async!TypeOK' PROVE AsyncInv'
  BY <1>1 DEF EndsAreKept, Async!DecisionIffCompleted
<1>2. ASSUME NEW t \in Tasks, Async!Send(t) PROVE AsyncInv'
  BY <1>1, <1>2 DEF Async!Send, Async!TypeOK
<1>3. ASSUME NEW t \in Tasks, Async!RecordTaskOwner(t) PROVE AsyncInv'
  BY <1>1, <1>3 DEF Async!RecordTaskOwner, Async!TypeOK
<1>4. ASSUME NEW t \in Tasks, Async!Expire(t) PROVE AsyncInv'
  BY <1>1, <1>4 DEF Async!Expire, Async!TypeOK
<1>5. ASSUME NEW t \in Tasks, Async!Begin(t) PROVE AsyncInv'
  BY <1>1, <1>5 DEF Async!Begin, Async!Move, Async!TypeOK
<1>6. ASSUME NEW t \in Tasks, Async!Score(t) PROVE AsyncInv'
  BY <1>1, <1>6 DEF Async!Score, Async!Move, Async!TypeOK, Async!Final
<1>7. ASSUME NEW t \in Tasks, Async!Acknowledge(t) PROVE AsyncInv'
  BY <1>1, <1>7 DEF Async!Acknowledge, Async!Move, Async!TypeOK
<1>8. ASSUME NEW t \in Tasks, Async!Lose(t) PROVE AsyncInv'
  BY <1>1, <1>8 DEF Async!Lose, Async!Move, Async!TypeOK
<1>9. ASSUME NEW t \in Tasks, Async!EvictResult(t) PROVE AsyncInv'
  BY <1>1, <1>9 DEF Async!EvictResult, Async!TypeOK
<1>10. ASSUME NEW t \in Tasks, Async!AskState(t) PROVE AsyncInv'
  <2>1. asking' = [asking EXCEPT ![t].at = "PENDING"] /\ UNCHANGED told
    BY <1>10 DEF Async!AskState
  <2>2. Async!TypeOK'
    BY <1>10, <2>1 DEF Async!AskState, Async!TypeOK, Async!Branches
  <2>3. EndsAreKept'
    BY <2>1 DEF Async!TypeOK, EndsAreKept
  <2> QED
    BY <2>1, <2>2, <2>3 DEF Async!DecisionIffCompleted
<1>11. ASSUME NEW t \in Tasks, Async!Compare(t) PROVE AsyncInv'
  BY <1>11, CompareKeeps
<1>12. ASSUME NEW t \in Tasks, Async!OtherState(t) PROVE AsyncInv'
  BY <1>12, OtherStateKeeps
<1>13. ASSUME NEW t \in Tasks, Async!Successful(t) PROVE AsyncInv'
  BY <1>13, SuccessfulKeeps
<1>14. ASSUME NEW t \in Tasks, Async!Failed(t) PROVE AsyncInv'
  BY <1>14, FailedKeeps
<1>15. CASE UNCHANGED Async!asyncVars
  BY <1>15 DEF Async!asyncVars, Async!TypeOK, EndsAreKept, Async!DecisionIffCompleted
<1> QED
  BY <1>2, <1>3, <1>4, <1>5, <1>6, <1>7, <1>8, <1>9, <1>10, <1>11, <1>12, <1>13, <1>14,
     <1>15 DEF Async!Next

(* ------------------------------------------------------------ RowSecurity *)

(* What a session leaves in its connection's setting: the tenant is local   *)
(* while it is open, and once it has ended nothing but the empty text is    *)
(* left.                                                                    *)
Settled(s) ==
  LET v == setting[session[s].on] IN
  CASE session[s].at = "open" -> v.plain = "none" /\ v.local = session[s].tenant
    [] session[s].at = "finished" -> v.plain = "none" /\ v.local = "none"
    [] session[s].at = "reset" -> v.plain = "" /\ v.local = "none"

RowsSetting == [base : Tenants \cup {"", "NULL"}, plain : Tenants \cup {"", "none"},
                local : Tenants \cup {"", "none"}]
RowsSession == [at : {"idle", "open", "finished", "reset"},
                tenant : Tenants \cup {"none"}, on : Connections \cup {"none"}]

RowsInv ==
  /\ Rows!TypeOK
  /\ \A c \in Connections :
       /\ setting[c].base \in {"NULL", ""}
       /\ Rows!Free(c) => setting[c].plain = "none" /\ setting[c].local = "none"
  /\ \A s \in Requests :
       IF session[s].at = "idle" THEN session[s] = Rows!NoSession
       ELSE session[s].on \in Connections /\ Settled(s)

LEMMA RowsInit == Rows!Init => RowsInv
<1> SUFFICES ASSUME Rows!Init PROVE RowsInv
  OBVIOUS
<1> USE EdgeNames
<1>1. Rows!TypeOK
  BY DEF Rows!Init, Rows!Fresh, Rows!NoSession, Rows!None, Rows!TypeOK, Rows!Values
<1>2. \A c \in Connections : /\ setting[c].base \in {"NULL", ""}
                             /\ setting[c].plain = "none" /\ setting[c].local = "none"
  BY DEF Rows!Init, Rows!Fresh, Rows!None
<1>3. \A s \in Requests : session[s] = Rows!NoSession /\ session[s].at = "idle"
  BY DEF Rows!Init, Rows!NoSession
<1> QED
  BY <1>1, <1>2, <1>3 DEF RowsInv

LEMMA RowsOwn == RowsInv => Rows!OwnRowsOnly
<1> SUFFICES ASSUME RowsInv PROVE Rows!OwnRowsOnly
  OBVIOUS
<1> USE EdgeNames
<1>1. ASSUME NEW c \in Connections, Rows!Free(c) PROVE Rows!Sees(c) = {}
  BY <1>1 DEF RowsInv, Rows!Sees, Rows!Current, Rows!None
<1>2. ASSUME NEW s \in Requests, session[s].at = "open"
      PROVE  Rows!Sees(session[s].on) = {session[s].tenant} \cap Tenants
  <2>1. Settled(s) /\ session[s].on \in Connections
    BY <1>2 DEF RowsInv
  <2>2. session[s].tenant \in Tenants \cup {"none"}
    BY DEF RowsInv, Rows!TypeOK, Rows!None
  <2>3. setting[session[s].on].base \in {"NULL", ""}
    BY <2>1 DEF RowsInv
  <2> QED
    BY <1>2, <2>1, <2>2, <2>3 DEF Settled, Rows!Sees, Rows!Current, Rows!None
<1> QED
  BY <1>1, <1>2 DEF Rows!OwnRowsOnly

LEMMA RowsTypes ==
  Rows!TypeOK <=>
    /\ setting \in [Connections -> RowsSetting] /\ session \in [Requests -> RowsSession]
    /\ \A s, o \in Requests :
         session[s].on = session[o].on /\ s # o => session[s] = Rows!NoSession
<1>1. Rows!Values \cup {"NULL"} = Tenants \cup {"", "NULL"}
      /\ Rows!Values \cup {Rows!None} = Tenants \cup {"", "none"}
      /\ Rows!None = "none"
  BY DEF Rows!Values, Rows!None
<1> QED
  BY <1>1, Zenon DEF Rows!TypeOK, RowsSetting, RowsSession

(* A step of one session changes the setting of its own connection only.    *)
LEMMA RowsStep == RowsInv /\ [Rows!Next]_(Rows!rlsVars) => RowsInv'
<1> SUFFICES ASSUME RowsInv, [Rows!Next]_(Rows!rlsVars) PROVE RowsInv'
  OBVIOUS
<1> USE EdgeNames
<1>t. setting \in [Connections -> RowsSetting] /\ session \in [Requests -> RowsSession]
  BY RowsTypes DEF RowsInv
<1>o. \A s, o \in Requests :
        session[s].on = session[o].on /\ s # o => session[s] = Rows!NoSession
  BY DEF RowsInv, Rows!TypeOK
<1>n. Rows!NoSession \in RowsSession /\ Rows!NoSession.at = "idle" /\ Rows!NoSession.on = "none"
  BY DEF Rows!NoSession, Rows!None, RowsSession
<1>1. ASSUME NEW s \in Requests, NEW c \in Connections, NEW t \in Tenants \cup {"none"},
             session[s] = Rows!NoSession, Rows!Free(c), Rows!Take(s, t, c),
             setting' = [setting EXCEPT ![c] = [@ EXCEPT !.local = t]]
      PROVE  RowsInv'
  <2>1. session' = [session EXCEPT ![s] = [at |-> "open", tenant |-> t, on |-> c]]
    BY <1>1 DEF Rows!Take
  <2>2. session' \in [Requests -> RowsSession] /\ setting' \in [Connections -> RowsSetting]
    <3>1. /\ [at |-> "open", tenant |-> t, on |-> c] \in RowsSession
          /\ [setting[c] EXCEPT !.local = t] \in RowsSetting
      BY <1>t DEF RowsSession, RowsSetting
    <3> QED
      BY <1>1, <1>t, <2>1, <3>1
  <2>3. Rows!TypeOK'
    <3>1. ASSUME NEW u \in Requests, NEW o \in Requests,
                 session'[u].on = session'[o].on, u # o
          PROVE  session'[u] = Rows!NoSession
      BY <1>1, <1>t, <1>o, <1>n, <2>1, <3>1 DEF Rows!Free
    <3> QED
      BY <2>2, <3>1 DEF Rows!TypeOK, Rows!Values, Rows!None, RowsSetting, RowsSession
  <2>4. ASSUME NEW d \in Connections
        PROVE  /\ setting'[d].base \in {"NULL", ""}
               /\ Rows!Free(d)' => setting'[d].plain = "none" /\ setting'[d].local = "none"
    <3>1. CASE d = c
      <4>1. session'[s].on = c /\ setting'[c].base = setting[c].base
        BY <1>1, <1>t, <2>1 DEF RowsSetting, RowsSession
      <4> QED
        BY <3>1, <4>1 DEF RowsInv, Rows!Free
    <3>2. CASE d # c
      <4>1. setting'[d] = setting[d]
        BY <1>1, <1>t, <3>2
      <4>2. Rows!Free(d)' => Rows!Free(d)
        <5>1. session[s].on # d
          BY <1>1, <1>n
        <5> QED
          BY <1>t, <2>1, <5>1 DEF Rows!Free
      <4> QED
        BY <4>1, <4>2 DEF RowsInv
    <3> QED
      BY <3>1, <3>2
  <2>5. ASSUME NEW o \in Requests
        PROVE  (IF session[o].at = "idle" THEN session[o] = Rows!NoSession
                ELSE session[o].on \in Connections /\ Settled(o))'
    <3>1. CASE o = s
      <4>1. setting[c].plain = "none"
        BY <1>1 DEF RowsInv
      <4>2. session'[s].at = "open" /\ session'[s].on = c /\ session'[s].tenant = t
        BY <1>t, <2>1
      <4>3. setting'[c].plain = "none" /\ setting'[c].local = t
        BY <1>1, <1>t, <4>1 DEF RowsSetting
      <4> QED
        BY <3>1, <4>2, <4>3 DEF Settled
    <3>2. CASE o # s
      <4>1. session'[o] = session[o] /\ session[o].on # c
        BY <1>1, <1>t, <2>1, <3>2 DEF Rows!Free
      <4> QED
        BY <1>1, <1>t, <4>1 DEF Settled, RowsInv, Rows!NoSession
    <3> QED
      BY <3>1, <3>2
  <2> QED
    BY <2>3, <2>4, <2>5 DEF RowsInv
(* Its stage, and with it what it has left in the setting.                 *)
<1>2. ASSUME NEW s \in Requests, NEW to \in {"finished", "reset"}, NEW v \in RowsSetting,
             session[s].at # "idle", Rows!To(s, to),
             v.base \in {"NULL", ""}, v.local = "none",
             v.plain = IF to = "reset" THEN "" ELSE "none",
             setting' = [setting EXCEPT ![session[s].on] = v]
      PROVE  RowsInv'
  <2> DEFINE c == session[s].on
  <2>0. c \in Connections
    BY <1>2 DEF RowsInv
  <2>1. session' = [session EXCEPT ![s] = [@ EXCEPT !.at = to]]
    BY <1>2 DEF Rows!To
  <2>2. session' \in [Requests -> RowsSession] /\ setting' \in [Connections -> RowsSetting]
    <3>1. [session[s] EXCEPT !.at = to] \in RowsSession
      BY <1>t DEF RowsSession
    <3> QED
      BY <1>2, <1>t, <2>0, <2>1, <3>1
  <2>s. ASSUME NEW o \in Requests
        PROVE  session'[o].on = session[o].on /\ session'[o].tenant = session[o].tenant
    <3>1. session[o] \in RowsSession
      BY <1>t
    <3> QED
      BY <1>t, <2>1, <3>1 DEF RowsSession
  <2>u. \A o \in Requests \ {s} : session'[o] = session[o] /\ session[o].on # c
    BY <1>t, <1>o, <1>n, <2>0, <2>1
  <2>3. Rows!TypeOK'
    <3>1. ASSUME NEW u \in Requests, NEW o \in Requests,
                 session'[u].on = session'[o].on, u # o
          PROVE  session'[u] = Rows!NoSession
      <4>1. session[u] = Rows!NoSession /\ session[o] = Rows!NoSession
        BY <1>o, <2>s, <3>1
      <4> QED
        BY <1>2, <1>n, <2>u, <4>1
    <3> QED
      BY <2>2, <3>1 DEF Rows!TypeOK, Rows!Values, Rows!None, RowsSetting, RowsSession
  <2>4. ASSUME NEW d \in Connections
        PROVE  /\ setting'[d].base \in {"NULL", ""}
               /\ Rows!Free(d)' => setting'[d].plain = "none" /\ setting'[d].local = "none"
    <3>1. CASE d = c
      <4>1. ~Rows!Free(d)' /\ setting'[d] = v
        BY <1>2, <1>t, <2>s, <3>1 DEF Rows!Free
      <4> QED
        BY <1>2, <4>1
    <3>2. CASE d # c
      <4>1. setting'[d] = setting[d] /\ (Rows!Free(d)' <=> Rows!Free(d))
        BY <1>2, <1>t, <2>s, <3>2 DEF Rows!Free
      <4> QED
        BY <4>1 DEF RowsInv
    <3> QED
      BY <3>1, <3>2
  <2>5. ASSUME NEW o \in Requests
        PROVE  (IF session[o].at = "idle" THEN session[o] = Rows!NoSession
                ELSE session[o].on \in Connections /\ Settled(o))'
    <3>1. CASE o = s
      <4>1. setting'[c] = v /\ session'[s].on = c /\ session'[s].at = to
        BY <1>2, <1>t, <2>0, <2>1 DEF RowsSetting, RowsSession
      <4> QED
        BY <1>2, <2>0, <3>1, <4>1 DEF Settled
    <3>2. CASE o # s
      <4>1. session'[o] = session[o] /\ session[o].on # c
        BY <2>u, <3>2
      <4> QED
        BY <1>2, <1>t, <4>1 DEF Settled, RowsInv, Rows!NoSession
    <3> QED
      BY <3>1, <3>2
  <2> QED
    BY <2>3, <2>4, <2>5 DEF RowsInv
(* The connection goes back to the pool, or a fresh one takes its place.    *)
<1>3. ASSUME NEW c \in Connections, NEW v \in RowsSetting,
             v.base \in {"NULL", ""}, v.local = "none", v.plain = "none",
             setting' = [setting EXCEPT ![c] = v],
             \/ Rows!Free(c) /\ session' = session
             \/ \E s \in Requests : /\ session[s].on = c
                                    /\ session' = [session EXCEPT ![s] = Rows!NoSession]
      PROVE  RowsInv'
  <2>1. session' \in [Requests -> RowsSession] /\ setting' \in [Connections -> RowsSetting]
    BY <1>3, <1>t, <1>n
  <2>2. \A o \in Requests : session'[o] = Rows!NoSession \/ session'[o] = session[o]
    BY <1>3, <1>t
  <2>3. ASSUME NEW o \in Requests PROVE session'[o].on # c
    <3>1. CASE Rows!Free(c) /\ session' = session
      BY <3>1 DEF Rows!Free
    <3>2. CASE ~(Rows!Free(c) /\ session' = session)
      <4>1. PICK s \in Requests : /\ session[s].on = c
                                 /\ session' = [session EXCEPT ![s] = Rows!NoSession]
        BY <1>3, <3>2
      <4>2. CASE o = s
        BY <1>t, <1>n, <4>1, <4>2
      <4>3. CASE o # s
        <5>1. session'[o] = session[o]
          BY <1>t, <4>1, <4>3
        <5>2. session[o].on = c => session[o] = Rows!NoSession
          BY <1>o, <4>1, <4>3
        <5> QED
          BY <1>n, <5>1, <5>2
      <4> QED
        BY <4>2, <4>3
    <3> QED
      BY <3>1, <3>2
  <2>4. Rows!TypeOK'
    <3>1. ASSUME NEW u \in Requests, NEW o \in Requests,
                 session'[u].on = session'[o].on, u # o
          PROVE  session'[u] = Rows!NoSession
      <4>1. CASE session'[u] = session[u] /\ session'[o] = session[o]
        BY <1>o, <3>1, <4>1
      <4>2. CASE session'[o] = Rows!NoSession /\ session'[u] = session[u]
        <5>1. session[u].on = "none"
          BY <1>n, <3>1, <4>2
        <5> QED
          BY <4>2, <5>1 DEF RowsInv
      <4> QED
        BY <2>2, <4>1, <4>2
    <3> QED
      BY <2>1, <3>1 DEF Rows!TypeOK, Rows!Values, Rows!None, RowsSetting, RowsSession
  <2>5. ASSUME NEW d \in Connections
        PROVE  /\ setting'[d].base \in {"NULL", ""}
               /\ Rows!Free(d)' => setting'[d].plain = "none" /\ setting'[d].local = "none"
    <3>1. CASE d = c
      BY <1>3, <1>t, <3>1
    <3>2. CASE d # c
      <4>1. setting'[d] = setting[d]
        BY <1>3, <1>t, <3>2
      <4>2. Rows!Free(d)' => Rows!Free(d)
        BY <1>3, <1>t, <3>2 DEF Rows!Free
      <4> QED
        BY <4>1, <4>2 DEF RowsInv
    <3> QED
      BY <3>1, <3>2
  <2>6. ASSUME NEW o \in Requests
        PROVE  (IF session[o].at = "idle" THEN session[o] = Rows!NoSession
                ELSE session[o].on \in Connections /\ Settled(o))'
    <3>1. CASE session'[o] = Rows!NoSession
      BY <1>n, <3>1
    <3>2. CASE session'[o] = session[o]
      <4>1. session[o].on # c
        BY <2>3, <3>2
      <4> QED
        BY <1>3, <1>t, <3>2, <4>1 DEF Settled, RowsInv, Rows!NoSession
    <3> QED
      BY <2>2, <3>1, <3>2
  <2> QED
    BY <2>4, <2>5, <2>6 DEF RowsInv
<1>4. ASSUME NEW s \in Requests, session[s].at # "idle"
      PROVE  /\ setting[session[s].on] \in RowsSetting /\ session[s].on \in Connections
             /\ setting[session[s].on].base \in {"NULL", ""}
             /\ Settled(s)
  BY <1>4, <1>t DEF RowsInv
<1>5. CASE UNCHANGED Rows!rlsVars
  BY <1>5 DEF Rows!rlsVars, RowsInv, Rows!TypeOK, Rows!Free, Settled
<1>6. ASSUME NEW s \in Requests, NEW c \in Connections, Rows!Unscoped(s, c)
      PROVE  RowsInv'
  <2>1. setting[c].local = "none"
    BY <1>6 DEF Rows!Unscoped, RowsInv
  <2>2. setting' = [setting EXCEPT ![c] = [@ EXCEPT !.local = "none"]]
    BY <1>6, <1>t, <2>1 DEF Rows!Unscoped, RowsSetting, RowsSession
  <2> QED
    BY <1>1, <1>6, <2>2 DEF Rows!Unscoped, Rows!None
<1>7. ASSUME NEW s \in Requests, NEW c \in Connections, NEW t \in Tenants, Rows!Scope(s, t, c)
      PROVE  RowsInv'
  BY <1>1, <1>7 DEF Rows!Scope, Rows!SetLocal
<1>8. ASSUME NEW s \in Requests, Rows!Finish(s) PROVE RowsInv'
  <2> DEFINE w == setting[session[s].on]
  <2>1. w \in RowsSetting /\ w.base \in {"NULL", ""} /\ w.plain = "none"
    BY <1>4, <1>8 DEF Rows!Finish, Settled
  <2>2. /\ Rows!Commit(w) \in RowsSetting /\ Rows!Commit(w).base \in {"NULL", ""}
        /\ Rows!Commit(w).local = "none" /\ Rows!Commit(w).plain = "none"
    BY <2>1 DEF Rows!Commit, Rows!Fresh, Rows!Forgotten, Rows!None, RowsSetting, RowsSession
  <2>3. /\ Rows!Rollback(w) \in RowsSetting /\ Rows!Rollback(w).base \in {"NULL", ""}
        /\ Rows!Rollback(w).local = "none" /\ Rows!Rollback(w).plain = "none"
    BY <2>1 DEF Rows!Rollback, Rows!Fresh, Rows!Forgotten, Rows!None, RowsSetting, RowsSession
  <2>4. \/ setting' = [setting EXCEPT ![session[s].on] = Rows!Commit(w)]
        \/ setting' = [setting EXCEPT ![session[s].on] = Rows!Rollback(w)]
    BY <1>8 DEF Rows!Finish
  <2>5. session[s].at # "idle" /\ Rows!To(s, "finished")
    BY <1>8 DEF Rows!Finish
  <2> QED
    BY <1>2, <2>2, <2>3, <2>4, <2>5
<1>9. ASSUME NEW s \in Requests, Rows!ResetTenant(s) PROVE RowsInv'
  <2> DEFINE w == setting[session[s].on]
  <2>1. w \in RowsSetting /\ w.base \in {"NULL", ""}
    BY <1>4, <1>9 DEF Rows!ResetTenant
  <2>2. /\ Rows!Reset(w) \in RowsSetting /\ Rows!Reset(w).base \in {"NULL", ""}
        /\ Rows!Reset(w).local = "none" /\ Rows!Reset(w).plain = ""
    BY <2>1 DEF Rows!Reset, Rows!Set, Rows!None, RowsSetting, RowsSession
  <2>3. session[s].at # "idle" /\ Rows!To(s, "reset")
        /\ setting' = [setting EXCEPT ![session[s].on] = Rows!Reset(w)]
    BY <1>9 DEF Rows!ResetTenant
  <2> QED
    BY <1>2, <2>2, <2>3
<1>10. ASSUME NEW s \in Requests, Rows!Close(s) PROVE RowsInv'
  <2> DEFINE w == setting[session[s].on]
  <2>1. w \in RowsSetting /\ w.base \in {"NULL", ""} /\ w.plain \in {"", "none"}
        /\ session[s].on \in Connections
    BY <1>4, <1>10 DEF Rows!Close, Settled
  <2>2. /\ Rows!Rollback(w) \in RowsSetting /\ Rows!Rollback(w).base \in {"NULL", ""}
        /\ Rows!Rollback(w).local = "none" /\ Rows!Rollback(w).plain = "none"
    BY <2>1 DEF Rows!Rollback, Rows!Fresh, Rows!Forgotten, Rows!None, RowsSetting, RowsSession
  <2>3. /\ setting' = [setting EXCEPT ![session[s].on] = Rows!Rollback(w)]
        /\ session' = [session EXCEPT ![s] = Rows!NoSession]
    BY <1>10 DEF Rows!Close
  <2> QED
    BY <1>3, <2>1, <2>2, <2>3
<1>11. ASSUME NEW c \in Connections, Rows!Reconnect(c) PROVE RowsInv'
  <2>1. /\ Rows!Fresh \in RowsSetting /\ Rows!Fresh.base = "NULL"
        /\ Rows!Fresh.local = "none" /\ Rows!Fresh.plain = "none"
    BY DEF Rows!Fresh, Rows!None, RowsSetting, RowsSession
  <2> QED
    BY <1>3, <1>11, <2>1 DEF Rows!Reconnect
<1> QED
  BY <1>5, <1>6, <1>7, <1>8, <1>9, <1>10, <1>11 DEF Rows!Next

(* ----------------------------------------------------------------- Tenancy *)

(* What the middleware has established for a dispatched request, and what   *)
(* the refusal or the handling of one means.                                *)
Dispatched ==
  /\ tenant = Tenancy!Resolved /\ ~Tenancy!Refused
  /\ scopes = IF Tenancy!credential.kind = "key" /\ Tenancy!credential.scopes # {}
              THEN [set |-> TRUE, value |-> Tenancy!credential.scopes]
              ELSE [set |-> FALSE, value |-> {}]

TenancyInv ==
  /\ Tenancy!TypeOK
  /\ stage = "arrived" => tenant = "none" /\ scopes = [set |-> FALSE, value |-> {}]
  /\ stage = "dispatched" => Dispatched
  /\ Tenancy!HandledIffEntitled

LEMMA TenancyInit == Tenancy!Init => TenancyInv
<1> SUFFICES ASSUME Tenancy!Init PROVE TenancyInv
  OBVIOUS
<1>1. Tenancy!TypeOK
  BY DEF Tenancy!Init, Tenancy!TypeOK, Tenancy!None, Tenancy!Granted
<1> QED
  BY <1>1 DEF Tenancy!Init, TenancyInv, Tenancy!None, Tenancy!HandledIffEntitled

(* The three kinds of credential.                                           *)
LEMMA CredentialKinds ==
  ASSUME Tenancy!TypeOK
  PROVE  /\ Tenancy!credential.scopes \in SUBSET (Scopes \cup {"admin:*"})
         /\ Tenancy!credential.tenant \in Tenants \cup {"none"}
         /\ call.header \in Tenants \cup {"none"}
         /\ call.scope \in Scopes /\ call.auth \in BOOLEAN
         /\ \/ /\ Tenancy!credential.kind = "jwt" /\ Tenancy!credential.usable = TRUE
               /\ Tenancy!credential.type \in {"access", "refresh"}
            \/ /\ Tenancy!credential.kind = "key" /\ Tenancy!credential.usable \in BOOLEAN
               /\ Tenancy!credential.type = "none" /\ Tenancy!credential.tenant \in Tenants
            \/ /\ Tenancy!credential.kind = "none" /\ Tenancy!credential.usable = FALSE
               /\ Tenancy!credential.type = "none" /\ Tenancy!credential.scopes = {}
<1>1. call \in Tenancy!Calls
  BY DEF Tenancy!TypeOK
<1>2. /\ Tenancy!credential \in Tenancy!Tokens \cup Tenancy!Keys \cup {Tenancy!NoCredential}
      /\ call.header \in Tenants \cup {"none"}
      /\ call.scope \in Scopes /\ call.auth \in BOOLEAN
  BY <1>1 DEF Tenancy!Calls, Tenancy!credential, Tenancy!None
<1>3. CASE Tenancy!credential \in Tenancy!Tokens
  BY <1>2, <1>3 DEF Tenancy!Tokens, Tenancy!Granted, Tenancy!Admin, Tenancy!None
<1>4. CASE Tenancy!credential \in Tenancy!Keys
  BY <1>2, <1>4 DEF Tenancy!Keys, Tenancy!Granted, Tenancy!Admin, Tenancy!None
<1>5. CASE Tenancy!credential = Tenancy!NoCredential
  BY <1>2, <1>5 DEF Tenancy!NoCredential, Tenancy!None
<1> QED
  BY <1>2, <1>3, <1>4, <1>5

(* A request the middleware refuses entitles to no tenant.                  *)
LEMMA RefusedEntitlesNobody ==
  ASSUME Tenancy!TypeOK, Tenancy!Refused, NEW t \in Tenants
  PROVE  ~Tenancy!Entitled(t)
  BY CredentialKinds, EdgeNames
     DEF Tenancy!Refused, Tenancy!Entitled, Tenancy!MayOverride, Tenancy!IsAdmin,
         Tenancy!Resolved, Tenancy!Admin, Tenancy!None

(* The dependencies let a dispatched request through exactly when it is     *)
(* entitled to the tenant the middleware resolved, and to no other.         *)
LEMMA HandledExactly ==
  ASSUME Tenancy!TypeOK, Dispatched
  PROVE  /\ tenant # "none" /\ Tenancy!Allowed => Tenancy!Entitled(tenant)
         /\ ~(tenant # "none" /\ Tenancy!Allowed) => \A t \in Tenants : ~Tenancy!Entitled(t)
<1> USE EdgeNames DEF Dispatched
<1>1. tenant # "none" => tenant \in Tenants
  BY DEF Tenancy!TypeOK, Tenancy!None
<1>2. Tenancy!credential.kind = "key" => Tenancy!credential.usable
      /\ Tenancy!MayOverride /\ tenant = Tenancy!Resolved
  BY DEF Tenancy!Refused
<1>3. CASE Tenancy!credential.kind = "jwt"
  <2>1. /\ scopes.set = FALSE /\ Tenancy!credential.usable
        /\ Tenancy!credential.type \in {"access", "refresh"}
    BY <1>3, CredentialKinds
  <2>2. Tenancy!Allowed <=> /\ Tenancy!credential.type = "access"
                            /\ Tenancy!credential.scopes \cap {call.scope, "admin:*"} # {}
    BY <1>3, <2>1 DEF Tenancy!Allowed, Tenancy!CurrentUser, Tenancy!Holds, Tenancy!Admin
  <2>3. \A t \in Tenants : Tenancy!Entitled(t) => t = tenant
    BY <1>2 DEF Tenancy!Entitled, Tenancy!Resolved, Tenancy!None, Tenancy!IsAdmin
  <2>4. \/ tenant = Tenancy!credential.tenant /\ call.header \in {"none", tenant}
        \/ Tenancy!IsAdmin /\ tenant = call.header
    BY DEF Tenancy!Refused, Tenancy!MayOverride, Tenancy!Resolved, Tenancy!None
  <2>5. Tenancy!Entitled(tenant) <=> Tenancy!Allowed
    BY <2>1, <2>2, <2>4 DEF Tenancy!Entitled, Tenancy!None, Tenancy!Admin
  <2> QED
    BY <1>1, <2>3, <2>5
<1>4. CASE Tenancy!credential.kind = "key"
  <2>1. Tenancy!credential.usable /\ Tenancy!credential.type = "none"
    BY <1>2, <1>4, CredentialKinds
  <2>2. ~Tenancy!IsAdmin /\ call.header \in {"none", Tenancy!credential.tenant}
        /\ tenant = Tenancy!credential.tenant
    BY <1>2, <1>4
       DEF Tenancy!IsAdmin, Tenancy!MayOverride, Tenancy!Resolved, Tenancy!None
  <2>3. Tenancy!Allowed <=> Tenancy!credential.scopes \cap {call.scope, "admin:*"} # {}
    BY <1>4 DEF Tenancy!Allowed, Tenancy!CurrentUser, Tenancy!Holds, Tenancy!Admin
  <2>4. \A t \in Tenants : Tenancy!Entitled(t) => t = tenant
    BY <2>2 DEF Tenancy!Entitled
  <2>5. tenant # "none" => (Tenancy!Entitled(tenant) <=> Tenancy!Allowed)
    BY <2>1, <2>2, <2>3 DEF Tenancy!Entitled, Tenancy!None, Tenancy!Admin
  <2> QED
    BY <1>1, <2>4, <2>5
<1>5. CASE Tenancy!credential.kind = "none"
  <2>1. Tenancy!credential.scopes = {} /\ ~Tenancy!credential.usable
    BY <1>5, CredentialKinds
  <2>2. ~Tenancy!Allowed
    BY <1>5 DEF Tenancy!Allowed, Tenancy!CurrentUser
  <2> QED
    BY <2>1, <2>2 DEF Tenancy!Entitled
<1> QED
  BY <1>3, <1>4, <1>5, CredentialKinds

LEMMA TenancyStep == TenancyInv /\ [Tenancy!Next]_(Tenancy!tenancyVars) => TenancyInv'
<1> SUFFICES ASSUME TenancyInv, [Tenancy!Next]_(Tenancy!tenancyVars) PROVE TenancyInv'
  OBVIOUS
<1> USE EdgeNames
<1>0. Tenancy!TypeOK
  BY DEF TenancyInv
<1>1. CASE Tenancy!Dispatch /\ Tenancy!Refused
  <2>1. /\ stage' = "refused" /\ UNCHANGED <<call, tenant, scopes>>
    BY <1>1 DEF Tenancy!Dispatch
  <2>2. \A t \in Tenants : ~Tenancy!Entitled(t)
    BY <1>0, <1>1, RefusedEntitlesNobody
  <2>3. Tenancy!HandledIffEntitled'
    BY <2>1, <2>2
       DEF Tenancy!HandledIffEntitled, Tenancy!Entitled, Tenancy!credential, Tenancy!IsAdmin
  <2>4. Tenancy!TypeOK'
    BY <1>0, <2>1 DEF Tenancy!TypeOK
  <2> QED
    BY <2>1, <2>3, <2>4 DEF TenancyInv
<1>2. CASE Tenancy!Dispatch /\ ~Tenancy!Refused
  <2>1. /\ stage = "arrived" /\ stage' = "dispatched" /\ call' = call
        /\ tenant' = Tenancy!Resolved
        /\ scopes' = IF Tenancy!credential.kind = "key" /\ Tenancy!credential.scopes # {}
                     THEN [set |-> TRUE, value |-> Tenancy!credential.scopes] ELSE scopes
    BY <1>2 DEF Tenancy!Dispatch
  <2>2. Dispatched'
    BY <1>2, <2>1
       DEF TenancyInv, Dispatched, Tenancy!Resolved, Tenancy!Refused, Tenancy!credential,
           Tenancy!MayOverride, Tenancy!IsAdmin
  <2>3. Tenancy!TypeOK'
    BY <1>0, <2>1, CredentialKinds
       DEF Tenancy!TypeOK, Tenancy!Resolved, Tenancy!None, Tenancy!Granted, Tenancy!Admin
  <2> QED
    BY <2>1, <2>2, <2>3 DEF TenancyInv, Tenancy!HandledIffEntitled
<1>3. CASE Tenancy!Handle
  <2>1. /\ stage = "dispatched" /\ UNCHANGED <<call, tenant, scopes>>
        /\ stage' = IF tenant # "none" /\ Tenancy!Allowed THEN "handled" ELSE "refused"
    BY <1>3 DEF Tenancy!Handle, Tenancy!None
  <2>2. /\ tenant # "none" /\ Tenancy!Allowed => Tenancy!Entitled(tenant)
        /\ ~(tenant # "none" /\ Tenancy!Allowed) => \A t \in Tenants : ~Tenancy!Entitled(t)
    BY <1>0, <2>1, HandledExactly DEF TenancyInv
  <2>3. \A t : Tenancy!Entitled(t)' <=> Tenancy!Entitled(t)
    BY <2>1 DEF Tenancy!Entitled, Tenancy!credential, Tenancy!IsAdmin
  <2>4. Tenancy!HandledIffEntitled'
    BY <2>1, <2>2, <2>3 DEF Tenancy!HandledIffEntitled, Tenancy!None
  <2>5. Tenancy!TypeOK'
    BY <1>0, <2>1 DEF Tenancy!TypeOK
  <2> QED
    BY <2>1, <2>4, <2>5 DEF TenancyInv
<1>4. CASE UNCHANGED Tenancy!tenancyVars
  BY <1>4
     DEF Tenancy!tenancyVars, TenancyInv, Tenancy!TypeOK, Dispatched, Tenancy!Resolved,
         Tenancy!Refused, Tenancy!MayOverride, Tenancy!IsAdmin, Tenancy!credential,
         Tenancy!HandledIffEntitled, Tenancy!Entitled
<1> QED
  BY <1>1, <1>2, <1>3, <1>4 DEF Tenancy!Next

(* ---------------------------------------------------------- RuleEvaluation *)

AnyRule == [action : {"BLOCK", "REVIEW", "ALLOW"}, outcome : {"hit", "miss", "raise"},
            canary : BOOLEAN, percent : 0..100, bucket : 0..99]

(* s[n] is the result after the first n rules, up to k.                     *)
Loops(s, rs, k) ==
  s = [n \in 0..k |-> IF n = 0 THEN Evaluation!NoHit
                      ELSE Evaluation!Applied(s[n - 1], rs[n], n)]

LEMMA LoopExists ==
  ASSUME NEW rs, NEW N \in Nat
  PROVE  \E s : Loops(s, rs, N)
<1> DEFINE S == {k \in Nat : \E s : Loops(s, rs, k)}
<1>1. 0 \in S
  <2>1. Loops([n \in 0..0 |-> Evaluation!NoHit], rs, 0)
    BY DEF Loops
  <2> QED
    BY <2>1
<1>2. ASSUME NEW k \in S PROVE k + 1 \in S
  <2>0. k \in Nat /\ k + 1 \in Nat /\ \E s : Loops(s, rs, k)
    OBVIOUS
  <2>1. PICK s : Loops(s, rs, k)
    BY <2>0
  <2> DEFINE g == [n \in 0..(k + 1) |-> IF n = k + 1
                   THEN Evaluation!Applied(s[k], rs[k + 1], k + 1) ELSE s[n]]
  <2>2. ASSUME NEW n \in 0..(k + 1)
        PROVE  g[n] = IF n = 0 THEN Evaluation!NoHit
                      ELSE Evaluation!Applied(g[n - 1], rs[n], n)
    <3>1. CASE n = k + 1
      <4>1. n # 0 /\ n - 1 = k /\ k # k + 1 /\ k \in 0..(k + 1) /\ g[k] = s[k]
        BY <2>0, <3>1
      <4>2. g[n] = Evaluation!Applied(s[k], rs[k + 1], k + 1)
        BY <3>1
      <4> QED
        BY <3>1, <4>1, <4>2
    <3>2. CASE n # k + 1
      <4>1. n \in 0..k /\ g[n] = s[n] /\ (n # 0 => n - 1 \in 0..(k + 1) /\ n - 1 # k + 1)
        BY <2>0, <3>2
      <4>2. s[n] = IF n = 0 THEN Evaluation!NoHit
                   ELSE Evaluation!Applied(s[n - 1], rs[n], n)
        BY <2>1, <4>1 DEF Loops
      <4>3. n # 0 => g[n - 1] = s[n - 1]
        BY <4>1
      <4> QED
        BY <4>1, <4>2, <4>3
    <3> QED
      BY <3>1, <3>2
  <2>3. Loops(g, rs, k + 1)
    BY <2>2 DEF Loops
  <2> QED
    BY <2>0, <2>3
<1>3. S \in SUBSET Nat
  OBVIOUS
<1> HIDE DEF S
<1>4. S = Nat
  BY <1>1, <1>2, <1>3, Induction
<1> QED
  BY <1>4 DEF S

LEMMA LoopIs ==
  ASSUME NEW rs \in Seq(AnyRule)
  PROVE  \E s : Loops(s, rs, Len(rs)) /\ Evaluation!EvaluateRules(rs) = s[Len(rs)]
<1> DEFINE after == CHOOSE s : Loops(s, rs, Len(rs))
<1>1. Loops(after, rs, Len(rs))
  BY LoopExists
<1>2. Evaluation!EvaluateRules(rs) = after[Len(rs)]
  BY DEF Evaluation!EvaluateRules, Loops
<1> QED
  BY <1>1, <1>2

(* What the loop has made of the first n rules.                             *)
Met(rs, n, action) ==
  \E i \in 1..n : Evaluation!Applies(rs[i]) /\ rs[i].action = action

Reported(rs, n) ==
  {m \in 1..n : /\ Evaluation!Applies(rs[m])
                /\ \A l \in 1..(m - 1) : ~Evaluation!Blocks(rs[l])}

StrictestOf(rs, n) ==
  IF Met(rs, n, "BLOCK") THEN "BLOCK" ELSE IF Met(rs, n, "REVIEW") THEN "REVIEW" ELSE "ALLOW"

HitsAre(reports, rs, n) ==
  /\ reports \in Seq(1..n)
  /\ \A i, j \in 1..Len(reports) : i < j => reports[i] < reports[j]
  /\ \A i \in 1..Len(reports) : reports[i] \in Reported(rs, n)
  /\ \A m \in Reported(rs, n) : \E i \in 1..Len(reports) : reports[i] = m

Explains(rs, n, result) ==
  /\ result.action = StrictestOf(rs, n)
  /\ result.stopped \in BOOLEAN
  /\ result.stopped <=> Met(rs, n, "BLOCK")
  /\ HitsAre(result.hits, rs, n)

LEMMA NothingExplained == ASSUME NEW rs PROVE Explains(rs, 0, Evaluation!NoHit)
  BY DEF Explains, HitsAre, StrictestOf, Met, Reported, Evaluation!NoHit

(* A rule that applies adds itself to what is met; a rule that does not     *)
(* adds nothing.                                                            *)
LEMMA MetGrows ==
  ASSUME NEW rs \in Seq(AnyRule), NEW n \in 1..Len(rs), NEW action
  PROVE  Met(rs, n, action) <=>
           Met(rs, n - 1, action) \/ (Evaluation!Applies(rs[n]) /\ rs[n].action = action)
<1>1. 1..n = 1..(n - 1) \cup {n}
  OBVIOUS
<1> QED
  BY <1>1 DEF Met

LEMMA ReportedGrows ==
  ASSUME NEW rs \in Seq(AnyRule), NEW n \in 1..Len(rs)
  PROVE  Reported(rs, n) =
           Reported(rs, n - 1) \cup
             (IF Evaluation!Applies(rs[n]) /\ ~Met(rs, n - 1, "BLOCK") THEN {n} ELSE {})
<1>1. 1..n = 1..(n - 1) \cup {n}
  OBVIOUS
<1>2. Met(rs, n - 1, "BLOCK") <=> \E l \in 1..(n - 1) : Evaluation!Blocks(rs[l])
  BY DEF Met, Evaluation!Blocks
<1> QED
  BY <1>1, <1>2 DEF Reported

(* The loop skips what the canary does not serve.                           *)
LEMMA SkippedIs ==
  ASSUME NEW rule \in AnyRule
  PROVE  Evaluation!Skipped(rule) <=> ~Evaluation!Served(rule)
<1>1. rule.percent \in 0..100 /\ rule.bucket \in 0..99
  BY DEF AnyRule
<1>2. \A p \in 0..100, b \in 0..99 : b >= p <=> b \notin 0..(p - 1)
  OBVIOUS
<1>3. rule.bucket >= rule.percent <=> rule.bucket \notin 0..(rule.percent - 1)
  BY <1>1, <1>2, Zenon
<1> QED
  BY <1>3, Zenon DEF Evaluation!Skipped, Evaluation!Served

LEMMA AppliedExplains ==
  ASSUME NEW rs \in Seq(AnyRule), NEW n \in 1..Len(rs), NEW result,
         Explains(rs, n - 1, result)
  PROVE  Explains(rs, n, Evaluation!Applied(result, rs[n], n))
<1> DEFINE rule == rs[n]
           next == Evaluation!Applied(result, rule, n)
           adds == ~result.stopped /\ Evaluation!Applies(rule)
<1>0. /\ rule \in AnyRule /\ n \in Nat /\ n - 1 \in Nat
      /\ Evaluation!Skipped(rule) <=> ~Evaluation!Served(rule)
  BY SkippedIs
<1>1. /\ result.action = StrictestOf(rs, n - 1)
      /\ result.stopped \in BOOLEAN
      /\ result.stopped <=> Met(rs, n - 1, "BLOCK")
      /\ HitsAre(result.hits, rs, n - 1)
  BY DEF Explains
<1>2. ASSUME NEW action
      PROVE  Met(rs, n, action) <=>
               Met(rs, n - 1, action) \/ (Evaluation!Applies(rule) /\ rule.action = action)
  BY MetGrows
<1>3. Reported(rs, n) = Reported(rs, n - 1) \cup
        (IF Evaluation!Applies(rule) /\ ~Met(rs, n - 1, "BLOCK") THEN {n} ELSE {})
  BY ReportedGrows
<1> HIDE DEF rule
<1>4. CASE adds
  <2>1. /\ next = [action |-> Evaluation!Verdict(result.action, rule),
                   hits |-> Append(result.hits, n),
                   stopped |-> rule.action = "BLOCK"]
        /\ Evaluation!Applies(rule) /\ ~Met(rs, n - 1, "BLOCK")
    BY <1>0, <1>1, <1>4 DEF Evaluation!Applied, Evaluation!Applies
  <2>2. /\ next.action = Evaluation!Verdict(result.action, rule)
        /\ next.hits = Append(result.hits, n)
        /\ next.stopped = (rule.action = "BLOCK")
    BY ONLY <2>1
  <2>3. /\ Met(rs, n, "BLOCK") <=> rule.action = "BLOCK"
        /\ Met(rs, n, "REVIEW") <=> Met(rs, n - 1, "REVIEW") \/ rule.action = "REVIEW"
    BY <1>2, <2>1
  <2>4. next.action = StrictestOf(rs, n)
    BY <1>0, <1>1, <2>1, <2>2, <2>3 DEF StrictestOf, Evaluation!Verdict
  <2>5. next.stopped \in BOOLEAN /\ (next.stopped <=> Met(rs, n, "BLOCK"))
    BY <2>2, <2>3
  <2>6. HitsAre(next.hits, rs, n)
    <3> DEFINE shorter == result.hits
               longer == Append(shorter, n)
    <3>1. /\ shorter \in Seq(1..(n - 1)) /\ Len(shorter) \in Nat
          /\ \A i \in 1..Len(shorter) : shorter[i] \in 1..(n - 1) /\ shorter[i] \in Reported(rs, n - 1)
      BY <1>1 DEF HitsAre
    <3>2. /\ longer \in Seq(1..n) /\ Len(longer) = Len(shorter) + 1
          /\ \A i \in 1..Len(shorter) : longer[i] = shorter[i]
          /\ longer[Len(shorter) + 1] = n
      <4>1. shorter \in Seq(1..n)
        BY <1>0, <3>1
      <4> HIDE DEF shorter
      <4> QED
        BY <1>0, <3>1, <4>1
    <3>3. Reported(rs, n) = Reported(rs, n - 1) \cup {n}
      BY <1>3, <2>1
    <3>4. \A i, j \in 1..Len(shorter) : i < j => shorter[i] < shorter[j]
      BY <1>1 DEF HitsAre
    <3>5. \A m \in Reported(rs, n - 1) : \E i \in 1..Len(shorter) : shorter[i] = m
      BY <1>1 DEF HitsAre
    <3> HIDE DEF shorter, longer
    <3>6. ASSUME NEW i \in 1..Len(longer), NEW j \in 1..Len(longer), i < j
          PROVE  longer[i] < longer[j]
      <4>1. i \in 1..Len(shorter) /\ longer[i] = shorter[i] /\ shorter[i] \in 1..(n - 1)
        BY <3>1, <3>2, <3>6
      <4>2. CASE j = Len(shorter) + 1
        BY <1>0, <3>1, <3>2, <4>1, <4>2
      <4>3. CASE j # Len(shorter) + 1
        <5>1. j \in 1..Len(shorter) /\ longer[j] = shorter[j]
          BY <3>1, <3>2, <4>3
        <5> QED
          BY <3>4, <3>6, <4>1, <5>1
      <4> QED
        BY <4>2, <4>3
    <3>7. ASSUME NEW i \in 1..Len(longer) PROVE longer[i] \in Reported(rs, n)
      <4>1. i = Len(shorter) + 1 \/ i \in 1..Len(shorter)
        BY <3>1, <3>2
      <4> QED
        BY <3>1, <3>2, <3>3, <4>1
    <3>8. ASSUME NEW m \in Reported(rs, n) PROVE \E i \in 1..Len(longer) : longer[i] = m
      <4>1. CASE m = n
        <5>1. Len(shorter) + 1 \in 1..Len(longer)
          BY <3>1, <3>2
        <5> QED
          BY <3>2, <4>1, <5>1
      <4>2. CASE m # n
        <5>1. PICK i \in 1..Len(shorter) : shorter[i] = m
          BY <3>3, <3>5, <4>2
        <5>2. i \in 1..Len(longer) /\ longer[i] = m
          BY <3>1, <3>2, <5>1
        <5> QED
          BY <5>2
      <4> QED
        BY <4>1, <4>2
    <3>9. HitsAre(longer, rs, n)
      BY <3>2, <3>6, <3>7, <3>8 DEF HitsAre
    <3> QED
      BY <2>2, <3>9 DEF longer, shorter
  <2> HIDE DEF next
  <2>7. Explains(rs, n, next)
    BY <2>4, <2>5, <2>6 DEF Explains
  <2> QED
    BY <2>7 DEF next, rule
<1>5. CASE ~adds
  <2>1. next = result
    BY <1>0, <1>5 DEF Evaluation!Applied, Evaluation!Applies
  <2>2. Met(rs, n - 1, "BLOCK") \/ ~Evaluation!Applies(rule)
    BY <1>1, <1>5
  <2>3. StrictestOf(rs, n) = StrictestOf(rs, n - 1) /\ (Met(rs, n, "BLOCK") <=> Met(rs, n - 1, "BLOCK"))
    BY <1>2, <2>2 DEF StrictestOf
  <2>4. Reported(rs, n) = Reported(rs, n - 1)
    BY <1>3, <2>2
  <2>5. HitsAre(result.hits, rs, n)
    <3>1. /\ result.hits \in Seq(1..n)
      BY <1>0, <1>1 DEF HitsAre
    <3> QED
      BY <1>1, <2>4, <3>1 DEF HitsAre
  <2>6. Explains(rs, n, result)
    BY <1>1, <2>3, <2>5 DEF Explains
  <2> HIDE DEF next
  <2>7. Explains(rs, n, next)
    BY <2>1, <2>6
  <2> QED
    BY <2>7 DEF next, rule
<1> QED
  BY <1>4, <1>5 DEF rule

(* The verdict and the hits of the whole list.                              *)
LEMMA EvaluationExplained ==
  ASSUME NEW rs \in Seq(AnyRule)
  PROVE  Explains(rs, Len(rs), Evaluation!EvaluateRules(rs))
<1>1. PICK s : Loops(s, rs, Len(rs)) /\ Evaluation!EvaluateRules(rs) = s[Len(rs)]
  BY LoopIs
<1> DEFINE S == {n \in Nat : n <= Len(rs) => Explains(rs, n, s[n])}
<1>0. Len(rs) \in Nat
  OBVIOUS
<1>2. 0 \in S
  <2>1. s[0] = Evaluation!NoHit
    BY <1>0, <1>1 DEF Loops
  <2> QED
    BY <2>1, NothingExplained
<1>3. ASSUME NEW n \in S PROVE n + 1 \in S
  <2>0. n \in Nat /\ (n <= Len(rs) => Explains(rs, n, s[n]))
    OBVIOUS
  <2> SUFFICES ASSUME n + 1 <= Len(rs) PROVE Explains(rs, n + 1, s[n + 1])
    BY <2>0
  <2> HIDE DEF S
  <2>1. n + 1 \in 1..Len(rs) /\ n + 1 \in 0..Len(rs) /\ n + 1 # 0 /\ (n + 1) - 1 = n /\ n <= Len(rs)
    BY <1>0, <2>0
  <2>2. s[n + 1] = Evaluation!Applied(s[(n + 1) - 1], rs[n + 1], n + 1)
    BY <1>1, <2>1 DEF Loops
  <2>3. PICK k : k = n + 1
    OBVIOUS
  <2>4. k \in 1..Len(rs) /\ k - 1 = n /\ Explains(rs, k - 1, s[k - 1])
    BY <2>0, <2>1, <2>3
  <2>5. Explains(rs, k, Evaluation!Applied(s[k - 1], rs[k], k))
    BY <2>4, AppliedExplains
  <2> QED
    BY <2>2, <2>3, <2>5
<1>4. S \in SUBSET Nat
  OBVIOUS
<1>5. S = Nat
  <2> HIDE DEF S
  <2> QED
    BY <1>2, <1>3, <1>4, Induction
<1> QED
  BY <1>0, <1>1, <1>5

(* The type invariant is all that is needed: the rest holds of every list.  *)
RulesInv == Evaluation!TypeOK

LEMMA RulesAre ==
  ASSUME RulesInv
  PROVE  rules \in Seq(AnyRule)
<1>1. CompiledRules \subseteq AnyRule
  BY EdgeAssumption DEF AnyRule
<1> HIDE DEF AnyRule
<1>2. rules \in Seq(CompiledRules)
  BY DEF RulesInv, Evaluation!TypeOK
<1> QED
  BY <1>1, <1>2

LEMMA VerdictIs ==
  ASSUME NEW rs \in Seq(AnyRule)
  PROVE  Evaluation!EvaluateRules(rs).action = Evaluation!Strictest(rs)
<1>1. DOMAIN rs = 1..Len(rs)
  OBVIOUS
<1> QED
  BY <1>1, EvaluationExplained
     DEF Explains, StrictestOf, Met, Evaluation!Strictest, Evaluation!Blocks

LEMMA RulesDecide ==
  ASSUME RulesInv
  PROVE  Evaluation!VerdictIsStrictest
<1> DEFINE found == Evaluation!EvaluateRules(rules).hits
           named == {n \in DOMAIN rules :
                       /\ Evaluation!Applies(rules[n])
                       /\ \A m \in 1..(n - 1) : ~Evaluation!Blocks(rules[m])}
<1>1. rules \in Seq(AnyRule) /\ DOMAIN rules = 1..Len(rules)
  BY RulesAre
<1>2. HitsAre(found, rules, Len(rules))
  BY <1>1, EvaluationExplained DEF Explains
<1>3. named = Reported(rules, Len(rules))
  BY <1>1 DEF Reported
<1>4. Evaluation!EvaluateRules(rules).action = Evaluation!Strictest(rules)
  BY <1>1, VerdictIs
<1> HIDE DEF found, named
<1>5. DOMAIN found = 1..Len(found)
  BY <1>2 DEF HitsAre
<1>6. \A i, j \in DOMAIN found : i < j => found[i] < found[j]
  BY <1>2, <1>5 DEF HitsAre
<1>7. {found[i] : i \in DOMAIN found} = named
  BY <1>2, <1>3, <1>5 DEF HitsAre
<1> QED
  BY <1>4, <1>6, <1>7, Zenon DEF Evaluation!VerdictIsStrictest, found, named

(* Where no rule applies less, the verdict is no weaker.                    *)
LEMMA MoreIsNoWeaker ==
  ASSUME NEW rs \in Seq(AnyRule), NEW qs \in Seq(AnyRule), Len(qs) = Len(rs),
         \A n \in 1..Len(rs) : /\ qs[n].action = rs[n].action
                               /\ Evaluation!Applies(rs[n]) => Evaluation!Applies(qs[n])
  PROVE  Evaluation!Severity[Evaluation!EvaluateRules(qs).action]
           >= Evaluation!Severity[Evaluation!EvaluateRules(rs).action]
<1>1. \A action : Met(rs, Len(rs), action) => Met(qs, Len(rs), action)
  BY DEF Met
<1>2. /\ Evaluation!EvaluateRules(rs).action = StrictestOf(rs, Len(rs))
      /\ Evaluation!EvaluateRules(qs).action = StrictestOf(qs, Len(rs))
  BY EvaluationExplained DEF Explains
<1>3. /\ Evaluation!Severity["ALLOW"] = 0 /\ Evaluation!Severity["REVIEW"] = 1
      /\ Evaluation!Severity["BLOCK"] = 2
  BY DEF Evaluation!Severity
<1> QED
  BY <1>1, <1>2, <1>3 DEF StrictestOf

LEMMA SameIsNoOther ==
  ASSUME NEW rs \in Seq(AnyRule), NEW qs \in Seq(AnyRule), Len(qs) = Len(rs),
         \A n \in 1..Len(rs) : /\ qs[n].action = rs[n].action
                               /\ Evaluation!Applies(rs[n]) <=> Evaluation!Applies(qs[n])
  PROVE  Evaluation!EvaluateRules(qs).action = Evaluation!EvaluateRules(rs).action
<1>1. \A action : Met(rs, Len(rs), action) <=> Met(qs, Len(rs), action)
  BY DEF Met
<1>2. /\ Evaluation!EvaluateRules(rs).action = StrictestOf(rs, Len(rs))
      /\ Evaluation!EvaluateRules(qs).action = StrictestOf(qs, Len(rs))
  BY EvaluationExplained DEF Explains
<1> QED
  BY <1>1, <1>2 DEF StrictestOf

(* The rules with one replaced.                                             *)
LEMMA ReplacedRule ==
  ASSUME NEW rs \in Seq(AnyRule), NEW i \in 1..Len(rs), NEW rule \in AnyRule
  PROVE  /\ [rs EXCEPT ![i] = rule] \in Seq(AnyRule)
         /\ Len([rs EXCEPT ![i] = rule]) = Len(rs)
         /\ [rs EXCEPT ![i] = rule][i] = rule
         /\ \A n \in 1..Len(rs) : n # i => [rs EXCEPT ![i] = rule][n] = rs[n]
  OBVIOUS

(* A canary with a wider share, and at last with all of it.                 *)
LEMMA WiderRule ==
  ASSUME NEW rule \in AnyRule, rule.canary, NEW p \in 0..100, p >= rule.percent
  PROVE  LET wider == [rule EXCEPT !.percent = p]
         IN /\ wider \in AnyRule /\ wider.action = rule.action
            /\ Evaluation!Applies(rule) => Evaluation!Applies(wider)
<1>1. PICK wider : wider = [rule EXCEPT !.percent = p]
  OBVIOUS
<1>2. /\ wider \in AnyRule /\ wider.action = rule.action /\ wider.percent = p
      /\ wider.bucket = rule.bucket /\ wider.outcome = rule.outcome /\ wider.canary = rule.canary
  BY <1>1 DEF AnyRule
<1>3. rule.percent \in Nat /\ rule.bucket \in Nat
  BY DEF AnyRule
<1>4. Evaluation!Applies(rule) => Evaluation!Applies(wider)
  BY <1>2, <1>3 DEF Evaluation!Applies, Evaluation!Served
<1> QED
  BY <1>1, <1>2, <1>4

LEMMA FullRule ==
  ASSUME NEW rule \in AnyRule
  PROVE  LET all == [rule EXCEPT !.percent = 100]
             full == [rule EXCEPT !.canary = FALSE]
         IN /\ all \in AnyRule /\ full \in AnyRule /\ all.action = full.action
            /\ Evaluation!Applies(full) <=> Evaluation!Applies(all)
<1>1. PICK all : all = [rule EXCEPT !.percent = 100]
  OBVIOUS
<1>2. PICK full : full = [rule EXCEPT !.canary = FALSE]
  OBVIOUS
<1>3. /\ all \in AnyRule /\ all.action = rule.action /\ all.percent = 100
      /\ all.bucket = rule.bucket /\ all.outcome = rule.outcome
  BY <1>1 DEF AnyRule
<1>4. /\ full \in AnyRule /\ full.action = rule.action /\ ~full.canary
      /\ full.outcome = rule.outcome
  BY <1>2 DEF AnyRule
<1>5. rule.bucket \in 0..99
  BY DEF AnyRule
<1>6. Evaluation!Applies(full) <=> Evaluation!Applies(all)
  BY <1>3, <1>4, <1>5 DEF Evaluation!Applies, Evaluation!Served
<1> QED
  BY <1>1, <1>2, <1>3, <1>4, <1>6

LEMMA EmptyRule ==
  ASSUME NEW rule \in AnyRule, rule.canary
  PROVE  LET none == [rule EXCEPT !.percent = 0]
             missing == [rule EXCEPT !.outcome = "miss"]
         IN /\ none \in AnyRule /\ missing \in AnyRule /\ none.action = missing.action
            /\ Evaluation!Applies(missing) <=> Evaluation!Applies(none)
<1>1. PICK none : none = [rule EXCEPT !.percent = 0]
  OBVIOUS
<1>2. PICK missing : missing = [rule EXCEPT !.outcome = "miss"]
  OBVIOUS
<1>3. /\ none \in AnyRule /\ none.action = rule.action /\ none.percent = 0 /\ none.canary
  BY <1>1 DEF AnyRule
<1>4. missing \in AnyRule /\ missing.action = rule.action /\ missing.outcome = "miss"
  BY <1>2 DEF AnyRule
<1>5. ~Evaluation!Applies(none) /\ ~Evaluation!Applies(missing)
  BY <1>3, <1>4 DEF Evaluation!Applies, Evaluation!Served
<1> QED
  BY <1>1, <1>2, <1>3, <1>4, <1>5

LEMMA RulesWiden ==
  ASSUME RulesInv
  PROVE  Evaluation!WideningNeverWeakens
<1>1. rules \in Seq(AnyRule) /\ DOMAIN rules = 1..Len(rules)
  BY RulesAre
<1>2. Percents \subseteq 0..100
  BY EdgeAssumption
<1>3. ASSUME NEW i \in 1..Len(rules), rules[i].canary, NEW p \in Percents, p >= rules[i].percent
      PROVE  Evaluation!Severity[Evaluation!EvaluateRules([rules EXCEPT ![i].percent = p]).action]
               >= Evaluation!Severity[Evaluation!EvaluateRules(rules).action]
  <2> DEFINE wider == [rules[i] EXCEPT !.percent = p]
             qs == [rules EXCEPT ![i] = wider]
  <2>1. rules[i] \in AnyRule /\ p \in 0..100
    BY <1>1, <1>2
  <2>2. /\ wider \in AnyRule /\ wider.action = rules[i].action
        /\ Evaluation!Applies(rules[i]) => Evaluation!Applies(wider)
    BY <1>3, <2>1, WiderRule
  <2> HIDE DEF wider
  <2>3. /\ qs \in Seq(AnyRule) /\ Len(qs) = Len(rules) /\ qs[i] = wider
        /\ \A n \in 1..Len(rules) : n # i => qs[n] = rules[n]
    BY <1>1, <2>2, ReplacedRule
  <2> HIDE DEF qs
  <2>4. Evaluation!Severity[Evaluation!EvaluateRules(qs).action]
          >= Evaluation!Severity[Evaluation!EvaluateRules(rules).action]
    BY <1>1, <2>2, <2>3, MoreIsNoWeaker
  <2> QED
    BY <2>4 DEF qs, wider
<1>4. ASSUME NEW i \in 1..Len(rules), rules[i].canary
      PROVE  Evaluation!EvaluateRules([rules EXCEPT ![i].percent = 100]).action
               = Evaluation!EvaluateRules([rules EXCEPT ![i].canary = FALSE]).action
  <2> DEFINE all == [rules[i] EXCEPT !.percent = 100]
             full == [rules[i] EXCEPT !.canary = FALSE]
             qs == [rules EXCEPT ![i] = all]
             rs == [rules EXCEPT ![i] = full]
  <2>1. rules[i] \in AnyRule
    BY <1>1
  <2>2. /\ all \in AnyRule /\ full \in AnyRule /\ all.action = full.action
        /\ Evaluation!Applies(full) <=> Evaluation!Applies(all)
    BY <2>1, FullRule
  <2> HIDE DEF all, full
  <2>3. /\ qs \in Seq(AnyRule) /\ Len(qs) = Len(rules) /\ qs[i] = all
        /\ \A n \in 1..Len(rules) : n # i => qs[n] = rules[n]
    BY <1>1, <2>2, ReplacedRule
  <2>4. /\ rs \in Seq(AnyRule) /\ Len(rs) = Len(rules) /\ rs[i] = full
        /\ \A n \in 1..Len(rules) : n # i => rs[n] = rules[n]
    BY <1>1, <2>2, ReplacedRule
  <2> HIDE DEF qs, rs
  <2>5. Evaluation!EvaluateRules(qs).action = Evaluation!EvaluateRules(rs).action
    BY <2>2, <2>3, <2>4, SameIsNoOther
  <2> QED
    BY <2>5 DEF qs, rs, all, full
<1>5. ASSUME NEW i \in 1..Len(rules), rules[i].canary
      PROVE  Evaluation!EvaluateRules([rules EXCEPT ![i].percent = 0]).action
               = Evaluation!EvaluateRules([rules EXCEPT ![i].outcome = "miss"]).action
  <2> DEFINE none == [rules[i] EXCEPT !.percent = 0]
             missing == [rules[i] EXCEPT !.outcome = "miss"]
             qs == [rules EXCEPT ![i] = none]
             rs == [rules EXCEPT ![i] = missing]
  <2>1. rules[i] \in AnyRule
    BY <1>1
  <2>2. /\ none \in AnyRule /\ missing \in AnyRule /\ none.action = missing.action
        /\ Evaluation!Applies(missing) <=> Evaluation!Applies(none)
    BY <1>5, <2>1, EmptyRule
  <2> HIDE DEF none, missing
  <2>3. /\ qs \in Seq(AnyRule) /\ Len(qs) = Len(rules) /\ qs[i] = none
        /\ \A n \in 1..Len(rules) : n # i => qs[n] = rules[n]
    BY <1>1, <2>2, ReplacedRule
  <2>4. /\ rs \in Seq(AnyRule) /\ Len(rs) = Len(rules) /\ rs[i] = missing
        /\ \A n \in 1..Len(rules) : n # i => rs[n] = rules[n]
    BY <1>1, <2>2, ReplacedRule
  <2> HIDE DEF qs, rs
  <2>5. Evaluation!EvaluateRules(qs).action = Evaluation!EvaluateRules(rs).action
    BY <2>2, <2>3, <2>4, SameIsNoOther
  <2> QED
    BY <2>5 DEF qs, rs, none, missing
<1> QED
  BY <1>1, <1>3, <1>4, <1>5 DEF Evaluation!WideningNeverWeakens

LEMMA RulesInit == Evaluation!Init => RulesInv
  BY DEF Evaluation!Init, RulesInv, Evaluation!TypeOK

LEMMA RulesStep == RulesInv /\ [Evaluation!Next]_rules => RulesInv'
  BY DEF Evaluation!Next, Evaluation!AppendRule, RulesInv, Evaluation!TypeOK

(* ----------------------------------------------------------- RuleLanguage *)

LEMMA UpTo ==
  ASSUME NEW N \in Nat, NEW S, 0 \in S, \A n \in 0..(N - 1) : n \in S => n + 1 \in S
  PROVE  \A n \in 0..N : n \in S
<1> DEFINE R == {n \in Nat : n <= N => n \in S}
<1>1. 0 \in R
  OBVIOUS
<1>2. \A n \in R : n + 1 \in R
  OBVIOUS
<1>3. R \in SUBSET Nat
  OBVIOUS
<1> HIDE DEF R
<1>4. R = Nat
  BY <1>1, <1>2, <1>3, Induction
<1> QED
  BY <1>4 DEF R

(* s repeats g on x.                                                       *)
Repeats(s, N, x, g) == s = [n \in 0..N |-> IF n = 0 THEN x ELSE g[s[n - 1]]]

LEMMA RepetitionExists ==
  ASSUME NEW X, NEW x \in X, NEW g \in [X -> X], NEW N \in Nat
  PROVE  \E s \in [0..N -> X] : Repeats(s, N, x, g)
<1> DEFINE S == {k \in Nat : \E s \in [0..k -> X] : Repeats(s, k, x, g)}
<1>1. 0 \in S
  <2> DEFINE s == [n \in 0..0 |-> x]
  <2>1. s \in [0..0 -> X]
    OBVIOUS
  <2>2. Repeats(s, 0, x, g)
    BY DEF Repeats
  <2> QED
    BY <2>1, <2>2
<1>2. ASSUME NEW k \in S PROVE k + 1 \in S
  <2>1. PICK s \in [0..k -> X] : Repeats(s, k, x, g)
    OBVIOUS
  <2>2. k \in Nat
    OBVIOUS
  <2> HIDE DEF S
  <2> DEFINE r == [n \in 0..(k + 1) |-> IF n = k + 1 THEN g[s[k]] ELSE s[n]]
  <2>3. r \in [0..(k + 1) -> X]
    BY <2>2
  <2>4. ASSUME NEW n \in 0..(k + 1)
        PROVE  r[n] = IF n = 0 THEN x ELSE g[r[n - 1]]
    <3>1. CASE n = k + 1
      <4>1. n - 1 \in 0..(k + 1) /\ n - 1 # k + 1 /\ n - 1 = k /\ n # 0
        BY <2>2, <3>1
      <4> QED
        BY <3>1, <4>1
    <3>2. CASE n # k + 1
      <4>1. n \in 0..k /\ r[n] = s[n]
        BY <2>2, <3>2
      <4>2. s[n] = IF n = 0 THEN x ELSE g[s[n - 1]]
        BY <2>1, <4>1 DEF Repeats
      <4>3. n # 0 => n - 1 \in 0..(k + 1) /\ n - 1 # k + 1
        BY <2>2, <3>2
      <4> QED
        BY <4>1, <4>2, <4>3
    <3> QED
      BY <3>1, <3>2
  <2>5. Repeats(r, k + 1, x, g)
    BY <2>4 DEF Repeats
  <2> QED
    BY <2>2, <2>3, <2>5 DEF S
<1>3. S \in SUBSET Nat
  OBVIOUS
<1> HIDE DEF S
<1>4. S = Nat
  BY <1>1, <1>2, <1>3, Induction
<1> QED
  BY <1>4 DEF S

(* ---------------------------------------------------------------- trees *)

Node == [op : {"none", "cmp", "&&", "||"}, parts : Seq(SUBSET Language!Payloads)]
Result == [ok : BOOLEAN, pos : Nat, expr : Node]

LEMMA NodesAre ==
  /\ Language!Rejected \in Result
  /\ \A a \in Atoms : Language!Leaf(a) \in Node /\ Language!Value(Language!Leaf(a)) = Language!Hits(a) /\ Language!Hits(a) \in SUBSET Language!Payloads
  /\ \A e \in Node, p \in Nat : Language!Parsed(e, p) \in Result
<1>1. Language!Rejected \in Result
  BY DEF Language!Rejected, Result, Node
<1>2. ASSUME NEW a \in Atoms
      PROVE  Language!Leaf(a) \in Node /\ Language!Value(Language!Leaf(a)) = Language!Hits(a) /\ Language!Hits(a) \in SUBSET Language!Payloads
  <2>1. PICK h : h = Language!Hits(a)
    OBVIOUS
  <2>2. h \in SUBSET Language!Payloads
    BY <2>1 DEF Language!Hits
  <2>3. Language!Leaf(a) = [op |-> "cmp", parts |-> <<h>>]
    BY <2>1 DEF Language!Leaf
  <2> QED
    BY <2>1, <2>2, <2>3 DEF Node, Language!Value
<1>3. \A e \in Node, p \in Nat : Language!Parsed(e, p) \in Result
  BY DEF Language!Parsed, Result
<1> QED
  BY <1>1, <1>2, <1>3

LEMMA JoinIs ==
  ASSUME NEW op \in {"&&", "||"}, NEW held \in Node, NEW right \in Node
  PROVE  /\ Language!Join(op, held, right) \in Node
         /\ Language!Value(Language!Join(op, held, right)) = Language!Combined(op, Language!Value(held), Language!Value(right))
<1>1. PICK v : v = Language!Value(held)
  OBVIOUS
<1>2. PICK w : w = Language!Value(right)
  OBVIOUS
<1>3. v \in SUBSET Language!Payloads /\ w \in SUBSET Language!Payloads
  BY <1>1, <1>2 DEF Language!Value
<1>4. PICK s : s = IF held.op = op THEN held.parts ELSE <<v>>
  OBVIOUS
<1>5. s \in Seq(SUBSET Language!Payloads)
  <2>1. held.parts \in Seq(SUBSET Language!Payloads)
    BY DEF Node
  <2>2. <<v>> \in Seq(SUBSET Language!Payloads)
    BY <1>3
  <2> QED
    BY <1>4, <2>1, <2>2
<1>6. PICK q : q = Append(s, w)
  OBVIOUS
<1>7. /\ q \in Seq(SUBSET Language!Payloads) /\ DOMAIN q = 1..(Len(s) + 1) /\ Len(s) \in Nat
      /\ \A i \in 1..Len(s) : q[i] = s[i]
      /\ q[Len(s) + 1] = w /\ DOMAIN s = 1..Len(s)
  BY <1>3, <1>5, <1>6
<1>8. Language!Join(op, held, right) = [op |-> op, parts |-> q]
  BY <1>1, <1>2, <1>4, <1>6 DEF Language!Join
<1>9. v = IF op = "||" THEN {tx \in Language!Payloads : \E i \in DOMAIN s : tx \in s[i]}
          ELSE {tx \in Language!Payloads : \A i \in DOMAIN s : tx \in s[i]}
  <2>1. CASE held.op = op
    BY <1>1, <1>4, <2>1 DEF Language!Value
  <2>2. CASE held.op # op
    <3>1. DOMAIN s = {1} /\ s[1] = v
      BY <1>4, <2>2
    <3> QED
      BY <1>3, <3>1
  <2> QED
    BY <2>1, <2>2
<1>10. DOMAIN q = DOMAIN s \cup {Len(s) + 1}
  BY <1>7
<1>11. Language!Value([op |-> op, parts |-> q]) = Language!Combined(op, v, w)
  <2>1. CASE op = "||"
    <3>1. Language!Value([op |-> op, parts |-> q]) = {tx \in Language!Payloads : \E i \in DOMAIN q : tx \in q[i]}
      BY <2>1 DEF Language!Value
    <3>2. \A tx : (\E i \in DOMAIN q : tx \in q[i]) <=> (\E i \in DOMAIN s : tx \in s[i]) \/ tx \in w
      BY <1>7, <1>10
    <3> QED
      BY <1>3, <1>9, <2>1, <3>1, <3>2 DEF Language!Combined
  <2>2. CASE op = "&&"
    <3>1. Language!Value([op |-> op, parts |-> q]) = {tx \in Language!Payloads : \A i \in DOMAIN q : tx \in q[i]}
      BY <2>2 DEF Language!Value
    <3>2. \A tx : (\A i \in DOMAIN q : tx \in q[i]) <=> (\A i \in DOMAIN s : tx \in s[i]) /\ tx \in w
      BY <1>7, <1>10
    <3> QED
      BY <1>3, <1>9, <2>2, <3>1, <3>2 DEF Language!Combined
  <2> QED
    BY <2>1, <2>2
<1> QED
  BY <1>1, <1>2, <1>7, <1>8, <1>11 DEF Node

(* ------------------------------------------------- parser and phrases *)

Phrase(t, F) == [from : Language!Positions(t), to : Language!Positions(t), meaning : F]

(* A family of sets of transactions that and-ing and or-ing do not leave.  *)
Family(t, F) ==
  /\ F \subseteq SUBSET Language!Payloads
  /\ \A S, T \in F : S \cup T \in F /\ S \cap T \in F
  /\ \A i \in DOMAIN t : t[i] \in Atoms => Language!Hits(t[i]) \in F

(* What the parser function returns is a phrase, and a phrase that no token*)
(* of ops follows is what it returns.                                      *)
Covers(phrases, pos, result) ==
  result.ok => [from |-> pos, to |-> result.pos, meaning |-> Language!Value(result.expr)] \in phrases

Returns(t, ops, phrases, operand) ==
  \A p \in phrases : Language!At(t, p.to) \notin ops =>
    /\ operand[p.from].ok
    /\ operand[p.from].pos = p.to
    /\ Language!Value(operand[p.from].expr) = p.meaning

Agree(t, ops, phrases, operand) ==
  /\ operand \in [Language!Positions(t) -> Result]
  /\ \A pos \in Language!Positions(t) : Covers(phrases, pos, operand[pos])
  /\ Returns(t, ops, phrases, operand)

LEMMA TokenAt ==
  ASSUME NEW t \in Seq(Language!Tokens), NEW pos \in Nat, NEW tok \in Language!Tokens, Language!At(t, pos) = tok
  PROVE  pos \in DOMAIN t /\ t[pos] = tok /\ pos \in Language!Positions(t) /\ pos + 1 \in Language!Positions(t)
<1>1. tok # "end"
  BY LanguageAssumption DEF Language!Tokens, Language!Connectives
<1>2. pos \in DOMAIN t /\ t[pos] = tok
  BY <1>1 DEF Language!At
<1>3. DOMAIN t = 1..Len(t) /\ Len(t) \in Nat
  OBVIOUS
<1> QED
  BY <1>2, <1>3 DEF Language!Positions

LEMMA ConnectivesAre ==
  /\ \A c \in Language!Connectives : c \in Language!Tokens /\ c \notin Atoms /\ c # "end"
  /\ "(" \in Language!Connectives /\ ")" \in Language!Connectives /\ "&&" \in Language!Connectives /\ "||" \in Language!Connectives
  BY LanguageAssumption DEF Language!Tokens, Language!Connectives

(* ------------------------------------------------------- one comparison *)

LEMMA ComparisonPhrases ==
  ASSUME NEW t \in Seq(Language!Tokens), NEW F, Family(t, F), NEW inner \in SUBSET Phrase(t, F)
  PROVE  Language!Comparison(t, inner) \in SUBSET Phrase(t, F)
<1>1. DOMAIN t = 1..Len(t) /\ Len(t) \in Nat
  OBVIOUS
<1>2. ASSUME NEW i \in DOMAIN t, t[i] \in Atoms
      PROVE  [from |-> i, to |-> i + 1, meaning |-> Language!Hits(t[i])] \in Phrase(t, F)
  BY <1>1, <1>2 DEF Family, Phrase, Language!Positions
<1>3. ASSUME NEW q \in inner, Language!At(t, q.from - 1) = "(", Language!At(t, q.to) = ")"
      PROVE  [from |-> q.from - 1, to |-> q.to + 1, meaning |-> q.meaning] \in Phrase(t, F)
  <2>1. q.from \in Language!Positions(t) /\ q.to \in Language!Positions(t) /\ q.meaning \in F
    BY DEF Phrase
  <2>2. q.from - 1 \in Nat /\ q.to \in Nat
    BY <1>1, <2>1 DEF Language!Positions
  <2>3. q.from - 1 \in Language!Positions(t) /\ q.to + 1 \in Language!Positions(t)
    BY <1>3, <2>2, TokenAt, ConnectivesAre
  <2> QED
    BY <2>1, <2>3 DEF Phrase
<1> QED
  BY <1>2, <1>3 DEF Language!Comparison

LEMMA CmpAgrees ==
  ASSUME NEW t \in Seq(Language!Tokens), NEW F, Family(t, F), NEW inner \in SUBSET Phrase(t, F),
         NEW parser, Agree(t, {"&&", "||"}, inner, parser)
  PROVE  Agree(t, {}, Language!Comparison(t, inner), Language!ParseCmp(t, parser))
<1>1. DOMAIN t = 1..Len(t) /\ Len(t) \in Nat
  OBVIOUS
<1> DEFINE cmp == Language!ParseCmp(t, parser)
<1>2. ASSUME NEW pos \in Language!Positions(t)
      PROVE  /\ cmp[pos] \in Result
             /\ Covers(Language!Comparison(t, inner), pos, cmp[pos])
  <2>0. pos \in Nat
    BY <1>1 DEF Language!Positions
  <2>1. CASE Language!At(t, pos) = "("
    <3>1. pos + 1 \in Language!Positions(t)
      BY <2>0, <2>1, TokenAt, ConnectivesAre
    <3>2. parser[pos + 1] \in Result /\ Covers(inner, pos + 1, parser[pos + 1])
      BY <3>1 DEF Agree
    <3>3. PICK e : e = parser[pos + 1]
      OBVIOUS
    <3>4. e.pos \in Nat /\ e.expr \in Node
      BY <3>2, <3>3 DEF Result
    <3>5. CASE e.ok /\ Language!At(t, e.pos) = ")"
      <4>1. cmp[pos] = Language!Parsed(e.expr, e.pos + 1)
        BY <2>1, <3>3, <3>5 DEF Language!ParseCmp
      <4>2. cmp[pos] \in Result
        BY <3>4, <4>1, NodesAre
      <4>3. PICK q : q = [from |-> pos + 1, to |-> e.pos, meaning |-> Language!Value(e.expr)]
        OBVIOUS
      <4>4. q \in inner
        BY <3>2, <3>3, <3>5, <4>3 DEF Covers
      <4>5. q.from - 1 = pos /\ q.to = e.pos /\ q.meaning = Language!Value(e.expr)
        BY <2>0, <4>3
      <4>6. [from |-> q.from - 1, to |-> q.to + 1, meaning |-> q.meaning] \in Language!Comparison(t, inner)
        BY <2>1, <3>5, <4>4, <4>5 DEF Language!Comparison
      <4>7. [from |-> pos, to |-> e.pos + 1, meaning |-> Language!Value(e.expr)] \in Language!Comparison(t, inner)
        BY <4>5, <4>6
      <4> QED
        BY <4>1, <4>2, <4>7 DEF Covers, Language!Parsed
    <3>6. CASE ~(e.ok /\ Language!At(t, e.pos) = ")")
      <4>1. cmp[pos] = Language!Rejected
        BY <2>1, <3>3, <3>6 DEF Language!ParseCmp
      <4> QED
        BY <4>1, NodesAre DEF Covers, Language!Rejected
    <3> QED
      BY <3>5, <3>6
  <2>2. CASE Language!At(t, pos) \in Atoms
    <3>1. pos \in DOMAIN t /\ t[pos] \in Atoms
      BY <2>0, <2>2, LanguageAssumption DEF Language!At
    <3>2. Language!At(t, pos) # "("
      BY <2>2, ConnectivesAre
    <3>3. cmp[pos] = Language!Parsed(Language!Leaf(t[pos]), pos + 1)
      BY <2>2, <3>2 DEF Language!ParseCmp
    <3>4. cmp[pos] \in Result
      BY <2>0, <3>1, <3>3, NodesAre
    <3>5. Language!Value(Language!Leaf(t[pos])) = Language!Hits(t[pos])
      BY <3>1, NodesAre
    <3>6. [from |-> pos, to |-> pos + 1, meaning |-> Language!Hits(t[pos])] \in Language!Comparison(t, inner)
      BY <3>1 DEF Language!Comparison
    <3> QED
      BY <3>3, <3>4, <3>5, <3>6 DEF Covers, Language!Parsed
  <2>3. CASE Language!At(t, pos) # "(" /\ Language!At(t, pos) \notin Atoms
    <3>1. cmp[pos] = Language!Rejected
      BY <2>3 DEF Language!ParseCmp
    <3> QED
      BY <3>1, NodesAre DEF Covers, Language!Rejected
  <2> QED
    BY <2>1, <2>2, <2>3
<1>3. ASSUME NEW p \in Language!Comparison(t, inner)
      PROVE  cmp[p.from].ok /\ cmp[p.from].pos = p.to /\ Language!Value(cmp[p.from].expr) = p.meaning
  <2>1. CASE \E i \in DOMAIN t : /\ t[i] \in Atoms
                                 /\ p = [from |-> i, to |-> i + 1, meaning |-> Language!Hits(t[i])]
    <3>1. PICK i \in DOMAIN t : /\ t[i] \in Atoms
                                /\ p = [from |-> i, to |-> i + 1, meaning |-> Language!Hits(t[i])]
      BY <2>1
    <3>2. i \in Language!Positions(t) /\ Language!At(t, i) = t[i] /\ t[i] # "("
      BY <1>1, <3>1, ConnectivesAre DEF Language!Positions, Language!At
    <3>3. cmp[i] = Language!Parsed(Language!Leaf(t[i]), i + 1)
      BY <3>1, <3>2 DEF Language!ParseCmp
    <3>4. Language!Value(Language!Leaf(t[i])) = Language!Hits(t[i])
      BY <3>1, NodesAre
    <3> QED
      BY <3>1, <3>3, <3>4 DEF Language!Parsed
  <2>2. CASE \E q \in inner : /\ Language!At(t, q.from - 1) = "(" /\ Language!At(t, q.to) = ")"
                              /\ p = [from |-> q.from - 1, to |-> q.to + 1, meaning |-> q.meaning]
    <3>1. PICK q \in inner : /\ Language!At(t, q.from - 1) = "(" /\ Language!At(t, q.to) = ")"
                             /\ p = [from |-> q.from - 1, to |-> q.to + 1, meaning |-> q.meaning]
      BY <2>2
    <3>2. q.from \in 1..(Len(t) + 1)
      BY DEF Phrase, Language!Positions
    <3>3. q.from - 1 \in Nat /\ (q.from - 1) + 1 = q.from
      BY <1>1, <3>2
    <3>4. q.from - 1 \in Language!Positions(t)
      BY <3>1, <3>3, TokenAt, ConnectivesAre
    <3>5. Language!At(t, q.to) \notin {"&&", "||"}
      BY <3>1
    <3>6. PICK e : e = parser[q.from]
      OBVIOUS
    <3>7. e.ok /\ e.pos = q.to /\ Language!Value(e.expr) = q.meaning
      BY <3>5, <3>6 DEF Agree, Returns
    <3>8. cmp[q.from - 1] = Language!Parsed(e.expr, e.pos + 1)
      BY <3>1, <3>3, <3>4, <3>6, <3>7 DEF Language!ParseCmp
    <3> QED
      BY <3>1, <3>7, <3>8 DEF Language!Parsed
  <2> QED
    BY <2>1, <2>2 DEF Language!Comparison
<1>4. cmp \in [Language!Positions(t) -> Result]
  <2>1. cmp = [pos \in Language!Positions(t) |-> cmp[pos]]
    BY DEF Language!ParseCmp
  <2> HIDE DEF cmp
  <2> QED
    BY <1>2, <2>1
<1> HIDE DEF cmp
<1>5. Agree(t, {}, Language!Comparison(t, inner), cmp)
  BY <1>2, <1>3, <1>4 DEF Agree, Returns
<1> QED
  BY <1>5 DEF cmp

(* --------------------------------------------------------------- chains *)

LEMMA CombinedIs ==
  ASSUME NEW t, NEW F, Family(t, F), NEW op, NEW S \in F, NEW T \in F
  PROVE  Language!Combined(op, S, T) \in F
  BY DEF Family, Language!Combined

LEMMA LongerPhrases ==
  ASSUME NEW t \in Seq(Language!Tokens), NEW F, Family(t, F), NEW op,
         NEW operands \in SUBSET Phrase(t, F), NEW phrases \in SUBSET Phrase(t, F)
  PROVE  Language!Longer(t, op, operands, phrases) \in SUBSET Phrase(t, F)
<1>1. ASSUME NEW a \in phrases, NEW b \in operands
      PROVE  [from |-> a.from, to |-> b.to, meaning |-> Language!Combined(op, a.meaning, b.meaning)] \in Phrase(t, F)
  <2>1. /\ a.from \in Language!Positions(t) /\ a.meaning \in F
        /\ b.to \in Language!Positions(t) /\ b.meaning \in F
    BY DEF Phrase
  <2>2. Language!Combined(op, a.meaning, b.meaning) \in F
    BY <2>1, CombinedIs
  <2> QED
    BY <2>1, <2>2 DEF Phrase
<1> QED
  BY <1>1 DEF Language!Longer

(* chains[n]: n + 1 operands with the operator between them.               *)
Chains(chains, t, op, operands) ==
  /\ chains[0] = operands
  /\ \A n \in 0..(Len(t) - 1) : chains[n + 1] = Language!Longer(t, op, operands, chains[n])
  /\ Language!Chain(t, op, operands) = UNION {chains[n] : n \in 0..Len(t)}

LEMMA ChainIs ==
  ASSUME NEW t \in Seq(Language!Tokens), NEW F, Family(t, F), NEW op,
         NEW operands \in SUBSET Phrase(t, F)
  PROVE  \E chains \in [0..Len(t) -> SUBSET Phrase(t, F)] : Chains(chains, t, op, operands)
<1> DEFINE X == SUBSET Phrase(t, F)
           g == [ps \in X |-> Language!Longer(t, op, operands, ps)]
           Def(s) == s = [n \in 0..Len(t) |->
                            IF n = 0 THEN operands ELSE Language!Longer(t, op, operands, s[n - 1])]
           chains == CHOOSE s : Def(s)
<1>1. Len(t) \in Nat
  OBVIOUS
<1>2. \A ps \in X : g[ps] = Language!Longer(t, op, operands, ps) /\ g[ps] \in X
  BY LongerPhrases
<1>3. g \in [X -> X]
  BY <1>2
<1>4. ASSUME NEW s \in [0..Len(t) -> X], Repeats(s, Len(t), operands, g) PROVE Def(s)
  <2>1. \A n \in 0..Len(t) : n # 0 => n - 1 \in 0..Len(t)
    BY <1>1
  <2>2. \A n \in 0..Len(t) : n # 0 => g[s[n - 1]] = Language!Longer(t, op, operands, s[n - 1])
    BY <1>2, <2>1
  <2> QED
    BY <1>4, <2>2 DEF Repeats
<1> HIDE DEF X, g
<1>5. PICK s \in [0..Len(t) -> X] : Repeats(s, Len(t), operands, g)
  BY <1>1, <1>3, RepetitionExists DEF X
<1>6. Def(s)
  BY <1>4, <1>5
<1>7. Def(chains)
  <2> HIDE DEF Def
  <2> QED
    BY <1>6
<1>8. ASSUME NEW n \in 0..(Len(t) - 1) PROVE n + 1 \in 0..Len(t) /\ n + 1 # 0 /\ (n + 1) - 1 = n
  BY <1>1
<1>9. Language!Chain(t, op, operands) = UNION {chains[n] : n \in 0..Len(t)}
  BY DEF Language!Chain
<1>10. \A n \in 0..Len(t) : chains[n] = IF n = 0 THEN operands
                                       ELSE Language!Longer(t, op, operands, chains[n - 1])
  BY <1>7
<1> HIDE DEF chains, Def
<1>11. chains[0] = operands /\ \A n \in 0..(Len(t) - 1) :
                                 chains[n + 1] = Language!Longer(t, op, operands, chains[n])
  BY <1>1, <1>8, <1>10
<1>12. DOMAIN chains = 0..Len(t) /\ chains = [n \in 0..Len(t) |-> chains[n]]
  BY <1>7 DEF Def
<1>13. \A n \in 0..Len(t) : chains[n] \in X
  <2> DEFINE S == {n \in 0..Len(t) : chains[n] \in X}
  <2>1. 0 \in S
    BY <1>1, <1>11 DEF X
  <2>2. \A n \in 0..(Len(t) - 1) : n \in S => n + 1 \in S
    BY <1>8, <1>11, LongerPhrases DEF X
  <2> HIDE DEF S
  <2>3. \A n \in 0..Len(t) : n \in S
    BY <1>1, <2>1, <2>2, UpTo
  <2> QED
    BY <2>3 DEF S
<1>14. chains \in [0..Len(t) -> X]
  BY <1>12, <1>13
<1>15. Chains(chains, t, op, operands)
  BY <1>9, <1>11 DEF Chains
<1> QED
  BY <1>14, <1>15 DEF X

LEMMA ChainPhrases ==
  ASSUME NEW t \in Seq(Language!Tokens), NEW F, Family(t, F), NEW op,
         NEW operands \in SUBSET Phrase(t, F)
  PROVE  Language!Chain(t, op, operands) \in SUBSET Phrase(t, F)
<1>1. PICK chains \in [0..Len(t) -> SUBSET Phrase(t, F)] : Chains(chains, t, op, operands)
  BY ChainIs
<1> QED
  BY <1>1 DEF Chains

(* left[n]: what the loop holds after n turns.                             *)
Turns(held, t, op, operand, pos) ==
  /\ held[0] = operand[pos]
  /\ \A n \in 0..(Len(t) - 1) : held[n + 1] = Language!OneMore(t, op, operand, held[n])
  /\ Language!ParseChain(t, op, operand)[pos] = held[Len(t)]

LEMMA OneMoreIs ==
  ASSUME NEW t \in Seq(Language!Tokens), NEW op \in {"&&", "||"},
         NEW operand \in [Language!Positions(t) -> Result], NEW held \in Result
  PROVE  /\ Language!OneMore(t, op, operand, held) \in Result
         /\ held.ok /\ Language!At(t, held.pos) = op => held.pos + 1 \in Language!Positions(t)
<1>1. held.ok /\ Language!At(t, held.pos) = op => held.pos + 1 \in Language!Positions(t)
  BY TokenAt, ConnectivesAre DEF Result, Language!Connectives
<1>2. CASE ~held.ok \/ Language!At(t, held.pos) # op
  BY <1>1, <1>2 DEF Language!OneMore
<1>3. CASE held.ok /\ Language!At(t, held.pos) = op
  <2>1. PICK right : right = operand[held.pos + 1]
    OBVIOUS
  <2>2. right \in Result
    BY <1>1, <1>3, <2>1
  <2>3. right.expr \in Node /\ right.pos \in Nat /\ held.expr \in Node
    BY <2>2 DEF Result
  <2>4. PICK j : j = Language!Join(op, held.expr, right.expr)
    OBVIOUS
  <2>5. j \in Node
    BY <2>3, <2>4, JoinIs
  <2>6. Language!OneMore(t, op, operand, held) = IF right.ok THEN Language!Parsed(j, right.pos) ELSE Language!Rejected
    BY <1>3, <2>1, <2>4 DEF Language!OneMore
  <2> QED
    BY <1>1, <2>3, <2>5, <2>6, NodesAre
<1> QED
  BY <1>2, <1>3

LEMMA TurnsAre ==
  ASSUME NEW t \in Seq(Language!Tokens), NEW op \in {"&&", "||"},
         NEW operand \in [Language!Positions(t) -> Result], NEW pos \in Language!Positions(t)
  PROVE  \E held \in [0..Len(t) -> Result] : Turns(held, t, op, operand, pos)
<1> DEFINE g == [r \in Result |-> Language!OneMore(t, op, operand, r)]
           Def(s) == s = [n \in 0..Len(t) |->
                            IF n = 0 THEN operand[pos] ELSE Language!OneMore(t, op, operand, s[n - 1])]
           held == CHOOSE s : Def(s)
<1>1. Len(t) \in Nat
  OBVIOUS
<1>2. \A r \in Result : g[r] = Language!OneMore(t, op, operand, r) /\ g[r] \in Result
  BY OneMoreIs
<1>3. g \in [Result -> Result]
  BY <1>2
<1>4. ASSUME NEW s \in [0..Len(t) -> Result], Repeats(s, Len(t), operand[pos], g) PROVE Def(s)
  <2>1. \A n \in 0..Len(t) : n # 0 => n - 1 \in 0..Len(t)
    BY <1>1
  <2>2. \A n \in 0..Len(t) : n # 0 => g[s[n - 1]] = Language!OneMore(t, op, operand, s[n - 1])
    BY <1>2, <2>1
  <2> QED
    BY <1>4, <2>2 DEF Repeats
<1> HIDE DEF g
<1>5. PICK s \in [0..Len(t) -> Result] : Repeats(s, Len(t), operand[pos], g)
  BY <1>1, <1>3, RepetitionExists
<1>6. Def(s)
  BY <1>4, <1>5
<1>7. Def(held)
  <2> HIDE DEF Def
  <2> QED
    BY <1>6
<1>8. ASSUME NEW n \in 0..(Len(t) - 1) PROVE n + 1 \in 0..Len(t) /\ n + 1 # 0 /\ (n + 1) - 1 = n
  BY <1>1
<1>9. Language!ParseChain(t, op, operand)[pos] = held[Len(t)]
  BY DEF Language!ParseChain
<1>10. \A n \in 0..Len(t) : held[n] = IF n = 0 THEN operand[pos]
                                     ELSE Language!OneMore(t, op, operand, held[n - 1])
  BY <1>7
<1>11. held = [n \in 0..Len(t) |-> held[n]]
  BY <1>7
<1> HIDE DEF held, Def
<1>12. held[0] = operand[pos] /\ \A n \in 0..(Len(t) - 1) :
                                   held[n + 1] = Language!OneMore(t, op, operand, held[n])
  BY <1>1, <1>8, <1>10
<1>13. \A n \in 0..Len(t) : held[n] \in Result
  <2> DEFINE S == {n \in 0..Len(t) : held[n] \in Result}
  <2>1. 0 \in S
    BY <1>1, <1>12
  <2>2. \A n \in 0..(Len(t) - 1) : n \in S => n + 1 \in S
    BY <1>8, <1>12, OneMoreIs
  <2> HIDE DEF S
  <2>3. \A n \in 0..Len(t) : n \in S
    BY <1>1, <2>1, <2>2, UpTo
  <2> QED
    BY <2>3 DEF S
<1>14. held \in [0..Len(t) -> Result]
  BY <1>11, <1>13
<1>15. Turns(held, t, op, operand, pos)
  BY <1>9, <1>12 DEF Turns
<1> QED
  BY <1>14, <1>15

(* What the loop holds is a phrase of as many operands at most.            *)
LEMMA TurnsCover ==
  ASSUME NEW t \in Seq(Language!Tokens), NEW F, Family(t, F), NEW op \in {"&&", "||"},
         NEW operands \in SUBSET Phrase(t, F), NEW ops, NEW operand,
         Agree(t, ops, operands, operand),
         NEW chains \in [0..Len(t) -> SUBSET Phrase(t, F)], Chains(chains, t, op, operands),
         NEW pos \in Language!Positions(t),
         NEW held \in [0..Len(t) -> Result], Turns(held, t, op, operand, pos)
  PROVE  \A n \in 0..Len(t) : Covers(UNION {chains[m] : m \in 0..n}, pos, held[n])
<1> DEFINE S == {n \in 0..Len(t) : Covers(UNION {chains[m] : m \in 0..n}, pos, held[n])}
<1>1. Len(t) \in Nat
  OBVIOUS
<1>2. 0 \in S
  <2>1. Covers(operands, pos, held[0])
    BY DEF Agree, Turns
  <2>2. UNION {chains[m] : m \in 0..0} = operands
    BY DEF Chains
  <2> QED
    BY <1>1, <2>1, <2>2
<1>3. ASSUME NEW n \in 0..(Len(t) - 1), n \in S PROVE n + 1 \in S
  <2>1. n \in 0..Len(t) /\ n + 1 \in 0..Len(t) /\ 0..n \subseteq 0..(n + 1)
    BY <1>1
  <2>2. PICK l : l = held[n]
    OBVIOUS
  <2>3. PICK r : r = held[n + 1]
    OBVIOUS
  <2>4. l \in Result /\ r \in Result /\ r = Language!OneMore(t, op, operand, l)
    BY <2>1, <2>2, <2>3 DEF Turns
  <2>5. Covers(UNION {chains[m] : m \in 0..n}, pos, l)
    BY <1>3, <2>2
  <2>6. Covers(UNION {chains[m] : m \in 0..(n + 1)}, pos, r)
    <3>1. CASE ~l.ok \/ Language!At(t, l.pos) # op
      <4>1. r = l
        BY <2>4, <3>1 DEF Language!OneMore
      <4> QED
        BY <2>1, <2>5, <4>1 DEF Covers
    <3>2. CASE l.ok /\ Language!At(t, l.pos) = op
      <4>1. PICK right : right = operand[l.pos + 1]
        OBVIOUS
      <4>2. l.pos + 1 \in Language!Positions(t)
        BY <2>4, <3>2, OneMoreIs DEF Agree
      <4>3. right \in Result /\ Covers(operands, l.pos + 1, right)
        BY <4>1, <4>2 DEF Agree
      <4>4. CASE ~right.ok
        <5>1. r = Language!Rejected
          BY <2>4, <3>2, <4>1, <4>4 DEF Language!OneMore
        <5> QED
          BY <5>1 DEF Covers, Language!Rejected
      <4>5. CASE right.ok
        <5>1. PICK j : j = Language!Join(op, l.expr, right.expr)
          OBVIOUS
        <5>2. r = Language!Parsed(j, right.pos)
          BY <2>4, <3>2, <4>1, <4>5, <5>1 DEF Language!OneMore
        <5>3. Language!Value(j) = Language!Combined(op, Language!Value(l.expr), Language!Value(right.expr))
          BY <2>4, <4>3, <5>1, JoinIs DEF Result
        <5>4. PICK a : a = [from |-> pos, to |-> l.pos, meaning |-> Language!Value(l.expr)]
          OBVIOUS
        <5>5. PICK b : b = [from |-> l.pos + 1, to |-> right.pos, meaning |-> Language!Value(right.expr)]
          OBVIOUS
        <5>6. PICK m \in 0..n : a \in chains[m]
          BY <2>5, <3>2, <5>4 DEF Covers
        <5>7. b \in operands
          BY <4>3, <4>5, <5>5 DEF Covers
        <5>8. Language!At(t, a.to) = op /\ b.from = a.to + 1
          BY <3>2, <5>4, <5>5
        <5>9. [from |-> a.from, to |-> b.to, meaning |-> Language!Combined(op, a.meaning, b.meaning)]
                \in Language!Longer(t, op, operands, chains[m])
          <6>1. <<a, b>> \in chains[m] \X operands
            BY <5>6, <5>7
          <6>2. <<a, b>>[1] = a /\ <<a, b>>[2] = b
            OBVIOUS
          <6>3. <<a, b>> \in {p \in chains[m] \X operands :
                                Language!At(t, p[1].to) = op /\ p[2].from = p[1].to + 1}
            BY <5>8, <6>1, <6>2
          <6> QED
            BY <6>2, <6>3, Zenon DEF Language!Longer
        <5>10. chains[m + 1] = Language!Longer(t, op, operands, chains[m]) /\ m + 1 \in 0..(n + 1)
          BY <1>1, <2>1 DEF Chains
        <5>11. [from |-> pos, to |-> right.pos, meaning |-> Language!Value(j)]
                 \in UNION {chains[k] : k \in 0..(n + 1)}
          BY <5>3, <5>4, <5>5, <5>9, <5>10
        <5> QED
          BY <5>2, <5>11 DEF Covers, Language!Parsed
      <4> QED
        BY <4>4, <4>5
    <3> QED
      BY <3>1, <3>2
  <2> QED
    BY <2>1, <2>3, <2>6
<1> HIDE DEF S
<1>4. \A n \in 0..Len(t) : n \in S
  BY <1>1, <1>2, <1>3, UpTo
<1> QED
  BY <1>4 DEF S

(* A phrase that the operator does not follow is what its loop returns.     *)
LEMMA TurnsReach ==
  ASSUME NEW t \in Seq(Language!Tokens), NEW F, Family(t, F), NEW op \in {"&&", "||"},
         NEW operands \in SUBSET Phrase(t, F), NEW ops, op \notin ops, NEW operand,
         Agree(t, ops, operands, operand),
         NEW chains \in [0..Len(t) -> SUBSET Phrase(t, F)], Chains(chains, t, op, operands),
         NEW pos \in Language!Positions(t),
         NEW held \in [0..Len(t) -> Result], Turns(held, t, op, operand, pos)
  PROVE  \A n \in 0..Len(t) : \A p \in chains[n] :
           p.from = pos /\ Language!At(t, p.to) \notin ops =>
             held[n].ok /\ held[n].pos = p.to /\ Language!Value(held[n].expr) = p.meaning
<1> DEFINE Reached(n) == \A p \in chains[n] :
             p.from = pos /\ Language!At(t, p.to) \notin ops =>
               held[n].ok /\ held[n].pos = p.to /\ Language!Value(held[n].expr) = p.meaning
           S == {n \in 0..Len(t) : Reached(n)}
<1>1. Len(t) \in Nat
  OBVIOUS
<1>2. 0 \in S
  <2>1. Reached(0)
    BY DEF Turns, Chains, Agree, Returns
  <2> QED
    BY <1>1, <2>1
<1>3. ASSUME NEW n \in 0..(Len(t) - 1), n \in S PROVE n + 1 \in S
  <2>1. n \in 0..Len(t) /\ n + 1 \in 0..Len(t) /\ Reached(n)
    BY <1>1, <1>3
  <2>2. ASSUME NEW p \in chains[n + 1], p.from = pos, Language!At(t, p.to) \notin ops
        PROVE  held[n + 1].ok /\ held[n + 1].pos = p.to /\ Language!Value(held[n + 1].expr) = p.meaning
    <3>1. chains[n + 1] = Language!Longer(t, op, operands, chains[n])
      BY DEF Chains
    <3>2. PICK a \in chains[n], b \in operands :
            /\ Language!At(t, a.to) = op /\ b.from = a.to + 1
            /\ p = [from |-> a.from, to |-> b.to, meaning |-> Language!Combined(op, a.meaning, b.meaning)]
      <4>1. PICK pair \in chains[n] \X operands :
              /\ Language!At(t, pair[1].to) = op /\ pair[2].from = pair[1].to + 1
              /\ p = [from |-> pair[1].from, to |-> pair[2].to,
                      meaning |-> Language!Combined(op, pair[1].meaning, pair[2].meaning)]
        BY <2>2, <3>1, Zenon DEF Language!Longer
      <4>2. pair[1] \in chains[n] /\ pair[2] \in operands
        BY <4>1
      <4> QED
        BY <4>1, <4>2
    <3>3. PICK l : l = held[n]
      OBVIOUS
    <3>4. l.ok /\ l.pos = a.to /\ Language!Value(l.expr) = a.meaning
      BY <2>1, <2>2, <3>2, <3>3
    <3>5. PICK right : right = operand[l.pos + 1]
      OBVIOUS
    <3>6. right.ok /\ right.pos = b.to /\ Language!Value(right.expr) = b.meaning
      BY <2>2, <3>2, <3>4, <3>5 DEF Agree, Returns
    <3>7. PICK j : j = Language!Join(op, l.expr, right.expr)
      OBVIOUS
    <3>8. held[n + 1] = Language!Parsed(j, right.pos)
      BY <3>2, <3>3, <3>4, <3>5, <3>6, <3>7 DEF Turns, Language!OneMore
    <3>9. l \in Result /\ right \in Result
      <4>1. l \in Result
        BY <2>1, <3>3
      <4>2. l.pos + 1 \in Language!Positions(t)
        BY <3>2, <3>4, <4>1, OneMoreIs DEF Agree
      <4> QED
        BY <3>5, <4>1, <4>2 DEF Agree
    <3>10. Language!Value(j) = Language!Combined(op, a.meaning, b.meaning)
      BY <3>4, <3>6, <3>7, <3>9, JoinIs DEF Result
    <3> QED
      BY <3>2, <3>6, <3>8, <3>10 DEF Language!Parsed
  <2>3. Reached(n + 1)
    BY <2>2
  <2> QED
    BY <2>1, <2>3
<1> HIDE DEF S
<1>4. \A n \in 0..Len(t) : n \in S
  BY <1>1, <1>2, <1>3, UpTo
<1> QED
  BY <1>4 DEF S

(* Where the operator does not follow, the loop has ended.                  *)
LEMMA TurnsEnd ==
  ASSUME NEW t \in Seq(Language!Tokens), NEW op, NEW operand, NEW pos, NEW held,
         Turns(held, t, op, operand, pos),
         NEW n \in 0..Len(t), Language!At(t, held[n].pos) # op
  PROVE  held[Len(t)] = held[n]
<1> DEFINE S == {k \in 0..Len(t) : k >= n => held[k] = held[n]}
<1>1. Len(t) \in Nat
  OBVIOUS
<1>2. 0 \in S
  BY <1>1
<1>3. ASSUME NEW k \in 0..(Len(t) - 1), k \in S PROVE k + 1 \in S
  <2>1. k + 1 \in 0..Len(t) /\ (k + 1 >= n => k >= n \/ k + 1 = n)
    BY <1>1
  <2>2. CASE k >= n
    <3>1. held[k] = held[n]
      BY <1>3, <2>2
    <3>2. held[k + 1] = held[n]
      BY <3>1 DEF Turns, Language!OneMore
    <3> QED
      BY <2>1, <3>2
  <2>3. CASE ~(k >= n)
    BY <2>1, <2>3
  <2> QED
    BY <2>2, <2>3
<1> HIDE DEF S
<1>4. \A k \in 0..Len(t) : k \in S
  BY <1>1, <1>2, <1>3, UpTo
<1> QED
  BY <1>1, <1>4 DEF S

LEMMA ChainAgrees ==
  ASSUME NEW t \in Seq(Language!Tokens), NEW F, Family(t, F), NEW op \in {"&&", "||"},
         NEW operands \in SUBSET Phrase(t, F), NEW ops, op \notin ops, NEW operand,
         Agree(t, ops, operands, operand)
  PROVE  Agree(t, ops \cup {op}, Language!Chain(t, op, operands), Language!ParseChain(t, op, operand))
<1>1. Len(t) \in Nat
  OBVIOUS
<1>2. operand \in [Language!Positions(t) -> Result]
  BY DEF Agree
<1>3. PICK chains \in [0..Len(t) -> SUBSET Phrase(t, F)] : Chains(chains, t, op, operands)
  BY ChainIs
<1>4. Language!Chain(t, op, operands) = UNION {chains[n] : n \in 0..Len(t)}
  BY <1>3 DEF Chains
<1> DEFINE parser == Language!ParseChain(t, op, operand)
<1>5. ASSUME NEW pos \in Language!Positions(t)
      PROVE  parser[pos] \in Result /\ Covers(Language!Chain(t, op, operands), pos, parser[pos])
  <2>1. PICK held \in [0..Len(t) -> Result] : Turns(held, t, op, operand, pos)
    BY <1>2, TurnsAre
  <2>2. parser[pos] = held[Len(t)] /\ held[Len(t)] \in Result
    BY <1>1, <2>1 DEF Turns
  <2>3. Covers(UNION {chains[n] : n \in 0..Len(t)}, pos, held[Len(t)])
    BY <1>1, <1>3, <2>1, TurnsCover
  <2> QED
    BY <1>4, <2>2, <2>3
<1>6. ASSUME NEW p \in Language!Chain(t, op, operands), Language!At(t, p.to) \notin ops \cup {op}
      PROVE  parser[p.from].ok /\ parser[p.from].pos = p.to /\ Language!Value(parser[p.from].expr) = p.meaning
  <2>1. PICK n \in 0..Len(t) : p \in chains[n]
    BY <1>4, <1>6
  <2>2. p.from \in Language!Positions(t)
    BY <1>3, <2>1 DEF Phrase
  <2>3. PICK held \in [0..Len(t) -> Result] : Turns(held, t, op, operand, p.from)
    BY <1>2, <2>2, TurnsAre
  <2>4. held[n].ok /\ held[n].pos = p.to /\ Language!Value(held[n].expr) = p.meaning
    BY <1>3, <1>6, <2>1, <2>2, <2>3, TurnsReach
  <2>5. held[Len(t)] = held[n]
    BY <1>6, <2>3, <2>4, TurnsEnd
  <2>6. parser[p.from] = held[Len(t)]
    BY <2>3 DEF Turns
  <2> QED
    BY <2>4, <2>5, <2>6
<1>7. parser = [pos \in Language!Positions(t) |-> parser[pos]]
  BY DEF Language!ParseChain
<1> HIDE DEF parser
<1>8. parser \in [Language!Positions(t) -> Result]
  BY <1>5, <1>7
<1>9. Agree(t, ops \cup {op}, Language!Chain(t, op, operands), parser)
  BY <1>5, <1>6, <1>8 DEF Agree, Returns
<1> QED
  BY <1>9 DEF parser

(* --------------------------------------------------------------- levels *)

LEMMA DeeperAgrees ==
  ASSUME NEW t \in Seq(Language!Tokens), NEW F, Family(t, F), NEW inner \in SUBSET Phrase(t, F),
         NEW parser, Agree(t, {"&&", "||"}, inner, parser)
  PROVE  /\ Language!Nested(t, inner) \in SUBSET Phrase(t, F)
         /\ Agree(t, {"&&", "||"}, Language!Nested(t, inner), Language!Deeper(t, parser))
<1> DEFINE cmp == Language!Comparison(t, inner)
           and == Language!Chain(t, "&&", cmp)
<1>1. cmp \in SUBSET Phrase(t, F) /\ Agree(t, {}, cmp, Language!ParseCmp(t, parser))
  BY ComparisonPhrases, CmpAgrees
<1> HIDE DEF cmp
<1>2. and \in SUBSET Phrase(t, F)
  BY <1>1, ChainPhrases
<1>3. Agree(t, {} \cup {"&&"}, and, Language!ParseChain(t, "&&", Language!ParseCmp(t, parser)))
  BY <1>1, ChainAgrees
<1> HIDE DEF and
<1>4. {} \cup {"&&"} = {"&&"} /\ {"&&"} \cup {"||"} = {"&&", "||"} /\ "||" \notin {"&&"}
  OBVIOUS
<1>5. Language!Chain(t, "||", and) \in SUBSET Phrase(t, F)
  BY <1>2, ChainPhrases
<1>6. Agree(t, {"&&"} \cup {"||"}, Language!Chain(t, "||", and),
            Language!ParseChain(t, "||", Language!ParseChain(t, "&&", Language!ParseCmp(t, parser))))
  BY <1>2, <1>3, <1>4, ChainAgrees
<1> QED
  BY <1>4, <1>5, <1>6 DEF Language!Nested, Language!Deeper, and, cmp

(* inners[n] and parsers[n]: with n levels left.                           *)
Levels(t, inners, parsers) ==
  /\ inners[0] = {} /\ parsers[0] = [pos \in Language!Positions(t) |-> Language!Rejected]
  /\ \A n \in 0..MaxDepth : /\ inners[n + 1] = Language!Nested(t, inners[n])
                            /\ parsers[n + 1] = Language!Deeper(t, parsers[n])
  /\ Language!Phrases(t) = inners[MaxDepth + 1]
  /\ Language!ParseOr(t) = parsers[MaxDepth + 1]

Pairs(t, F) ==
  {pair \in (SUBSET Phrase(t, F)) \X [Language!Positions(t) -> Result] :
     Agree(t, {"&&", "||"}, pair[1], pair[2])}

LEMMA LevelsAre ==
  ASSUME NEW t \in Seq(Language!Tokens), NEW F, Family(t, F)
  PROVE  \E inners, parsers : Levels(t, inners, parsers)
<1> DEFINE N == MaxDepth + 1
           none == [pos \in Language!Positions(t) |-> Language!Rejected]
           X == Pairs(t, F)
           g == [pair \in X |-> <<Language!Nested(t, pair[1]), Language!Deeper(t, pair[2])>>]
           DefI(s) == s = [n \in 0..N |-> IF n = 0 THEN {} ELSE Language!Nested(t, s[n - 1])]
           DefP(s) == s = [n \in 0..N |-> IF n = 0 THEN none ELSE Language!Deeper(t, s[n - 1])]
           inners == CHOOSE s : DefI(s)
           parsers == CHOOSE s : DefP(s)
<1>1. N \in Nat /\ N - 1 = MaxDepth
  BY LanguageAssumption
<1>2. <<{}, none>> \in X
  BY NodesAre DEF Pairs, Agree, Covers, Returns, Language!Rejected
<1>3. g \in [X -> X]
  <2> SUFFICES ASSUME NEW pair \in X PROVE <<Language!Nested(t, pair[1]), Language!Deeper(t, pair[2])>> \in X
    OBVIOUS
  <2>1. pair[1] \in SUBSET Phrase(t, F) /\ Agree(t, {"&&", "||"}, pair[1], pair[2])
    BY DEF Pairs
  <2>2. PICK i, p : i = Language!Nested(t, pair[1]) /\ p = Language!Deeper(t, pair[2])
    OBVIOUS
  <2>3. i \in SUBSET Phrase(t, F) /\ Agree(t, {"&&", "||"}, i, p)
    BY <2>1, <2>2, DeeperAgrees
  <2>4. p \in [Language!Positions(t) -> Result]
    BY <2>3 DEF Agree
  <2>5. <<i, p>> \in X
    BY <2>3, <2>4 DEF Pairs
  <2> QED
    BY <2>2, <2>5
<1>4. \A pair \in X : g[pair] = <<Language!Nested(t, pair[1]), Language!Deeper(t, pair[2])>>
  OBVIOUS
<1> DEFINE start == <<{}, none>>
<1>6. start[1] = {} /\ start[2] = none
  OBVIOUS
<1> HIDE DEF X, g, start, N, none
<1>7. PICK s \in [0..N -> X] : Repeats(s, N, start, g)
  BY <1>1, <1>2, <1>3, RepetitionExists DEF start
<1>8. \A n \in 0..N : s[n] = IF n = 0 THEN start ELSE g[s[n - 1]]
  BY <1>7 DEF Repeats
<1>9. \A n \in 0..N : n # 0 => /\ n - 1 \in 0..N
                               /\ s[n][1] = Language!Nested(t, s[n - 1][1])
                               /\ s[n][2] = Language!Deeper(t, s[n - 1][2])
  <2> SUFFICES ASSUME NEW n \in 0..N, n # 0
               PROVE  /\ n - 1 \in 0..N
                      /\ s[n][1] = Language!Nested(t, s[n - 1][1])
                      /\ s[n][2] = Language!Deeper(t, s[n - 1][2])
    OBVIOUS
  <2>1. n - 1 \in 0..N
    BY <1>1
  <2>2. s[n] = <<Language!Nested(t, s[n - 1][1]), Language!Deeper(t, s[n - 1][2])>>
    BY <1>4, <1>7, <1>8, <2>1
  <2> QED
    BY <2>1, <2>2
<1>10. DefI([n \in 0..N |-> s[n][1]])
  <2>1. \A n \in 0..N : s[n][1] = IF n = 0 THEN {} ELSE Language!Nested(t, s[n - 1][1])
    BY <1>6, <1>8, <1>9
  <2>2. \A n \in 0..N : n # 0 => [m \in 0..N |-> s[m][1]][n - 1] = s[n - 1][1]
    BY <1>9
  <2> QED
    BY <2>1, <2>2
<1>11. DefP([n \in 0..N |-> s[n][2]])
  <2>1. \A n \in 0..N : s[n][2] = IF n = 0 THEN none ELSE Language!Deeper(t, s[n - 1][2])
    BY <1>6, <1>8, <1>9
  <2>2. \A n \in 0..N : n # 0 => [m \in 0..N |-> s[m][2]][n - 1] = s[n - 1][2]
    BY <1>9
  <2> QED
    BY <2>1, <2>2
<1>12. DefI(inners) /\ DefP(parsers)
  <2> HIDE DEF DefI, DefP
  <2> QED
    BY <1>10, <1>11
<1>13. Language!Phrases(t) = inners[N] /\ Language!ParseOr(t) = parsers[N]
  BY DEF Language!Phrases, Language!ParseOr, N, none
<1> HIDE DEF inners, parsers
<1>14. \A n \in 0..MaxDepth : n + 1 \in 0..N /\ n + 1 # 0 /\ (n + 1) - 1 = n
  BY LanguageAssumption DEF N
<1>15. 0 \in 0..N
  BY <1>1
<1>16. inners[0] = {} /\ \A n \in 0..MaxDepth : inners[n + 1] = Language!Nested(t, inners[n])
  BY <1>12, <1>14, <1>15
<1>17. parsers[0] = none /\ \A n \in 0..MaxDepth : parsers[n + 1] = Language!Deeper(t, parsers[n])
  BY <1>12, <1>14, <1>15
<1>18. Levels(t, inners, parsers)
  BY <1>13, <1>16, <1>17 DEF Levels, N, none
<1> QED
  BY <1>18

LEMMA ParseOrAgrees ==
  ASSUME NEW t \in Seq(Language!Tokens), NEW F, Family(t, F)
  PROVE  /\ Language!Phrases(t) \in SUBSET Phrase(t, F)
         /\ Agree(t, {"&&", "||"}, Language!Phrases(t), Language!ParseOr(t))
<1>1. PICK inners, parsers : Levels(t, inners, parsers)
  BY LevelsAre
<1> DEFINE Good(n) == /\ inners[n] \in SUBSET Phrase(t, F)
                      /\ Agree(t, {"&&", "||"}, inners[n], parsers[n])
           S == {n \in 0..(MaxDepth + 1) : Good(n)}
<1>2. 0 \in S
  <2>1. Good(0)
    BY <1>1, NodesAre DEF Levels, Agree, Covers, Returns, Language!Rejected
  <2> QED
    BY <2>1, LanguageAssumption
<1>3. ASSUME NEW n \in 0..((MaxDepth + 1) - 1), n \in S PROVE n + 1 \in S
  <2>1. n \in 0..MaxDepth /\ n + 1 \in 0..(MaxDepth + 1) /\ Good(n)
    BY <1>3, LanguageAssumption
  <2>2. Good(n + 1)
    BY <1>1, <2>1, DeeperAgrees DEF Levels
  <2> QED
    BY <2>1, <2>2
<1>4. MaxDepth + 1 \in Nat /\ MaxDepth + 1 \in 0..(MaxDepth + 1)
  BY LanguageAssumption
<1> HIDE DEF S
<1>5. MaxDepth + 1 \in S
  BY <1>2, <1>3, <1>4, UpTo
<1> QED
  BY <1>1, <1>5 DEF S, Levels

LEMMA AnyFamily == ASSUME NEW t \in Seq(Language!Tokens) PROVE Family(t, SUBSET Language!Payloads)
  BY DEF Family, Language!Hits

LEMMA ParsesGrammar ==
  ASSUME NEW t \in Seq(Language!Tokens)
  PROVE  Language!Meanings(t) = IF Language!Parse(t).ok THEN {Language!Value(Language!Parse(t).expr)} ELSE {}
<1> DEFINE parsed == Language!ParseOr(t)[1]
<1>1. /\ Language!Phrases(t) \in SUBSET Phrase(t, SUBSET Language!Payloads)
      /\ Agree(t, {"&&", "||"}, Language!Phrases(t), Language!ParseOr(t))
  BY AnyFamily, ParseOrAgrees
<1>2. Len(t) \in Nat /\ 1 \in Language!Positions(t) /\ Language!At(t, Len(t) + 1) = "end"
  BY DEF Language!Positions, Language!At
<1>3. Covers(Language!Phrases(t), 1, parsed)
  BY <1>1, <1>2 DEF Agree
<1>4. "end" \notin {"&&", "||"}
  OBVIOUS
<1>5. ASSUME NEW p \in Language!Phrases(t), p.from = 1, p.to = Len(t) + 1
      PROVE  parsed.ok /\ parsed.pos = Len(t) + 1 /\ Language!Value(parsed.expr) = p.meaning
  BY <1>1, <1>2, <1>4, <1>5 DEF Agree, Returns
<1> HIDE DEF parsed
<1>6. Language!Parse(t) = IF parsed.ok /\ parsed.pos = Len(t) + 1 THEN parsed ELSE Language!Rejected
  BY DEF Language!Parse, parsed
<1>7. CASE parsed.ok /\ parsed.pos = Len(t) + 1
  <2>1. PICK q : q = [from |-> 1, to |-> Len(t) + 1, meaning |-> Language!Value(parsed.expr)]
    OBVIOUS
  <2>2. q \in Language!Phrases(t) /\ q.from = 1 /\ q.to = Len(t) + 1 /\ q.meaning = Language!Value(parsed.expr)
    BY <1>3, <1>7, <2>1 DEF Covers
  <2>3. Language!Meanings(t) = {Language!Value(parsed.expr)}
    BY <1>5, <2>2 DEF Language!Meanings
  <2> QED
    BY <1>6, <1>7, <2>3
<1>8. CASE ~(parsed.ok /\ parsed.pos = Len(t) + 1)
  <2>1. Language!Meanings(t) = {}
    BY <1>5, <1>8 DEF Language!Meanings
  <2> QED
    BY <1>6, <1>8, <2>1 DEF Language!Rejected
<1> QED
  BY <1>7, <1>8

(* ------------------------------------------------------- absent fields *)

(* Sets of transactions that lose nothing when a field gets a value.       *)
Rising(S) ==
  \A tx \in Language!Payloads : \A f \in Fields, v \in {Language!Missing, Language!Null} :
    [tx EXCEPT ![f] = v] \in S => tx \in S

Empty(tx) == \A f \in Fields : ~Language!Found(tx[f])

Modest(t) ==
  {S \in SUBSET Language!Payloads :
     /\ Rising(S)
     /\ (\A i \in DOMAIN t : t[i] \in Atoms => Language!NamesField(t[i])) =>
          \A tx \in Language!Payloads : Empty(tx) => tx \notin S}

LEMMA HitsRise ==
  ASSUME NEW a \in Atoms
  PROVE  /\ Rising(Language!Hits(a))
         /\ Language!NamesField(a) => \A tx \in Language!Payloads : Empty(tx) => tx \notin Language!Hits(a)
<1>1. PICK c : c = Comparisons[a]
  OBVIOUS
<1>2. c.left \in Language!Operands /\ c.right \in Language!Operands
  BY <1>1, LanguageAssumption
<1>3. \A o \in Language!Operands : o.kind = "field" <=> \E f \in Fields : o = Language!Field(f)
  BY DEF Language!Operands, Language!Literals, Language!Text, Language!Number, Language!Field
<1>4. \A v \in {Language!Missing, Language!Null} : ~Language!Found(v)
  BY DEF Language!Found, Language!Missing, Language!Null
<1>5. Language!Hits(a) = {tx \in Language!Payloads : /\ Language!Found(Language!Resolve(c.left, tx)) /\ Language!Found(Language!Resolve(c.right, tx))
                                   /\ Language!Compare(c.op, Language!Resolve(c.left, tx), Language!Resolve(c.right, tx))}
  BY <1>1 DEF Language!Hits
<1>6. ASSUME NEW tx \in Language!Payloads, NEW f \in Fields, NEW v \in {Language!Missing, Language!Null}, NEW o \in Language!Operands,
             Language!Found(Language!Resolve(o, [tx EXCEPT ![f] = v]))
      PROVE  Language!Resolve(o, [tx EXCEPT ![f] = v]) = Language!Resolve(o, tx)
  <2>1. CASE o.kind = "field"
    <3>1. PICK e \in Fields : o = Language!Field(e)
      BY <1>3, <2>1
    <3>2. o.value = e
      BY <3>1 DEF Language!Field
    <3>3. tx = [d \in Fields |-> tx[d]]
      BY DEF Language!Payloads
    <3>4. e # f
      BY <1>4, <1>6, <2>1, <3>2, <3>3 DEF Language!Resolve
    <3> QED
      BY <2>1, <3>2, <3>3, <3>4 DEF Language!Resolve
  <2>2. CASE o.kind # "field"
    BY <2>2 DEF Language!Resolve
  <2> QED
    BY <2>1, <2>2
<1>7. Rising(Language!Hits(a))
  <2> SUFFICES ASSUME NEW tx \in Language!Payloads, NEW f \in Fields, NEW v \in {Language!Missing, Language!Null},
                      [tx EXCEPT ![f] = v] \in Language!Hits(a)
               PROVE  tx \in Language!Hits(a)
    BY DEF Rising
  <2>1. PICK l, r : /\ l = Language!Resolve(c.left, [tx EXCEPT ![f] = v])
                    /\ r = Language!Resolve(c.right, [tx EXCEPT ![f] = v])
    OBVIOUS
  <2>2. Language!Found(l) /\ Language!Found(r) /\ Language!Compare(c.op, l, r)
    BY <1>5, <2>1
  <2>3. l = Language!Resolve(c.left, tx) /\ r = Language!Resolve(c.right, tx)
    BY <1>2, <1>6, <2>1, <2>2
  <2> QED
    BY <1>5, <2>2, <2>3
<1>8. ASSUME Language!NamesField(a), NEW tx \in Language!Payloads, Empty(tx) PROVE tx \notin Language!Hits(a)
  <2>1. \A o \in Language!Operands : o.kind = "field" => ~Language!Found(Language!Resolve(o, tx))
    BY <1>3, <1>8 DEF Empty, Language!Resolve, Language!Field
  <2>2. c.left.kind = "field" \/ c.right.kind = "field"
    BY <1>1, <1>8 DEF Language!NamesField
  <2> QED
    BY <1>2, <1>5, <2>1, <2>2
<1> QED
  BY <1>7, <1>8

LEMMA ModestFamily == ASSUME NEW t \in Seq(Language!Tokens) PROVE Family(t, Modest(t))
<1>1. \A S, T \in Modest(t) : S \cup T \in Modest(t) /\ S \cap T \in Modest(t)
  BY DEF Modest, Rising
<1>2. ASSUME NEW i \in DOMAIN t, t[i] \in Atoms PROVE Language!Hits(t[i]) \in Modest(t)
  <2>1. Language!Hits(t[i]) \in SUBSET Language!Payloads
    BY <1>2, NodesAre
  <2> QED
    BY <1>2, <2>1, HitsRise DEF Modest
<1> QED
  BY <1>1, <1>2 DEF Family, Modest

LEMMA ParsedIsModest ==
  ASSUME NEW t \in Seq(Language!Tokens), Language!Parse(t).ok
  PROVE  Language!Value(Language!Parse(t).expr) \in Modest(t)
<1>1. Language!Phrases(t) \in SUBSET Phrase(t, Modest(t))
  BY ModestFamily, ParseOrAgrees
<1>2. Language!Value(Language!Parse(t).expr) \in Language!Meanings(t)
  BY ParsesGrammar
<1>3. PICK p \in Language!Phrases(t) : p.meaning = Language!Value(Language!Parse(t).expr)
  BY <1>2 DEF Language!Meanings
<1> QED
  BY <1>1, <1>3 DEF Phrase

LEMMA LanguageHolds ==
  ASSUME Language!TypeOK
  PROVE  Language!ParserIsGrammar /\ Language!AbsentFieldsMiss
<1>1. tokens \in Seq(Language!Tokens)
  BY DEF Language!TypeOK
<1>2. Language!ParserIsGrammar
  BY <1>1, ParsesGrammar DEF Language!ParserIsGrammar
<1>3. PICK v : v = Language!Value(Language!Parse(tokens).expr)
  OBVIOUS
<1>4. Language!Parse(tokens).ok => v \in Modest(tokens)
  BY <1>1, <1>3, ParsedIsModest
<1>5. Language!AbsentFieldsMiss
  BY <1>3, <1>4 DEF Language!AbsentFieldsMiss, Modest, Rising, Empty
<1> QED
  BY <1>2, <1>5

LangInv == Language!TypeOK

LEMMA LangInit == Language!Init => LangInv
  BY DEF Language!Init, LangInv, Language!TypeOK

LEMMA LangStep == LangInv /\ [Language!Next]_tokens => LangInv'
  BY DEF Language!Next, Language!AppendToken, LangInv, Language!TypeOK

(* ------------------------------------------------------------- all of Edge *)

(* Each part's invariant, in the behaviours that chose it.                  *)
EdgeInv ==
  /\ part = "webhook" => WebhookInv
  /\ part = "shap" => ShapInv
  /\ part = "sessions" => SessionsInv
  /\ part = "async" => AsyncInv
  /\ part = "rows" => RowsInv
  /\ part = "tenancy" => TenancyInv
  /\ part = "rules" => RulesInv
  /\ part = "language" => LangInv

LEMMA EdgeStarts == EdgeInit => EdgeInv
  BY WebhookInit, ShapInit, SessionsInit, AsyncInit, RowsInit, TenancyInit, RulesInit, LangInit
     DEF EdgeInit, EdgeInv

(* A step is one of the chosen part.                                        *)
LEMMA EdgeSteps ==
  ASSUME [EdgeNext]_EdgeVars
  PROVE  /\ part' = part
         /\ part = "webhook" => [Webhook!Next]_(Webhook!vars)
         /\ part = "shap" => [Shap!Next]_(Shap!shapVars)
         /\ part = "sessions" => [Session!Next]_(Session!sessionVars)
         /\ part = "async" => [Async!Next]_(Async!asyncVars)
         /\ part = "rows" => [Rows!Next]_(Rows!rlsVars)
         /\ part = "tenancy" => [Tenancy!Next]_(Tenancy!tenancyVars)
         /\ part = "rules" => [Evaluation!Next]_rules
         /\ part = "language" => [Language!Next]_tokens
<1>1. CASE EdgeNext
  BY <1>1 DEF EdgeNext
<1>2. CASE UNCHANGED EdgeVars
  BY <1>2 DEF EdgeVars, webhook, shap, sessions, async, rls, tenancy, Webhook!vars, Shap!shapVars,
              Session!sessionVars, Async!asyncVars, Rows!rlsVars, Tenancy!tenancyVars
<1> QED
  BY <1>1, <1>2

LEMMA EdgeKeeps == EdgeInv /\ [EdgeNext]_EdgeVars => EdgeInv'
<1> SUFFICES ASSUME EdgeInv, [EdgeNext]_EdgeVars PROVE EdgeInv'
  OBVIOUS
<1>1. part' = part
  BY EdgeSteps
<1>2. CASE part = "webhook"
  BY <1>1, <1>2, EdgeSteps, WebhookStep DEF EdgeInv
<1>3. CASE part = "shap"
  BY <1>1, <1>3, EdgeSteps, ShapStep DEF EdgeInv
<1>4. CASE part = "sessions"
  BY <1>1, <1>4, EdgeSteps, SessionsStep DEF EdgeInv
<1>5. CASE part = "async"
  BY <1>1, <1>5, EdgeSteps, AsyncStep DEF EdgeInv
<1>6. CASE part = "rows"
  BY <1>1, <1>6, EdgeSteps, RowsStep DEF EdgeInv
<1>7. CASE part = "tenancy"
  BY <1>1, <1>7, EdgeSteps, TenancyStep DEF EdgeInv
<1>8. CASE part = "rules"
  BY <1>1, <1>8, EdgeSteps, RulesStep DEF EdgeInv
<1>9. CASE part = "language"
  BY <1>1, <1>9, EdgeSteps, LangStep DEF EdgeInv
<1> QED
  BY <1>1, <1>2, <1>3, <1>4, <1>5, <1>6, <1>7, <1>8, <1>9 DEF EdgeInv

LEMMA EdgeInvariant == EdgeSpec => []EdgeInv
  BY EdgeStarts, EdgeKeeps, PTL DEF EdgeSpec

(* WebhookConfig: whatever registrations, updates, manual verifications and *)
(* deletions follow on each other, events go to an approved URL only and the*)
(* API reports that merchant ACTIVE, unless requests overlapped.            *)
THEOREM OnlyApprovedReceive == EdgeSpec => []EnabledMeansApproved
<1>1. EdgeInv => EnabledMeansApproved
  BY WebhookTypes DEF EdgeInv, EnabledMeansApproved
<1> QED
  BY <1>1, EdgeInvariant, PTL

(* ShapResults: a task that lost the unique index to a client, or to its own*)
(* first delivery, caches and announces nothing while the score stands, and *)
(* every explanation adds up to the risk, whatever the transaction.         *)
THEOREM LosersStaySilent == EdgeSpec => []WorkerTellsOfItsOwn
<1>1. ShapInv => Shap!TypeOK
  BY DEF ShapInv
<1>2. EdgeInv => WorkerTellsOfItsOwn
  BY <1>1, ShapTells DEF EdgeInv, WorkerTellsOfItsOwn
<1> QED
  BY <1>2, EdgeInvariant, PTL

(* Sessions: a principal that stays disabled holds no access token after    *)
(* the last that could be issued has run out, and no ticket bought with it  *)
(* after its life and a request's delay, however requests interleave.       *)
THEOREM DisablingEndsAccess == EdgeSpec => []DisabledLosesAccess
<1>1. SessionsInv => Session!TypeOK
  BY DEF SessionsInv
<1>2. EdgeInv => DisabledLosesAccess
  BY <1>1, SessionsLose DEF EdgeInv, DisabledLosesAccess
<1> QED
  BY <1>2, EdgeInvariant, PTL

(* AsyncScore: although an answer mixes the state read first with the one   *)
(* read after an await, a client gets a decision exactly with COMPLETED.    *)
THEOREM AnswersAgree == EdgeSpec => []DecisionIffCompleted
<1>1. EdgeInv => DecisionIffCompleted
  BY DEF EdgeInv, AsyncInv, DecisionIffCompleted
<1> QED
  BY <1>1, EdgeInvariant, PTL

(* RowSecurity: however connections are reused, by whichever sessions, a    *)
(* statement sees the rows of the tenant its session was opened for.        *)
THEOREM OnlyOwnRows == EdgeSpec => []OwnRowsOnly
<1>1. RowsInv => Rows!TypeOK
  BY DEF RowsInv
<1>2. EdgeInv => OwnRowsOnly
  BY <1>1, RowsOwn DEF EdgeInv, OwnRowsOnly
<1> QED
  BY <1>2, EdgeInvariant, PTL

(* Tenancy: middleware and dependencies, each reading the credential anew,  *)
(* let through exactly the requests it entitles to the tenant they are      *)
(* handled for.                                                             *)
THEOREM HandledExactlyEntitled == EdgeSpec => []HandledIffEntitled
<1>1. EdgeInv => HandledIffEntitled
  BY DEF EdgeInv, TenancyInv, HandledIffEntitled
<1> QED
  BY <1>1, EdgeInvariant, PTL

(* RuleEvaluation: for every list of rules, whatever their order, canaries  *)
(* and failing expressions, the loop with its short circuit decides as the  *)
(* strictest rule that applies, reports the rules up to the first blocking  *)
(* one, and is no weaker when a canary widens.                              *)
THEOREM StrictestDecides == EdgeSpec => []VerdictIsStrictest
<1>1. EdgeInv => VerdictIsStrictest
  BY RulesDecide, RulesWiden DEF EdgeInv, RulesInv, VerdictIsStrictest
<1> QED
  BY <1>1, EdgeInvariant, PTL

(* RuleLanguage: for every sequence of tokens, every set of comparisons and *)
(* every limit, the recursive descent accepts the sentences of the grammar  *)
(* up to that nesting and no others, each has one meaning, its tree has it, *)
(* and a field without a value never makes it true.                         *)
THEOREM DescentIsGrammar == EdgeSpec => []ParserIsGrammar
<1>1. EdgeInv => ParserIsGrammar
  BY LanguageHolds DEF EdgeInv, LangInv, ParserIsGrammar
<1> QED
  BY <1>1, EdgeInvariant, PTL
=============================================================================
