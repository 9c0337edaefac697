----------------------------- MODULE Admission -----------------------------
(***************************************************************************)
(* What a request with an API key passes before its handler: the lookup of  *)
(* the key behind a cache in Redis, then the sliding window of its tenant's *)
(* rate limit.  Time is counted in ticks and kept as ages, so the runs need *)
(* no last tick.                                                            *)
(***************************************************************************)
EXTENDS Naturals, FiniteSets, FiniteSetsExt

CONSTANTS Requests,
          PositiveTTL, NegativeTTL, (* POSITIVE_, NEGATIVE_TTL_SECONDS         *)
          Window,                   (* the rate limit's window of one second   *)
          Limit,                    (* qps_limit                               *)
          MaxDelay,                 (* bound: ticks a request spends on a stage*)
          MaxHits                   (* bound: requests counted in a window     *)

ASSUME AdmissionAssumption ==
  /\ {PositiveTTL, NegativeTTL, Limit} \subseteq Nat \ {0}
  /\ MaxDelay \in Nat /\ MaxHits \in Nat
  /\ Window \in Nat /\ MaxDelay < Window

VARIABLES
  valid,    (* the key's row: ACTIVE, neither revoked nor expired              *)
  age,      (* history: ticks since that was last changed, at most Stale       *)
  cache,    (* apikey:{hash}: the answer and the ticks it has left             *)
  req,      (* each request: its stage, the ticks since then, what it found    *)
  hits,     (* rate_limit:{tenant}:{endpoint}: members by the age of their time*)
  admitted  (* history: requests admitted as members of their own, by age      *)

key == <<valid, age, cache>>
limiter == <<hits, admitted>>
vars == <<key, req, limiter>>

Stale == PositiveTTL + NegativeTTL + MaxDelay + 1
Ages == 0..(Window + MaxDelay)
NoEntry == [answer |-> "miss", left |-> 0]
NewRequest == [at |-> "new", age |-> 0, found |-> FALSE]

TypeOK ==
  /\ valid \in BOOLEAN /\ age \in 0..Stale
  /\ cache \in [answer : {"miss", "valid", "invalid"},
                left : 0..(PositiveTTL + NegativeTTL)]
  /\ req \in [Requests -> [at : {"new", "database", "store", "stamp", "limit"},
                           age : 0..MaxDelay, found : BOOLEAN]]
  /\ hits \in [Ages -> Nat]
  /\ admitted \in [Ages -> Nat]

Init ==
  /\ valid = TRUE /\ age = Stale
  /\ cache = NoEntry
  /\ req = [r \in Requests |-> NewRequest]
  /\ hits = [a \in Ages |-> 0] /\ admitted = [a \in Ages |-> 0]

Older(f) == [a \in Ages |-> IF a = 0 THEN 0 ELSE f[a - 1]]

Timed(r) == req[r].at \in {"store", "limit"}

Tick ==
  /\ \A r \in Requests : Timed(r) => req[r].age < MaxDelay
  /\ age' = Min({age + 1, Stale})
  /\ cache' = IF cache.left <= 1 THEN NoEntry ELSE [cache EXCEPT !.left = @ - 1]
  /\ req' = [r \in Requests |-> IF Timed(r) THEN [req[r] EXCEPT !.age = @ + 1]
                                ELSE req[r]]
  /\ hits' = Older(hits) /\ admitted' = Older(admitted)
  /\ UNCHANGED valid

(* The row is revoked, expires or is put back outside this code.            *)
Change ==
  /\ valid' = ~valid /\ age' = 0
  /\ UNCHANGED <<cache, req, limiter>>

-----------------------------------------------------------------------------
(* ApiKeyService.lookup                                                     *)
Name(found) == IF found THEN "valid" ELSE "invalid"

Answer(r, found) ==
  req' = [req EXCEPT ![r] =
            IF found THEN [at |-> "stamp", age |-> 0, found |-> TRUE] ELSE NewRequest]

CacheHitRenewing(r) ==
  /\ req[r].at = "new"
  /\ cache.answer # "miss"
  /\ cache' = [cache EXCEPT !.left = PositiveTTL]
  /\ Answer(r, cache.answer = "valid")
  /\ UNCHANGED <<valid, age, limiter>>

CacheHit(r) ==
  /\ req[r].at = "new"
  /\ cache.answer # "miss"
  /\ Answer(r, cache.answer = "valid")
  /\ UNCHANGED <<key, limiter>>

(* Also when Redis fails: the database answers.                             *)
CacheMiss(r) ==
  /\ req[r].at = "new"
  /\ req' = [req EXCEPT ![r].at = "database"]
  /\ UNCHANGED <<key, limiter>>

ReadRow(r) ==
  /\ req[r].at = "database"
  /\ req' = [req EXCEPT ![r] = [at |-> "store", age |-> 0, found |-> valid]]
  /\ UNCHANGED <<key, limiter>>

TTL(found) == IF found THEN PositiveTTL ELSE NegativeTTL

StoreAnswer(r) ==
  /\ req[r].at = "store"
  /\ cache' = [answer |-> Name(req[r].found), left |-> TTL(req[r].found)]
  /\ Answer(r, req[r].found)
  /\ UNCHANGED <<valid, age, limiter>>

StoreFails(r) ==
  /\ req[r].at = "store"
  /\ Answer(r, req[r].found)
  /\ UNCHANGED <<key, limiter>>

-----------------------------------------------------------------------------
(* _check_rate_limit takes the time, then sends one atomic pipeline, which  *)
(* may be executed after that of a later time.                              *)
Within(f, d) ==
  LET sum[a \in 0..d] == IF a = 0 THEN f[0] ELSE sum[a - 1] + f[a] IN sum[d]

Total(f) == Within(f, Window + MaxDelay)

TakeTime(r) ==
  /\ req[r].at = "stamp"
  /\ req' = [req EXCEPT ![r].at = "limit"]
  /\ UNCHANGED <<key, limiter>>

ExpiredEarly(a, stamp) == a + 1 >= stamp + Window

Expired(a, stamp) == a >= stamp + Window

(* zremrangebyscore, then zadd: refused requests stay members, requests of  *)
(* the same instant share one (member = 0).                                 *)
Counted(stamp, member) ==
  [a \in Ages |-> IF Expired(a, stamp) THEN 0
                  ELSE IF a = stamp THEN hits[a] + member ELSE hits[a]]

CheckRateLimit(r) ==
  /\ req[r].at = "limit"
  /\ \E member \in {0, 1} :
       /\ member = 0 => hits[req[r].age] > 0
       /\ Total(hits) + member <= MaxHits
       /\ hits' = Counted(req[r].age, member)
       /\ admitted' = IF Total(hits') <= Limit
                      THEN [admitted EXCEPT ![0] = @ + member] ELSE admitted
  /\ req' = [req EXCEPT ![r] = NewRequest]
  /\ UNCHANGED key

(* Redis fails: the request is let through, uncounted.                      *)
LetThrough(r) ==
  /\ req[r].at = "limit"
  /\ req' = [req EXCEPT ![r] = NewRequest]
  /\ UNCHANGED <<key, limiter>>

Next ==
  \/ Tick \/ Change
  \/ \E r \in Requests :
       \/ CacheHit(r) \/ CacheMiss(r) \/ ReadRow(r) \/ StoreAnswer(r) \/ StoreFails(r)
       \/ TakeTime(r) \/ CheckRateLimit(r) \/ LetThrough(r)

Spec == Init /\ [][Next]_vars

-----------------------------------------------------------------------------
(* However lookups, cached answers and changes of the row interleave, the   *)
(* cache contradicts the row no longer than the entry's TTL and the time    *)
(* between one lookup's read and its store after the change: until then a   *)
(* revoked key is accepted, or a key put back is refused.                   *)
StaleAnswersAreBounded ==
  cache.answer # "miss" /\ cache.answer # Name(valid) =>
    age + cache.left <= (IF valid THEN NegativeTTL ELSE PositiveTTL) + MaxDelay

(* Fewer ticks than the window less the longest delay of a pipeline never   *)
(* see more requests admitted than the limit, in whatever order the times   *)
(* are taken and the pipelines executed; a whole window may, as a later time*)
(* removes members an earlier one would still count.  Requests that Redis   *)
(* did not count, or counted as one, are left out.                          *)
AdmittedWithinLimit ==
  Within(admitted, Window - MaxDelay - 1) <= Limit
=============================================================================
