---------------------------- MODULE ShapResults ----------------------------
(***************************************************************************)
(* The explanation of one score.  A client's POST computes and stores it   *)
(* (src/backend/app/api/v1/scores.py); the task every scoring sends does   *)
(* the same on a worker, then caches it and announces it                   *)
(* (src/backend/app/workers/tasks_shap.py); clients poll its status and    *)
(* read it.  The unique index on shap_explanations.score_id is what keeps  *)
(* the two apart.  A deletion erases score and explanation at any moment.  *)
(*                                                                         *)
(* The task logs its warnings and errors with keyword arguments to a       *)
(* standard library logger: the call raises, so a task whose insert fails  *)
(* ends there, without a retry.  At level INFO it ends on its first line.  *)
(***************************************************************************)
EXTENDS Integers, Sequences

CONSTANTS
  Transactions,  \* what the score may be about: [amount, bin, type, threeDS, channel, category]
  Risks,         \* risk scores, in hundredths
  Callers,       \* slots for concurrent POST requests
  Deliveries,    \* deliveries of the task: the first, redeliveries after a crash
  CacheTTL,      \* scoring_shap_cache_hours, in ticks
  ScoreIdParses, \* the message's score_id is a UUID: scoring sends one that is not
  InfoEnabled    \* the worker logs at level INFO

VARIABLES
  about,      \* the transaction and the risk of the score
  scored,     \* its row in scores is there
  row,        \* its row in shap_explanations
  calls,      \* POST requests that have loaded the score
  task,       \* the stage of every delivery
  cache,      \* shap_cache: its remaining life, and whose explanation
  announced   \* transaction.shap_ready was published

shapVars == <<about, scored, row, calls, task, cache, announced>>

(* ------------------------------------------------------ the explanation *)

(* BASE_VALUE and the contributions of generate_shap_factors, hundredths.  *)
Base == 15

Amount(a) ==
  IF a > 1000000 THEN 35 ELSE IF a > 500000 THEN 20
  ELSE IF a > 100000 THEN 10 ELSE IF a > 50000 THEN 5 ELSE -5
Bin(b) ==
  IF b \in {"542418", "453212"} THEN 12 ELSE IF b \in {"411111", "512345"} THEN -3 ELSE 2
Type(t) == IF t \in {"WITHDRAW", "TRANSFER"} THEN 8 ELSE IF t = "REFUND" THEN 5 ELSE -2
ThreeDS(b) == IF b THEN -8 ELSE 6
Channel(c) == IF c = "QR" THEN 4 ELSE IF c = "API" THEN 3 ELSE -2
Category(c) == IF c \in {"5411", "5812"} THEN 5 ELSE 0

Raw(t) == <<Amount(t.amount), Bin(t.bin), Type(t.type), ThreeDS(t.threeDS),
            Channel(t.channel), Category(t.category)>>

Sum(s) == s[1] + s[2] + s[3] + s[4] + s[5] + s[6]

(* The last contribution takes whatever is missing from the prediction.    *)
Explain(t, risk) ==
  [Raw(t) EXCEPT ![6] = @ + (risk - Base - Sum(Raw(t)))]

Explanation == Explain(about.transaction, about.risk)

(* A POST stores factors as [name, value, shap], the task as [feature,     *)
(* value, shap_value, contribution].                                       *)
NoRow == [by |-> "none", age |-> 0, factors |-> << >>]
NoCopy == [left |-> 0, factors |-> << >>]

Init ==
  /\ about \in [transaction : Transactions, risk : Risks]
  /\ scored = TRUE
  /\ row = NoRow
  /\ calls = {}
  /\ task = [d \in Deliveries |-> "queued"]
  /\ cache = NoCopy
  /\ announced = FALSE

Insert(by) ==
  /\ row.by = "none"
  /\ row' = [by |-> by, age |-> 0, factors |-> Explanation]

(* ----------------------------------------------------------- POST .../shap *)

LoadScore(c) ==
  /\ scored /\ c \notin calls
  /\ calls' = calls \cup {c}
  /\ UNCHANGED <<about, scored, row, task, cache, announced>>

(* The row is inserted when the session commits: a second one violates the *)
(* unique index and the request fails.                                     *)
TriggerShap(c) ==
  /\ c \in calls
  /\ calls' = calls \ {c}
  /\ Insert("api") \/ (row.by # "none" /\ UNCHANGED row)
  /\ UNCHANGED <<about, scored, task, cache, announced>>

(* --------------------------------------------------------- shap.compute *)

To(d, stage) == task' = [task EXCEPT ![d] = stage]
Running == {"insert", "cache", "announce"}

(* One delivery is run at a time: the next one follows a crash.            *)
Begin(d) ==
  /\ task[d] = "queued"
  /\ \A other \in Deliveries : task[other] \notin Running
  /\ To(d, IF InfoEnabled THEN "failed" ELSE "insert")
  /\ UNCHANGED <<about, scored, row, calls, cache, announced>>

(* Also when score_id is no UUID.                                          *)
InsertFails(d) ==
  /\ task[d] = "insert"
  /\ To(d, "failed")
  /\ UNCHANGED <<about, scored, row, calls, cache, announced>>

StoreQuietly(d) ==
  /\ task[d] = "insert" /\ ScoreIdParses
  /\ Insert("worker") \/ (row.by # "none" /\ UNCHANGED row)
  /\ To(d, "cache")
  /\ UNCHANGED <<about, scored, calls, cache, announced>>

Store(d) ==
  /\ task[d] = "insert" /\ ScoreIdParses
  /\ Insert("worker")
  /\ To(d, "cache")
  /\ UNCHANGED <<about, scored, calls, cache, announced>>

(* _cache_shap_result: a failure to write logs a warning, which raises.    *)
CacheResult(d) ==
  /\ task[d] = "cache"
  /\ \/ cache' = [left |-> CacheTTL, factors |-> Explanation] /\ To(d, "announce")
     \/ UNCHANGED cache /\ To(d, "failed")
  /\ UNCHANGED <<about, scored, row, calls, announced>>

(* Publishing never raises, and may fail.                                  *)
PublishReady(d) ==
  /\ task[d] = "announce"
  /\ announced' \in {announced, TRUE}
  /\ To(d, "done")
  /\ UNCHANGED <<about, scored, row, calls, cache>>

(* The worker dies; the message is delivered again, if it still may be.    *)
Crash(d) ==
  /\ task[d] \in Running
  /\ To(d, "failed")
  /\ UNCHANGED <<about, scored, row, calls, cache, announced>>

(* ------------------------------------------------------------ elsewhere *)

Tick ==
  /\ row' = [row EXCEPT !.age = IF row.by = "none" \/ @ > CacheTTL THEN @ ELSE @ + 1]
  /\ cache' = IF cache.left <= 1 THEN NoCopy ELSE [cache EXCEPT !.left = @ - 1]
  /\ UNCHANGED <<about, scored, calls, task, announced>>

(* delete_data of DataSubject.                                             *)
Erase ==
  /\ scored
  /\ scored' = FALSE
  /\ row' = NoRow
  /\ UNCHANGED <<about, calls, task, cache, announced>>

Next ==
  \/ \E c \in Callers : LoadScore(c) \/ TriggerShap(c)
  \/ \E d \in Deliveries :
       Begin(d) \/ Store(d) \/ InsertFails(d) \/ CacheResult(d) \/ PublishReady(d)
       \/ Crash(d)
  \/ Tick \/ Erase

Spec == Init /\ [][Next]_shapVars

(* ------------------------------------------------------------- GET requests *)

ShapStatus ==
  CASE row.by = "none" -> "RUNNING" [] row.age > CacheTTL -> "EXPIRED" [] OTHER -> "READY"

(* The stored explanation, or one computed on the spot; the factors of the *)
(* task do not fit the response's model.                                   *)
ShapResult ==
  CASE row.by = "api" -> [answer |-> "ok", factors |-> row.factors]
    [] row.by = "worker" -> [answer |-> "error", factors |-> << >>]
    [] row.by = "none" /\ scored -> [answer |-> "ok", factors |-> Explanation]
    [] OTHER -> [answer |-> "not found", factors |-> << >>]

(* ---------------------------------------------------------- properties *)

TypeOK ==
  /\ scored \in BOOLEAN /\ announced \in BOOLEAN /\ calls \subseteq Callers
  /\ row.by \in {"none", "api", "worker"} /\ row.age \in 0..(CacheTTL + 1)
  /\ task \in [Deliveries -> {"queued", "done", "failed"} \cup Running]
  /\ cache.left \in 0..CacheTTL

(* While the score stands, what the task caches and announces is the one   *)
(* explanation stored, its own: a task that lost the race for the unique   *)
(* index to a client, or to its own first delivery, stays silent, and      *)
(* nobody who was told asks the status in vain (compute_shap, shap_status).*)
WorkerTellsOfItsOwn ==
  scored /\ (announced \/ cache.left > 0) =>
    row.by = "worker" /\ ShapStatus # "RUNNING"

(* Every explanation shown, stored or cached adds up, from the base value, *)
(* to the risk that was scored (generate_shap_factors, shap_result).       *)
ExplanationsAddUp ==
  /\ ShapResult.answer = "ok" => Base + Sum(ShapResult.factors) = about.risk
  /\ row.by # "none" => Base + Sum(row.factors) = about.risk
  /\ cache.left > 0 => Base + Sum(cache.factors) = about.risk

(* A client told that the explanation is ready can read it: docs/D05_api/  *)
(* FRD-D05-V1.2.md:739.                                                    *)
AnnouncedIsReadable == announced /\ scored => ShapResult.answer = "ok"
=============================================================================
