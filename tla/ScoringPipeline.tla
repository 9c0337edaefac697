-------------------------- MODULE ScoringPipeline --------------------------
(***************************************************************************)
(* score_sync, the scoring path of one API process: two kill switch checks, *)
(* the rule engine beside the ML engine (remote behind a circuit breaker,   *)
(* local heuristics otherwise), fusion, one database transaction, follow-up *)
(* messages to the Celery broker and the score cache.                       *)
(*                                                                          *)
(* Requests for the same external_tx_id, sent one after the other or at the *)
(* same time, race for its unique row in transactions.  A risk score is     *)
(* modelled by its band, an amount by the band the heuristic gives it.      *)
(***************************************************************************)
EXTENDS Naturals, FiniteSets

CONSTANTS Requests,         (* calls of score_sync                          *)
          Txs,              (* external_tx_id                               *)
          TxOf,             (* the transaction a request scores             *)
          FailureThreshold, (* ml_breaker_failure_threshold                 *)
          EnvSwitches,      (* scopes the environment variables turn on     *)
          HasWebhooks,      (* the tenant has an ACTIVE merchant with a URL *)
          Nothing

ASSUME ScoringAssumption ==
  /\ TxOf \in [Requests -> Txs]
  /\ FailureThreshold \in Nat \ {0}
  /\ EnvSwitches \subseteq {"L1_GLOBAL", "L2_MODEL"}
  /\ HasWebhooks \in BOOLEAN

VARIABLES
  switch,   (* the Redis keys kill_switch:{scope}; IDLE is no key           *)
  failures, (* consecutive_failures of the breaker                          *)
  opened,   (* opened_at: None, less or more than recovery_seconds ago      *)
  pc,       (* where each request is                                        *)
  result,   (* the ScoreResult                                              *)
  stored,   (* the transactions row and its scores row                      *)
  sent,     (* history: broker messages about a transaction, by task        *)
  cache,    (* score_cache:{tenant}:{external_tx_id} exists                 *)
  covered   (* history: the switches ACTIVE ever since the request began    *)

vars == <<switch, failures, opened, pc, result, stored, sent, cache, covered>>
breaker == <<failures, opened>>
outside == <<stored, sent, cache>>

Scopes == {"L1_GLOBAL", "L2_MODEL"}
Bands == {"LOW", "MEDIUM", "HIGH", "CRITICAL"}
Actions == {"ALLOW", "REVIEW", "BLOCK"}
Decisions == {"ALLOW", "REVIEW", "CHALLENGE", "DENY"}
Tasks == {"scoring.generate_case", "shap.compute", "webhook.deliver"}
ScoreResult == [decision : Decisions, band : Bands]
ASSUME NothingAssumption == Nothing \notin ScoreResult
(* "fallback" is the answer of _heuristic_fallback, "answered" a scored one. *)
Ended == {"fallback", "answered", "crashed"}
Running == {"model", "evaluate", "remote", "local", "persist",
            "dispatch", "cache"}

TypeOK ==
  /\ switch \in [Scopes -> {"IDLE", "ACTIVE", "COOLDOWN"}]
  /\ failures \in Nat
  /\ opened \in {"none", "cooling", "cooled"}
  /\ pc \in [Requests -> {"new"} \cup Running \cup Ended]
  /\ result \in [Requests -> ScoreResult \cup {Nothing}]
  /\ stored \in [Txs -> ScoreResult \cup {Nothing}]
  /\ sent \in [Txs -> [Tasks -> Nat]]
  /\ cache \in [Txs -> BOOLEAN]
  /\ covered \in [Requests -> SUBSET Scopes]

Init ==
  /\ switch = [s \in Scopes |-> "IDLE"]
  /\ failures = 0
  /\ opened = "none"
  /\ pc = [r \in Requests |-> "new"]
  /\ result = [r \in Requests |-> Nothing]
  /\ stored = [x \in Txs |-> Nothing]
  /\ sent = [x \in Txs |-> [t \in Tasks |-> 0]]
  /\ cache = [x \in Txs |-> FALSE]
  /\ covered = [r \in Requests |-> {}]

Goto(r, from, to) ==
  /\ pc[r] = from
  /\ pc' = [pc EXCEPT ![r] = to]

-----------------------------------------------------------------------------
(* Kill switch keys: activate and deactivate from any state (their failures *)
(* change nothing), and both keys expire.                                   *)
SetSwitch(scope, state) ==
  /\ switch[scope] # state
  /\ switch' = [switch EXCEPT ![scope] = state]
  /\ covered' = [r \in Requests |-> covered[r] \ {scope}]
  /\ UNCHANGED <<breaker, pc, result, outside>>

Activate(scope) == SetSwitch(scope, "ACTIVE")
Deactivate(scope) == SetSwitch(scope, "COOLDOWN")
Expire(scope) == SetSwitch(scope, "IDLE")

IsActiveGlobalOnly(scope, reachable) ==
  IF reachable THEN switch[scope] = "ACTIVE" /\ scope = "L1_GLOBAL"
  ELSE scope \in EnvSwitches

(* is_active: only ACTIVE counts; without Redis the environment decides.    *)
IsActive(scope, reachable) ==
  IF reachable THEN switch[scope] = "ACTIVE" ELSE scope \in EnvSwitches

(* An ACTIVE switch ends the request with _heuristic_fallback's answer, from *)
(* the amount alone: nothing is stored, sent or cached.                      *)
CheckSwitch(r, scope, reachable, from, to) ==
  /\ Goto(r, from, IF IsActive(scope, reachable) THEN "fallback" ELSE to)
  /\ UNCHANGED <<switch, breaker, result, outside>>

(* The first step of a request.                                             *)
CheckGlobal(r) ==
  \E reachable \in BOOLEAN :
    /\ CheckSwitch(r, "L1_GLOBAL", reachable, "new", "model")
    /\ covered' = [covered EXCEPT ![r] =
         {s \in Scopes : switch[s] = "ACTIVE" /\ (s = "L1_GLOBAL" => reachable)}]

CheckModel(r) ==
  \E reachable \in BOOLEAN :
    /\ CheckSwitch(r, "L2_MODEL", reachable, "model", "evaluate")
    /\ covered' = [covered EXCEPT ![r] = IF reachable THEN @ ELSE @ \ {"L2_MODEL"}]

-----------------------------------------------------------------------------
(* asyncio.gather: the ML engine, which asks ml-serving unless the breaker  *)
(* is open, beside the rule engine, whose action joins the score below.     *)
Evaluate(r) ==
  /\ Goto(r, "evaluate", IF opened = "cooling" THEN "local" ELSE "remote")
  /\ UNCHANGED <<switch, breaker, result, outside, covered>>

Strictness == [ALLOW |-> 0, REVIEW |-> 1, CHALLENGE |-> 2, DENY |-> 3]
MlDecision == [LOW |-> "ALLOW", MEDIUM |-> "REVIEW", HIGH |-> "CHALLENGE",
               CRITICAL |-> "DENY"]
RuleDecision == [ALLOW |-> "ALLOW", REVIEW |-> "REVIEW", BLOCK |-> "DENY"]

(* _fuse_decisions: the stricter of the two decisions.                      *)
FuseDecisions(action, band) ==
  IF Strictness[RuleDecision[action]] > Strictness[MlDecision[band]]
  THEN RuleDecision[action] ELSE MlDecision[band]

(* Any action (REVIEW as well when the rules could not be loaded) meets any *)
(* score, the local fallback's included.                                    *)
Score(r) ==
  \E action \in Actions, band \in Bands :
    result' = [result EXCEPT ![r] =
      [decision |-> FuseDecisions(action, band), band |-> band]]

RecordSuccess == failures' = 0 /\ opened' = "none"

RecordFailureOffByOne ==
  /\ failures' = IF failures < FailureThreshold THEN failures + 1 ELSE failures
  /\ opened' = IF failures >= FailureThreshold THEN "cooling" ELSE opened

(* Failures beyond the threshold all mean the same, so the count stops there*)
RecordFailure ==
  /\ failures' = IF failures < FailureThreshold THEN failures + 1 ELSE failures
  /\ opened' = IF failures' >= FailureThreshold THEN "cooling" ELSE opened

RemoteAnswers(r) ==
  /\ Goto(r, "remote", "persist")
  /\ RecordSuccess
  /\ Score(r)
  /\ UNCHANGED <<switch, outside, covered>>

RemoteFails(r) ==
  /\ Goto(r, "remote", "local")
  /\ RecordFailure
  /\ UNCHANGED <<switch, result, outside, covered>>

PredictLocalWhenClosed(r) ==
  /\ Goto(r, "local", "persist")
  /\ opened = "none"
  /\ Score(r)
  /\ UNCHANGED <<switch, breaker, outside, covered>>

PredictLocal(r) ==
  /\ Goto(r, "local", "persist")
  /\ Score(r)
  /\ UNCHANGED <<switch, breaker, outside, covered>>

(* recovery_seconds have passed since opened_at.                            *)
CoolDown ==
  /\ opened = "cooling"
  /\ opened' = "cooled"
  /\ UNCHANGED <<switch, failures, pc, result, outside, covered>>

-----------------------------------------------------------------------------
(* _persist_to_db.  The unique index admits one row per external_tx_id.     *)
(* When the RESET after the commit raises, the row is there and the caller  *)
(* is told that it is not.                                                  *)
PersistEvenIfPresent(r) ==
  /\ \E to \in {"dispatch", "cache"} : Goto(r, "persist", to)
  /\ stored' = [stored EXCEPT ![TxOf[r]] = result[r]]
  /\ UNCHANGED <<switch, breaker, result, sent, cache, covered>>

Persist(r) ==
  /\ \E to \in {"dispatch", "cache"} : Goto(r, "persist", to)
  /\ stored[TxOf[r]] = Nothing
  /\ stored' = [stored EXCEPT ![TxOf[r]] = result[r]]
  /\ UNCHANGED <<switch, breaker, result, sent, cache, covered>>

PersistFailsUnnoticed(r) ==
  /\ Goto(r, "persist", "dispatch")
  /\ UNCHANGED <<switch, breaker, result, outside, covered>>

PersistFails(r) ==
  /\ Goto(r, "persist", "cache")
  /\ UNCHANGED <<switch, breaker, result, outside, covered>>

(* dispatch_followup_tasks: what a stored score calls for.  Each call may   *)
(* fail on its own, and is not repeated.                                    *)
FollowUps(score) ==
  {t \in Tasks :
     \/ t = "scoring.generate_case" /\ score.band \in {"HIGH", "CRITICAL"}
     \/ t = "shap.compute"
     \/ /\ t = "webhook.deliver"
        /\ score.decision \in {"DENY", "REVIEW"}
        /\ HasWebhooks}

DispatchFollowUps(r) ==
  /\ Goto(r, "dispatch", "cache")
  /\ \E tasks \in SUBSET FollowUps(result[r]) :
       sent' = [sent EXCEPT ![TxOf[r]] =
         [t \in Tasks |-> IF t \in tasks THEN @[t] + 1 ELSE @[t]]]
  /\ UNCHANGED <<switch, breaker, result, stored, cache, covered>>

(* The last step; the coroutine's locals go with it.                        *)
CacheScore(r) ==
  /\ Goto(r, "cache", "answered")
  /\ \/ cache' = [cache EXCEPT ![TxOf[r]] = TRUE]
     \/ UNCHANGED cache
  /\ result' = [result EXCEPT ![r] = Nothing]
  /\ UNCHANGED <<switch, breaker, stored, sent, covered>>

(* The API process dies with everything in flight and restarts: the breaker *)
(* is process memory, the switches and the cache are Redis.                 *)
Crash ==
  /\ \E r \in Requests : pc[r] \in Running
  /\ pc' = [r \in Requests |-> IF pc[r] \in Running THEN "crashed" ELSE pc[r]]
  /\ RecordSuccess
  /\ result' = [r \in Requests |-> Nothing]
  /\ UNCHANGED <<switch, outside, covered>>

Step(r) ==
  \/ CheckModel(r) \/ Evaluate(r)
  \/ RemoteAnswers(r) \/ RemoteFails(r) \/ PredictLocal(r)
  \/ Persist(r) \/ PersistFails(r) \/ DispatchFollowUps(r) \/ CacheScore(r)

Environment ==
  \/ \E s \in Scopes : Activate(s) \/ Deactivate(s) \/ Expire(s)
  \/ CoolDown
  \/ Crash

Next ==
  \/ Environment
  \/ \E r \in Requests : CheckGlobal(r) \/ Step(r)

Spec == Init /\ [][Next]_vars

(* The event loop resumes every coroutine; the client times out, so ml-     *)
(* serving answers or fails.                                                *)
FairSpec == Spec /\ \A r \in Requests : WF_vars(Step(r))

-----------------------------------------------------------------------------
(* However often and concurrently a transaction is scored, each follow-up   *)
(* task is sent for it at most once: no second case, no second webhook.     *)
FollowUpsAtMostOnce ==
  \A x \in Txs, t \in Tasks : sent[x][t] <= 1

(* The messages are those the stored score calls for, not those of a later  *)
(* score of the same transaction that was answered but never stored.        *)
FollowUpsMatchStored ==
  \A x \in Txs, t \in Tasks : sent[x][t] > 0 =>
    stored[x] # Nothing /\ t \in FollowUps(stored[x])

(* score_sync as a whole stores a transaction's score once and sends its    *)
(* follow-ups once, whatever races with it, fails or crashes.               *)
Once == INSTANCE ScoredOnce
  WITH Results <- ScoreResult, FollowUpsOf <- [score \in ScoreResult |-> FollowUps(score)]
ImplementsScoredOnce == Once!Spec

(* With one switch ACTIVE from the arrival of a request to its answer, and  *)
(* Redis reachable, the request never sees a model score.  (Two switches    *)
(* that relay each other are not enough: they are read one after the other.)*)
KillSwitchObeyed ==
  \A r \in Requests : covered[r] # {} =>
    pc[r] \in {"model", "fallback", "crashed"}

(* Late answers of calls made before the breaker opened included, opened_at *)
(* is set exactly when the last FailureThreshold outcomes were failures.    *)
BreakerMatchesFailures ==
  (opened # "none") <=> (failures >= FailureThreshold)

(* A stored score never changes, whoever scores the transaction again.      *)
StoredIsFinal ==
  [][\A x \in Txs : stored[x] # Nothing => stored'[x] = stored[x]]_stored

(* Every request is answered, whatever fails, unless its process dies.      *)
EveryRequestEnds ==
  \A r \in Requests : pc[r] \in Running ~> pc[r] \in Ended
=============================================================================
