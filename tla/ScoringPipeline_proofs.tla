----------------------- MODULE ScoringPipeline_proofs -----------------------
(***************************************************************************)
(* For any number of requests and transactions: the breaker's flag is exact,*)
(* a kill switch is obeyed, a transaction's follow-ups are sent at most once*)
(* and for its stored score, and the pipeline implements ScoredOnce.        *)
(***************************************************************************)
EXTENDS ScoringPipeline, TLAPS

USE DEF Scopes, Bands, Actions, Decisions, Tasks, Ended, Running

(* Fusion answers with a decision, never with a rule's action.              *)
LEMMA FuseType ==
  ASSUME NEW action \in Actions, NEW band \in Bands
  PROVE  FuseDecisions(action, band) \in Decisions
  BY DEF FuseDecisions, Strictness, RuleDecision, MlDecision

LEMMA InitType == Init => TypeOK
  BY ScoringAssumption DEF Init, TypeOK

LEMMA ScoreType ==
  ASSUME TypeOK, NEW r \in Requests, Score(r)
  PROVE  result' \in [Requests -> ScoreResult \cup {Nothing}]
<1>1. PICK action \in Actions, band \in Bands :
        result' = [result EXCEPT ![r] =
          [decision |-> FuseDecisions(action, band), band |-> band]]
  BY DEF Score
<1>2. [decision |-> FuseDecisions(action, band), band |-> band] \in ScoreResult
  BY FuseType DEF ScoreResult
<1> QED
  BY <1>1, <1>2 DEF TypeOK

LEMMA TypeStep == TypeOK /\ [Next]_vars => TypeOK'
<1> SUFFICES ASSUME TypeOK, [Next]_vars PROVE TypeOK'
  OBVIOUS
<1> USE ScoringAssumption
<1>1. ASSUME NEW s \in Scopes, Activate(s) \/ Deactivate(s) \/ Expire(s)
      PROVE  TypeOK'
  BY <1>1 DEF Activate, Deactivate, Expire, SetSwitch, breaker, outside, TypeOK
<1>2. CASE CoolDown
  BY <1>2 DEF CoolDown, outside, TypeOK
<1>3. CASE Crash
  <2>1. pc' \in [Requests -> {"new"} \cup Running \cup Ended]
    BY <1>3 DEF Crash, TypeOK
  <2> QED
    BY <1>3, <2>1 DEF Crash, RecordSuccess, outside, TypeOK
<1>4. ASSUME NEW r \in Requests, CheckGlobal(r)
      PROVE  TypeOK'
  BY <1>4 DEF CheckGlobal, CheckSwitch, Goto, breaker, outside, TypeOK
<1>5. ASSUME NEW r \in Requests, Step(r)
      PROVE  TypeOK'
  <2>1. CASE CheckModel(r)
    BY <2>1 DEF CheckModel, CheckSwitch, Goto, breaker, outside, TypeOK
  <2>2. CASE Evaluate(r)
    BY <2>2 DEF Evaluate, Goto, breaker, outside, TypeOK
  <2>3. CASE RemoteAnswers(r)
    BY <2>3, ScoreType DEF RemoteAnswers, RecordSuccess, Goto, outside, TypeOK
  <2>4. CASE RemoteFails(r)
    BY <2>4 DEF RemoteFails, RecordFailure, Goto, outside, TypeOK
  <2>5. CASE PredictLocal(r)
    BY <2>5, ScoreType DEF PredictLocal, Goto, breaker, outside, TypeOK
  <2>6. CASE Persist(r)
    BY <2>6 DEF Persist, Goto, breaker, TypeOK
  <2>7. CASE PersistFails(r)
    BY <2>7 DEF PersistFails, Goto, breaker, outside, TypeOK
  <2>8. CASE DispatchFollowUps(r)
    <3>1. PICK tasks \in SUBSET FollowUps(result[r]) :
            sent' = [sent EXCEPT ![TxOf[r]] =
              [t \in Tasks |-> IF t \in tasks THEN @[t] + 1 ELSE @[t]]]
      BY <2>8 DEF DispatchFollowUps
    <3>2. [t \in Tasks |-> IF t \in tasks THEN sent[TxOf[r]][t] + 1
                           ELSE sent[TxOf[r]][t]] \in [Tasks -> Nat]
      BY DEF TypeOK
    <3>3. sent' \in [Txs -> [Tasks -> Nat]]
      BY <3>1, <3>2 DEF TypeOK
    <3> QED
      BY <2>8, <3>3 DEF DispatchFollowUps, Goto, breaker, TypeOK
  <2>9. CASE CacheScore(r)
    BY <2>9 DEF CacheScore, Goto, breaker, TypeOK
  <2> QED
    BY <1>5, <2>1, <2>2, <2>3, <2>4, <2>5, <2>6, <2>7, <2>8, <2>9 DEF Step
<1>6. CASE UNCHANGED vars
  BY <1>6 DEF vars, TypeOK
<1> QED
  BY <1>1, <1>2, <1>3, <1>4, <1>5, <1>6 DEF Next, Environment

(* Every variable of the pipeline keeps its type.                           *)
THEOREM ScoringTypeCorrect == Spec => []TypeOK
  BY InitType, TypeStep, PTL DEF Spec

-----------------------------------------------------------------------------
(* The breaker is inductive by itself: a count below the threshold has      *)
(* nothing open, and every outcome sets both variables.                     *)
LEMMA BreakerStep == TypeOK /\ BreakerMatchesFailures /\ [Next]_vars
                       => BreakerMatchesFailures'
<1> SUFFICES ASSUME TypeOK, BreakerMatchesFailures, [Next]_vars
             PROVE  BreakerMatchesFailures'
  OBVIOUS
<1> USE ScoringAssumption DEF BreakerMatchesFailures
<1>1. CASE RecordSuccess
  BY <1>1 DEF RecordSuccess
<1>2. CASE RecordFailure
  BY <1>2 DEF RecordFailure, TypeOK
<1>3. CASE CoolDown
  BY <1>3 DEF CoolDown
<1>4. CASE UNCHANGED breaker
  BY <1>4 DEF breaker
<1> QED
  BY <1>1, <1>2, <1>3, <1>4
  DEF Next, Environment, Step, Activate, Deactivate, Expire, SetSwitch, Crash,
      CheckGlobal, CheckModel, CheckSwitch, Evaluate, RemoteAnswers, RemoteFails,
      PredictLocal, Persist, PersistFails, DispatchFollowUps, CacheScore,
      vars, breaker

(* Whatever late answers arrive and whenever the process restarts, opened_at*)
(* is set exactly when the last failure_threshold outcomes were failures.   *)
THEOREM BreakerIsExact == Spec => []BreakerMatchesFailures
<1>1. Init => BreakerMatchesFailures
  BY ScoringAssumption DEF Init, BreakerMatchesFailures
<1> QED
  BY <1>1, BreakerStep, ScoringTypeCorrect, PTL DEF Spec

-----------------------------------------------------------------------------
(* A switch in covered is still ACTIVE; L1 has been read when the request   *)
(* left "new", L2 when it left "model".                                     *)
SwitchInv ==
  \A r \in Requests :
    /\ \A s \in covered[r] : switch[s] = "ACTIVE"
    /\ "L1_GLOBAL" \in covered[r] => pc[r] \in {"fallback", "crashed"}
    /\ covered[r] # {} => pc[r] \in {"model", "fallback", "crashed"}

LEMMA SwitchStep == TypeOK /\ SwitchInv /\ [Next]_vars => SwitchInv'
<1> SUFFICES ASSUME TypeOK, SwitchInv, [Next]_vars PROVE SwitchInv'
  OBVIOUS
<1>1. ASSUME NEW s \in Scopes, Activate(s) \/ Deactivate(s) \/ Expire(s)
      PROVE  SwitchInv'
  <2>1. PICK state \in {"ACTIVE", "COOLDOWN", "IDLE"} : SetSwitch(s, state)
    BY <1>1 DEF Activate, Deactivate, Expire
  <2> QED
    BY <2>1 DEF SetSwitch, SwitchInv, TypeOK
<1>2. CASE Crash
  BY <1>2 DEF Crash, outside, SwitchInv, TypeOK
<1>3. ASSUME NEW r \in Requests, CheckGlobal(r)
      PROVE  SwitchInv'
  <2>1. PICK reachable \in BOOLEAN :
          /\ CheckSwitch(r, "L1_GLOBAL", reachable, "new", "model")
          /\ covered' = [covered EXCEPT ![r] =
               {s \in Scopes : switch[s] = "ACTIVE" /\ (s = "L1_GLOBAL" => reachable)}]
    BY <1>3 DEF CheckGlobal
  <2>2. switch' = switch
    BY <2>1 DEF CheckSwitch
  <2>3. pc'[r] \in {"model", "fallback"}
    BY <2>1 DEF CheckSwitch, Goto, TypeOK
  <2>4. "L1_GLOBAL" \in covered'[r] => pc'[r] = "fallback"
    BY <2>1 DEF CheckSwitch, Goto, IsActive, TypeOK
  <2>5. \A s \in covered'[r] : switch[s] = "ACTIVE"
    BY <2>1 DEF TypeOK
  <2>6. \A q \in Requests \ {r} : covered'[q] = covered[q] /\ pc'[q] = pc[q]
    BY <2>1 DEF CheckSwitch, Goto, TypeOK
  <2> QED
    BY <2>2, <2>3, <2>4, <2>5, <2>6 DEF SwitchInv
<1>4. ASSUME NEW r \in Requests, CheckModel(r)
      PROVE  SwitchInv'
  <2>1. PICK reachable \in BOOLEAN :
          /\ CheckSwitch(r, "L2_MODEL", reachable, "model", "evaluate")
          /\ covered' = [covered EXCEPT ![r] = IF reachable THEN @ ELSE @ \ {"L2_MODEL"}]
    BY <1>4 DEF CheckModel
  <2>2. switch' = switch /\ pc[r] = "model"
    BY <2>1 DEF CheckSwitch, Goto
  <2>3. covered[r] \subseteq {"L2_MODEL"}
    BY <2>2 DEF SwitchInv, TypeOK
  <2>4. "L2_MODEL" \in covered'[r] => pc'[r] = "fallback"
    BY <2>1 DEF CheckSwitch, Goto, IsActive, SwitchInv, TypeOK
  <2>5. covered'[r] \subseteq covered[r]
    BY <2>1 DEF TypeOK
  <2>6. \A q \in Requests \ {r} : covered'[q] = covered[q] /\ pc'[q] = pc[q]
    BY <2>1 DEF CheckSwitch, Goto, TypeOK
  <2> QED
    BY <2>2, <2>3, <2>4, <2>5, <2>6 DEF SwitchInv
<1>5. ASSUME NEW r \in Requests, Step(r), ~CheckModel(r)
      PROVE  SwitchInv'
  <2>1. /\ pc[r] \notin {"model", "fallback", "crashed"}
        /\ UNCHANGED <<switch, covered>>
        /\ \A q \in Requests \ {r} : pc'[q] = pc[q]
    BY <1>5
    DEF Step, Goto, Evaluate, RemoteAnswers, RemoteFails, PredictLocal, Persist,
        PersistFails, DispatchFollowUps, CacheScore, TypeOK
  <2> QED
    BY <2>1 DEF SwitchInv
<1>6. CASE CoolDown \/ UNCHANGED vars
  BY <1>6 DEF CoolDown, vars, SwitchInv
<1> QED
  BY <1>1, <1>2, <1>3, <1>4, <1>5, <1>6 DEF Next, Environment

(* A switch that is ACTIVE from the request's arrival to its answer keeps   *)
(* the request away from every model score.                                 *)
THEOREM SwitchIsObeyed == Spec => []KillSwitchObeyed
<1>1. Init => SwitchInv
  BY DEF Init, SwitchInv
<1>2. SwitchInv => KillSwitchObeyed
  BY DEF SwitchInv, KillSwitchObeyed
<1> QED
  BY <1>1, <1>2, SwitchStep, ScoringTypeCorrect, PTL DEF Spec

-----------------------------------------------------------------------------
(* Whoever is about to dispatch has inserted the transaction's only row, so *)
(* it is the only one, and nothing has been sent for the transaction yet.   *)
Scored(r) == pc[r] \in {"persist", "dispatch", "cache"}

ResultInv == \A r \in Requests : Scored(r) => result[r] \in ScoreResult

DispatcherInv ==
  \A r \in Requests : pc[r] = "dispatch" =>
    /\ stored[TxOf[r]] = result[r]
    /\ \A t \in Tasks : sent[TxOf[r]][t] = 0
    /\ \A q \in Requests : pc[q] = "dispatch" /\ TxOf[q] = TxOf[r] => q = r

SentInv ==
  \A x \in Txs, t \in Tasks : sent[x][t] # 0 =>
    /\ sent[x][t] = 1
    /\ stored[x] # Nothing
    /\ t \in FollowUps(stored[x])

FollowUpInv == TypeOK /\ ResultInv /\ DispatcherInv /\ SentInv

(* A step that stores and sends nothing, and makes nobody a dispatcher.     *)
LEMMA QuietStep ==
  ASSUME FollowUpInv, TypeOK', ResultInv', UNCHANGED <<stored, sent>>,
         \A r \in Requests : pc'[r] = "dispatch" =>
           pc[r] = "dispatch" /\ result'[r] = result[r]
  PROVE  FollowUpInv'
  BY DEF FollowUpInv, DispatcherInv, SentInv, FollowUps

LEMMA PersistStep ==
  ASSUME FollowUpInv, TypeOK', NEW r \in Requests, Persist(r)
  PROVE  FollowUpInv'
<1> DEFINE x == TxOf[r]
<1>1. x \in Txs /\ stored[x] = Nothing /\ stored'[x] = result[r]
  BY ScoringAssumption DEF Persist, FollowUpInv, TypeOK
<1>2. result[r] \in ScoreResult /\ UNCHANGED <<result, sent>>
  BY DEF Persist, Goto, FollowUpInv, ResultInv, Scored
<1>3. \A q \in Requests \ {r} : pc'[q] = pc[q]
  BY DEF Persist, Goto, FollowUpInv, TypeOK
<1>4. \A y \in Txs \ {x} : stored'[y] = stored[y]
  BY DEF Persist, FollowUpInv, TypeOK
<1>5. \A t \in Tasks : sent[x][t] = 0
  BY <1>1 DEF FollowUpInv, SentInv
<1>6. \A q \in Requests : pc[q] = "dispatch" => TxOf[q] # x
  BY <1>1, NothingAssumption DEF FollowUpInv, DispatcherInv, ResultInv, Scored
<1>7. ResultInv'
  BY <1>2, <1>3 DEF FollowUpInv, ResultInv, Scored
<1>8. DispatcherInv'
  <2> SUFFICES ASSUME NEW q \in Requests, pc'[q] = "dispatch"
               PROVE  /\ stored'[TxOf[q]] = result'[q]
                      /\ \A t \in Tasks : sent'[TxOf[q]][t] = 0
                      /\ \A p \in Requests : pc'[p] = "dispatch" /\ TxOf[p] = TxOf[q] => p = q
    BY DEF DispatcherInv
  <2>1. CASE q = r
    BY <2>1, <1>1, <1>2, <1>3, <1>5, <1>6
  <2>2. CASE q # r
    <3>1. pc[q] = "dispatch" /\ TxOf[q] # x /\ TxOf[q] \in Txs
      BY <2>2, <1>3, <1>6, ScoringAssumption
    <3> QED
      BY <3>1, <1>2, <1>3, <1>4 DEF FollowUpInv, DispatcherInv
  <2> QED
    BY <2>1, <2>2
<1>9. SentInv'
  BY <1>2, <1>4, <1>5 DEF FollowUpInv, SentInv, FollowUps
<1> QED
  BY <1>7, <1>8, <1>9 DEF FollowUpInv

LEMMA DispatchStep ==
  ASSUME FollowUpInv, TypeOK', NEW r \in Requests, DispatchFollowUps(r)
  PROVE  FollowUpInv'
<1> DEFINE x == TxOf[r]
<1>1. PICK tasks \in SUBSET FollowUps(result[r]) :
        sent' = [sent EXCEPT ![x] =
          [t \in Tasks |-> IF t \in tasks THEN @[t] + 1 ELSE @[t]]]
  BY DEF DispatchFollowUps
<1>2. x \in Txs /\ UNCHANGED <<stored, result>>
  BY ScoringAssumption DEF DispatchFollowUps
<1>3. pc[r] = "dispatch" /\ pc' = [pc EXCEPT ![r] = "cache"]
  BY DEF DispatchFollowUps, Goto
<1>4. stored[x] = result[r] /\ result[r] \in ScoreResult
  BY <1>3 DEF FollowUpInv, DispatcherInv, ResultInv, Scored
<1>5. \A t \in Tasks : sent'[x][t] = IF t \in tasks THEN 1 ELSE 0
  BY <1>1, <1>2, <1>3 DEF FollowUpInv, DispatcherInv, TypeOK
<1>6. \A y \in Txs \ {x} : sent'[y] = sent[y]
  BY <1>1 DEF FollowUpInv, TypeOK
<1>7. ResultInv'
  BY <1>2, <1>3 DEF FollowUpInv, TypeOK, ResultInv, Scored
<1>8. DispatcherInv'
  <2>1. \A q \in Requests : pc'[q] = "dispatch" =>
          q # r /\ pc[q] = "dispatch" /\ TxOf[q] # x /\ TxOf[q] \in Txs
    BY <1>3, ScoringAssumption DEF FollowUpInv, DispatcherInv, TypeOK
  <2> QED
    BY <2>1, <1>2, <1>6 DEF FollowUpInv, DispatcherInv
<1>9. SentInv'
  BY <1>1, <1>2, <1>4, <1>5, <1>6, NothingAssumption
  DEF FollowUpInv, SentInv, FollowUps
<1> QED
  BY <1>7, <1>8, <1>9 DEF FollowUpInv

LEMMA FollowUpStep == FollowUpInv /\ [Next]_vars => FollowUpInv'
<1> SUFFICES ASSUME FollowUpInv, [Next]_vars PROVE FollowUpInv'
  OBVIOUS
<1>1. TypeOK /\ TypeOK'
  BY TypeStep DEF FollowUpInv
<1>2. ASSUME Environment \/ UNCHANGED vars
      PROVE  FollowUpInv'
  <2>1. UNCHANGED <<stored, sent>>
    BY <1>2 DEF Environment, Activate, Deactivate, Expire, SetSwitch, CoolDown,
                Crash, outside, vars
  <2>2. \A r \in Requests : Scored(r)' =>
          Scored(r) /\ pc'[r] = pc[r] /\ result'[r] = result[r]
    BY <1>1, <1>2 DEF Environment, Activate, Deactivate, Expire, SetSwitch, CoolDown,
                      Crash, vars, Scored, TypeOK
  <2>3. ResultInv'
    BY <2>2 DEF FollowUpInv, ResultInv
  <2> QED
    BY <1>1, <2>1, <2>2, <2>3, QuietStep DEF Scored
<1>3. ASSUME NEW r \in Requests, CheckGlobal(r) \/ Step(r),
             ~Persist(r), ~DispatchFollowUps(r)
      PROVE  FollowUpInv'
  <2>1. UNCHANGED <<stored, sent>>
    BY <1>3 DEF CheckGlobal, CheckModel, CheckSwitch, Step, Evaluate, RemoteAnswers,
                RemoteFails, PredictLocal, PersistFails, CacheScore, outside
  <2>2. \A q \in Requests \ {r} : pc'[q] = pc[q] /\ result'[q] = result[q]
    BY <1>1, <1>3
    DEF CheckGlobal, CheckModel, CheckSwitch, Step, Goto, Evaluate, RemoteAnswers,
        RemoteFails, PredictLocal, Score, PersistFails, CacheScore, TypeOK
  <2>3. pc'[r] # "dispatch"
    BY <1>1, <1>3
    DEF CheckGlobal, CheckModel, CheckSwitch, Step, Goto, Evaluate, RemoteAnswers,
        RemoteFails, PredictLocal, PersistFails, CacheScore, TypeOK
  <2>4. Scored(r)' => result'[r] \in ScoreResult
    <3>1. ASSUME Score(r) PROVE result'[r] \in ScoreResult
      BY <1>1, <3>1, FuseType DEF Score, ScoreResult, TypeOK
    <3>2. CASE RemoteAnswers(r) \/ PredictLocal(r)
      BY <3>1, <3>2 DEF RemoteAnswers, PredictLocal
    <3>3. CASE PersistFails(r)
      BY <3>3 DEF PersistFails, Goto, FollowUpInv, ResultInv, Scored
    <3> QED
      BY <1>1, <1>3, <3>2, <3>3
      DEF CheckGlobal, CheckModel, CheckSwitch, Step, Goto, Evaluate, RemoteFails,
          CacheScore, Scored, TypeOK
  <2>5. ResultInv'
    BY <2>2, <2>4 DEF FollowUpInv, ResultInv, Scored
  <2> QED
    BY <1>1, <2>1, <2>2, <2>3, <2>5, QuietStep
<1> QED
  BY <1>1, <1>2, <1>3, PersistStep, DispatchStep DEF Next, Step

LEMMA FollowUpInvariance == Spec => []FollowUpInv
<1>1. Init => FollowUpInv
  BY InitType DEF Init, FollowUpInv, ResultInv, DispatcherInv, SentInv, Scored
<1> QED
  BY <1>1, FollowUpStep, PTL DEF Spec

(* No transaction gets a second case, explanation or webhook, however often *)
(* and concurrently it is scored.                                           *)
THEOREM FollowUpsOnce == Spec => []FollowUpsAtMostOnce
<1>1. FollowUpInv => FollowUpsAtMostOnce
  BY DEF FollowUpInv, SentInv, TypeOK, FollowUpsAtMostOnce
<1> QED
  BY <1>1, FollowUpInvariance, PTL

(* What was sent is what the stored score calls for.                        *)
THEOREM FollowUpsOfStored == Spec => []FollowUpsMatchStored
<1>1. FollowUpInv => FollowUpsMatchStored
  BY DEF FollowUpInv, SentInv, TypeOK, FollowUpsMatchStored
<1> QED
  BY <1>1, FollowUpInvariance, PTL

(* The unique index makes a stored score final.                             *)
THEOREM StoredNeverChanges == Spec => StoredIsFinal
<1>1. TypeOK /\ [Next]_vars =>
        [\A x \in Txs : stored[x] # Nothing => stored'[x] = stored[x]]_stored
  <2> SUFFICES ASSUME TypeOK, Next, stored' # stored, NEW x \in Txs, stored[x] # Nothing
               PROVE  stored'[x] = stored[x]
    BY DEF vars
  <2>1. PICK r \in Requests : Persist(r)
    BY DEF Next, Environment, Step, Activate, Deactivate, Expire, SetSwitch, CoolDown,
           Crash, CheckGlobal, CheckModel, CheckSwitch, Evaluate, RemoteAnswers,
           RemoteFails, PredictLocal, PersistFails, DispatchFollowUps, CacheScore, outside
  <2> QED
    BY <2>1 DEF Persist, TypeOK
<1> QED
  BY <1>1, ScoringTypeCorrect, PTL DEF Spec, StoredIsFinal

(* What a step does to stored and sent: one transaction's score is stored,  *)
(* or its follow-ups are sent, or neither changes.                          *)
LEMMA StoresOrSends ==
  ASSUME FollowUpInv, [Next]_vars
  PROVE  \/ \E x \in Txs : \/ \E score \in ScoreResult : Once!Store(x, score)
                           \/ \E tasks \in SUBSET Tasks : Once!Send(x, tasks)
         \/ UNCHANGED <<stored, sent>>
<1>1. ASSUME NEW r \in Requests, Persist(r)
      PROVE  \E x \in Txs, score \in ScoreResult : Once!Store(x, score)
  <2>1. TxOf[r] \in Txs /\ result[r] \in ScoreResult
    BY <1>1, ScoringAssumption DEF Persist, Goto, FollowUpInv, ResultInv, Scored
  <2>2. Once!Store(TxOf[r], result[r])
    BY <1>1 DEF Persist, Once!Store
  <2> QED
    BY <2>1, <2>2
<1>2. ASSUME NEW r \in Requests, DispatchFollowUps(r)
      PROVE  \E x \in Txs, tasks \in SUBSET Tasks : Once!Send(x, tasks)
  <2> DEFINE x == TxOf[r]
  <2>1. PICK tasks \in SUBSET FollowUps(result[r]) :
          sent' = [sent EXCEPT ![x] =
            [t \in Tasks |-> IF t \in tasks THEN @[t] + 1 ELSE @[t]]]
    BY <1>2 DEF DispatchFollowUps
  <2>2. /\ x \in Txs /\ result[r] \in ScoreResult /\ stored[x] = result[r]
        /\ \A t \in Tasks : sent[x][t] = 0
        /\ UNCHANGED stored
    BY <1>2, ScoringAssumption
    DEF DispatchFollowUps, Goto, FollowUpInv, ResultInv, DispatcherInv, Scored
  <2>3. tasks \subseteq [score \in ScoreResult |-> FollowUps(score)][stored[x]]
    BY <2>1, <2>2
  <2>4. sent' = [sent EXCEPT ![x] = [t \in Tasks |-> IF t \in tasks THEN 1 ELSE 0]]
    <3>1. [t \in Tasks |-> IF t \in tasks THEN sent[x][t] + 1 ELSE sent[x][t]]
            = [t \in Tasks |-> IF t \in tasks THEN 1 ELSE 0]
      BY <2>2
    <3> QED
      BY <2>1, <3>1
  <2>5. stored[x] # Nothing /\ tasks \in SUBSET Tasks
    BY <2>1, <2>2, NothingAssumption DEF FollowUps
  <2>6. Once!Send(x, tasks)
    BY <2>2, <2>3, <2>4, <2>5 DEF Once!Send
  <2> QED
    BY <2>2, <2>5, <2>6
<1>3. ASSUME ~ \E r \in Requests : Persist(r) \/ DispatchFollowUps(r)
      PROVE  UNCHANGED <<stored, sent>>
  BY <1>3
  DEF vars, Next, Environment, Step, Activate, Deactivate, Expire, SetSwitch, CoolDown,
      Crash, CheckGlobal, CheckModel, CheckSwitch, Evaluate, RemoteAnswers,
      RemoteFails, PredictLocal, PersistFails, CacheScore, outside
<1> QED
  BY <1>1, <1>2, <1>3

(* However its requests race, fail and crash, score_sync as a whole does    *)
(* what ScoredOnce says: the implementation's first state is one of the     *)
(* abstract ones, and each step one of its steps or none.                   *)
THEOREM PipelineScoresOnce == Spec => ImplementsScoredOnce
<1>1. Init => Once!Init
  BY DEF Init, Once!Init
<1>2. FollowUpInv /\ [Next]_vars => [Once!Next]_(Once!vars)
  BY StoresOrSends DEF Once!Next, Once!vars
<1> QED
  BY <1>1, <1>2, FollowUpInvariance, PTL DEF Spec, ImplementsScoredOnce, Once!Spec
=============================================================================
