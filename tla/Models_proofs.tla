--------------------------- MODULE Models_proofs ----------------------------
(***************************************************************************)
(* Proofs about the models: their registry and the checks that switch a     *)
(* drifting one off, and the service that scores with them.                 *)
(*                                                                         *)
(* The registry.  Hours of drifted scores can only add up while a check is  *)
(* due that has the switch on next, or one was missed.  A promotion that no *)
(* commit has come between retires every row that is ACTIVE when it ends.   *)
(*                                                                         *)
(* The service.  The list in Redis is an end of what was pushed, and the    *)
(* engine's window of failures is an end of all failures that is long       *)
(* enough for the verdict: both facts are kept by the same lemmas about the *)
(* ends of sequences.                                                       *)
(***************************************************************************)
EXTENDS ModelOps, MlServing,
        FiniteSetTheorems, SequenceTheorems, WellFoundedInduction, TLAPS

-----------------------------------------------------------------------------
(* The registry and the checks.                                             *)

Request == [stage : Stages, writes : [Models -> Statuses \cup {"keep"}]]

LEMMA IdleIsRequest == Idle \in Request /\ Idle.stage = "idle"
  BY DEF Idle, Keep, Request, Stages

LEMMA ModelOpsInit == Init => TypeOK
<1> SUFFICES ASSUME Init PROVE TypeOK
  OBVIOUS
<1>1. req \in [Handlers -> Request]
  BY IdleIsRequest DEF Init
<1>2. exposed \in 0..MaxExposed
  BY ModelOpsAssumption DEF Init
<1> QED
  BY <1>1, <1>2 DEF Init, TypeOK, Request, Statuses

(* A request that loads holds no row yet.                                   *)
LEMMA LoadTypes ==
  ASSUME TypeOK, NEW h \in Handlers, NEW stage \in Stages,
         NEW writes \in [Models -> Statuses \cup {"keep"}], Load(h, stage, writes)
  PROVE  TypeOK'
<1>1. /\ req[h].stage = "idle" /\ req \in [Handlers -> Request]
      /\ req' = [req EXCEPT ![h] = [stage |-> stage, writes |-> writes]]
      /\ alone' = alone \cup {h}
      /\ UNCHANGED <<status, lock, scores, redis, check, history>>
  BY DEF Load, TypeOK, Request
<1>2. req' \in [Handlers -> Request]
  BY <1>1 DEF Request
<1>3. \A m \in Models : lock[m] # NoHandler => lock[m] # h /\ lock[m] \in Handlers
  BY <1>1 DEF TypeOK
<1>4. \A m \in Models : lock[m] # NoHandler =>
        req'[lock[m]].stage = "flush" /\ req'[lock[m]].writes[m] = "RETIRED"
  BY <1>1, <1>3 DEF TypeOK
<1> QED
  BY <1>1, <1>2, <1>4 DEF TypeOK, Request, scores, redis, history

(* A row passes to a handler that is about to retire it, or to nobody.      *)
LEMMA EndTypes ==
  ASSUME TypeOK, NEW h \in Handlers, End(h)
  PROVE  /\ req' \in [Handlers -> Request]
         /\ lock' \in [Models -> Handlers \cup {NoHandler}]
         /\ \A m \in Models : lock'[m] # NoHandler =>
              req'[lock'[m]].stage = "flush" /\ req'[lock'[m]].writes[m] = "RETIRED"
<1>1. /\ req \in [Handlers -> Request]
      /\ req' = [req EXCEPT ![h] = Idle]
      /\ lock' = [m \in Models |-> IF lock[m] # h THEN lock[m]
                                   ELSE IF Waiting(m, h) = {} THEN NoHandler
                                   ELSE CHOOSE k \in Waiting(m, h) : TRUE]
  BY DEF End, TypeOK, Request
<1>2. req' \in [Handlers -> Request]
  BY <1>1, IdleIsRequest
<1>3. ASSUME NEW m \in Models
      PROVE  /\ lock'[m] \in Handlers \cup {NoHandler}
             /\ lock'[m] # NoHandler =>
                  /\ lock'[m] # h /\ req[lock'[m]].stage = "flush"
                  /\ req[lock'[m]].writes[m] = "RETIRED"
  <2>1. CASE lock[m] # h
    BY <1>1, <2>1 DEF TypeOK
  <2>2. CASE lock[m] = h /\ Waiting(m, h) = {}
    BY <1>1, <2>2
  <2>3. CASE lock[m] = h /\ Waiting(m, h) # {}
    <3>1. lock'[m] \in Waiting(m, h)
      BY <1>1, <2>3
    <3> QED
      BY <3>1 DEF Waiting
  <2> QED
    BY <2>1, <2>2, <2>3
<1>4. \A m \in Models : lock'[m] # NoHandler => req'[lock'[m]] = req[lock'[m]]
  BY <1>1, <1>3
<1> QED
  BY <1>1, <1>2, <1>3, <1>4

LEMMA RetireOthersTypes ==
  ASSUME TypeOK, NEW h \in Handlers, RetireOthers(h)
  PROVE  TypeOK'
<1> DEFINE writes == [m \in Models |-> IF m \in Others(h) THEN "RETIRED" ELSE req[h].writes[m]]
<1>1. /\ req[h].stage = "retiring" /\ req \in [Handlers -> Request]
      /\ req' = [req EXCEPT ![h] = [stage |-> "flush", writes |-> writes]]
      /\ lock' = [m \in Models |-> IF m \in Others(h) /\ lock[m] = NoHandler THEN h ELSE lock[m]]
      /\ UNCHANGED <<status, alone, scores, redis, check, history>>
  BY DEF RetireOthers, TypeOK, Request
<1>2. writes \in [Models -> Statuses \cup {"keep"}]
  BY <1>1 DEF Request, Statuses
<1>3. req' \in [Handlers -> Request]
  BY <1>1, <1>2 DEF Request, Stages
<1>4. lock' \in [Models -> Handlers \cup {NoHandler}]
  BY <1>1 DEF TypeOK
<1>5. ASSUME NEW m \in Models, lock'[m] # NoHandler
      PROVE  req'[lock'[m]].stage = "flush" /\ req'[lock'[m]].writes[m] = "RETIRED"
  <2>1. CASE m \in Others(h) /\ lock[m] = NoHandler
    BY <1>1, <2>1
  <2>2. CASE ~(m \in Others(h) /\ lock[m] = NoHandler)
    BY <1>1, <1>5, <2>2 DEF TypeOK
  <2> QED
    BY <2>1, <2>2
<1> QED
  BY <1>1, <1>3, <1>4, <1>5 DEF TypeOK, Request, scores, redis, history

LEMMA CloseHourTypes ==
  ASSUME TypeOK, CloseHour
  PROVE  /\ window' = "none" /\ exposed' \in 0..MaxExposed
         /\ exposed = 0 /\ window # "drifted" => exposed' = 0
         /\ exposed = 0 => exposed' \in {0, 1}
<1>1. exposed \in 0..MaxExposed /\ MaxExposed \in Nat
  BY ModelOpsAssumption DEF TypeOK
<1>2. CASE window = "clean"
  <2>1. exposed' = 0
    BY <1>2, Zenon DEF CloseHour
  <2> QED
    BY <1>1, <2>1 DEF CloseHour
<1>3. CASE window = "drifted" /\ exposed < MaxExposed
  <2>1. exposed' = exposed + 1
    BY <1>3, Zenon DEF CloseHour
  <2> QED
    BY <1>1, <1>3, <2>1 DEF CloseHour
<1>4. CASE window # "clean" /\ ~(window = "drifted" /\ exposed < MaxExposed)
  <2>1. exposed' = exposed
    BY <1>4, Zenon DEF CloseHour
  <2> QED
    BY <1>1, <1>4, <2>1 DEF CloseHour
<1> QED
  BY <1>2, <1>3, <1>4

(* The exposure grows only with an hour whose check is about to switch on,  *)
(* or was missed.                                                           *)
ExposureInv == missed \/ exposed = 0 \/ (exposed = 1 /\ check = "activate")

LEMMA CheckSteps ==
  ASSUME TypeOK, ExposureInv,
         BeginCheck \/ NoCheck \/ CheckFails \/ Measure \/ Activate
  PROVE  TypeOK' /\ ExposureInv'
<1> USE DEF registry, scores, redis, history
<1>1. CASE BeginCheck
  <2>1. /\ check = "hour" /\ check' = "scores" /\ aged' = (switch = "ACTIVE")
        /\ UNCHANGED <<registry, scores, switch, history>>
    BY <1>1 DEF BeginCheck, HourIsOver
  <2>2. aged' \in BOOLEAN
    BY ONLY <2>1
  <2> QED
    BY <2>1, <2>2 DEF TypeOK, ExposureInv
<1>2. CASE NoCheck
  <2>1. /\ CloseHour /\ UNCHANGED <<registry, drifted, switch, check>>
        /\ missed' = (missed \/ Served \in CheckedVersions \/ status[Served] = "absent")
        /\ aged' = (switch = "ACTIVE")
    BY <1>2 DEF NoCheck, HourIsOver
  <2>2. Served \in CheckedVersions \/ status[Served] = "absent"
    BY ModelOpsAssumption DEF CheckedVersions
  <2>3. missed' = TRUE /\ aged' \in BOOLEAN
    BY ONLY <2>1, <2>2
  <2> QED
    BY <2>1, <2>3, CloseHourTypes DEF TypeOK, ExposureInv
<1>3. CASE CheckFails
  BY <1>3, CloseHourTypes DEF CheckFails, TypeOK, ExposureInv
<1>4. CASE Measure
  BY <1>4, CloseHourTypes DEF Measure, TypeOK, ExposureInv
<1>5. CASE Activate
  <2>1. check' = "hour" /\ UNCHANGED <<registry, scores>>
        /\ \/ switch' = "ACTIVE" /\ aged' = FALSE /\ exposed' = 0 /\ missed' = FALSE
           \/ UNCHANGED <<redis, exposed>> /\ missed' = TRUE
    BY <1>5 DEF Activate, SwitchOn
  <2>2. exposed' \in 0..MaxExposed
    BY <2>1, ModelOpsAssumption DEF TypeOK
  <2> QED
    BY <2>1, <2>2 DEF TypeOK, ExposureInv
<1> QED
  BY <1>1, <1>2, <1>3, <1>4, <1>5

(* Requests of the registry leave the hour alone, and the others its rows.  *)
LEMMA RegistrySteps ==
  ASSUME TypeOK,
         \/ \E m \in Models : RegisterModel(m)
         \/ \E h \in Handlers :
              \/ RetireOthers(h) \/ Commit(h) \/ Abort(h)
              \/ \E m \in Models :
                   \/ CanaryModel(h, m) \/ PromoteModel(h, m) \/ RetireModel(h, m)
                   \/ \E target \in Models : RollbackModel(h, m, target)
  PROVE  TypeOK' /\ UNCHANGED <<scores, redis, check, history>>
<1> USE DEF scores, redis, history
<1>1. ASSUME NEW m \in Models, RegisterModel(m)
      PROVE  TypeOK' /\ UNCHANGED <<scores, redis, check, history>>
  BY <1>1 DEF RegisterModel, TypeOK, Statuses
<1>2. ASSUME NEW h \in Handlers, RetireOthers(h)
      PROVE  TypeOK' /\ UNCHANGED <<scores, redis, check, history>>
  BY <1>2, RetireOthersTypes DEF RetireOthers
<1>3. ASSUME NEW h \in Handlers, Commit(h) \/ Abort(h)
      PROVE  TypeOK' /\ UNCHANGED <<scores, redis, check, history>>
  <2>1. End(h) /\ alone' \subseteq Handlers /\ UNCHANGED <<scores, redis, check, history>>
    BY <1>3 DEF Commit, Abort, TypeOK
  <2>2. status' \in [Models -> Statuses]
    BY <1>3 DEF Commit, Abort, TypeOK
  <2> QED
    BY <2>1, <2>2, EndTypes DEF TypeOK, Request
<1>4. ASSUME NEW h \in Handlers, NEW m \in Models,
             \/ CanaryModel(h, m) \/ PromoteModel(h, m) \/ RetireModel(h, m)
             \/ \E target \in Models : RollbackModel(h, m, target)
      PROVE  TypeOK' /\ UNCHANGED <<scores, redis, check, history>>
  <2>1. PICK stage \in Stages, writes \in [Models -> Statuses \cup {"keep"}] :
          Load(h, stage, writes)
    <3>1. Keep \in [Models -> Statuses \cup {"keep"}]
      BY DEF Keep
    <3>2. \A k \in Models : Retired(k) \in Statuses \cup {"keep"}
      BY DEF Retired, Statuses
    <3> QED
      BY <1>4, <3>1, <3>2
         DEF CanaryModel, PromoteModel, RetireModel, RollbackModel, Stages, Statuses
  <2> QED
    BY <2>1, LoadTypes DEF Load
<1> QED
  BY <1>1, <1>2, <1>3, <1>4

LEMMA ModelOpsStep == TypeOK /\ ExposureInv /\ [Next]_vars => TypeOK' /\ ExposureInv'
<1> SUFFICES ASSUME TypeOK, ExposureInv, [Next]_vars PROVE TypeOK' /\ ExposureInv'
  OBVIOUS
<1> USE DEF registry, scores, redis, history
<1>1. CASE BeginCheck \/ NoCheck \/ CheckFails \/ Measure \/ Activate
  BY <1>1, CheckSteps
<1>2. CASE Score
  <2>1. window' \in {"clean", "drifted", "mixed"}
    BY <1>2, Zenon DEF Score
  <2> QED
    BY <1>2, <2>1 DEF Score, TypeOK, ExposureInv
<1>3. CASE Drift
  BY <1>3 DEF Drift, TypeOK, ExposureInv
<1>4. CASE Expire \/ \E to \in {"ACTIVE", "COOLDOWN"} : Operate(to)
  BY <1>4 DEF Expire, Operate, TypeOK, ExposureInv
<1>5. CASE UNCHANGED vars
  BY <1>5 DEF vars, TypeOK, ExposureInv
<1>6. ASSUME TypeOK', UNCHANGED <<scores, redis, check, history>> PROVE TypeOK' /\ ExposureInv'
  BY <1>6 DEF ExposureInv
<1> QED
  BY <1>1, <1>2, <1>3, <1>4, <1>5, <1>6, RegistrySteps DEF Next

(* Types, and a row lock is held by a handler about to retire that row.     *)
THEOREM ModelOpsTypeCorrect == Spec => []TypeOK
<1>1. Init => ExposureInv
  BY DEF Init, ExposureInv
<1> QED
  BY <1>1, ModelOpsInit, ModelOpsStep, PTL DEF Spec

(* Without a failed check, a registered served version is never exposed to  *)
(* a second hour of drifted scores, for any number of requests and versions.*)
THEOREM ExposureStaysBounded == Spec => []ExposureIsBounded
<1>1. Init => ExposureInv
  BY DEF Init, ExposureInv
<1>2. ExposureInv => ExposureIsBounded
  BY DEF ExposureInv, ExposureIsBounded
<1> QED
  BY <1>1, <1>2, ModelOpsInit, ModelOpsStep, PTL DEF Spec

(* A promotion nobody else committed beside: it was loaded with one version *)
(* to activate, and at its end retires whichever else is ACTIVE.            *)
Promoting(h, m) == req[h].writes = [Keep EXCEPT ![m] = "ACTIVE"]
Promoted(h, m) ==
  /\ req[h].writes[m] = "ACTIVE"
  /\ \A k \in Models \ {m} :
       /\ req[h].writes[k] \in {"keep", "RETIRED"}
       /\ status[k] = "ACTIVE" => req[h].writes[k] = "RETIRED"

PromotionInv ==
  \A h \in alone :
    /\ req[h].stage = "retiring" => \E m \in Models : Promoting(h, m)
    /\ req[h].stage = "flush" => \E m \in Models : Promoted(h, m)

LEMMA LoadPromotes ==
  ASSUME TypeOK, PromotionInv, NEW h \in Handlers, NEW stage \in Stages,
         NEW writes \in [Models -> Statuses \cup {"keep"}], Load(h, stage, writes),
         stage # "flush",
         stage = "retiring" => \E m \in Models : writes = [Keep EXCEPT ![m] = "ACTIVE"]
  PROVE  PromotionInv'
<1>1. /\ req \in [Handlers -> Request] /\ alone \subseteq Handlers
      /\ req' = [req EXCEPT ![h] = [stage |-> stage, writes |-> writes]]
      /\ alone' = alone \cup {h} /\ status' = status
  BY DEF Load, TypeOK, Request
<1>2. req'[h].stage = stage /\ req'[h].writes = writes
  BY <1>1
<1>3. \A k \in alone \ {h} : req'[k] = req[k]
  BY <1>1
<1> SUFFICES ASSUME NEW k \in alone'
             PROVE  /\ req'[k].stage = "retiring" => \E m \in Models : Promoting(k, m)'
                    /\ req'[k].stage = "flush" => \E m \in Models : Promoted(k, m)'
  BY DEF PromotionInv
<1>4. CASE k = h
  <2>1. ASSUME stage = "retiring" PROVE \E m \in Models : Promoting(h, m)'
    <3>1. PICK m \in Models : writes = [Keep EXCEPT ![m] = "ACTIVE"]
      BY <2>1
    <3>2. Promoting(h, m)'
      BY <1>2, <3>1 DEF Promoting, Keep
    <3> QED
      BY <3>2
  <2> QED
    BY <1>2, <1>4, <2>1
<1>5. CASE k # h
  <2>1. k \in alone /\ req'[k] = req[k] /\ status' = status
    BY <1>1, <1>3, <1>5
  <2>2. /\ req[k].stage = "retiring" => \E m \in Models : Promoting(k, m)
        /\ req[k].stage = "flush" => \E m \in Models : Promoted(k, m)
    BY <2>1 DEF PromotionInv
  <2>3. \A m \in Models : (Promoting(k, m) => Promoting(k, m)') /\ (Promoted(k, m) => Promoted(k, m)')
    BY <2>1 DEF Promoting, Promoted
  <2> QED
    BY <2>1, <2>2, <2>3
<1> QED
  BY <1>4, <1>5

LEMMA RetireOthersPromotes ==
  ASSUME TypeOK, PromotionInv, NEW h \in Handlers, RetireOthers(h)
  PROVE  PromotionInv'
<1> DEFINE plan == [m \in Models |-> IF m \in Others(h) THEN "RETIRED" ELSE req[h].writes[m]]
<1>1. /\ req[h].stage = "retiring" /\ req \in [Handlers -> Request] /\ alone \subseteq Handlers
      /\ req' = [req EXCEPT ![h] = [stage |-> "flush", writes |-> plan]]
      /\ alone' = alone /\ status' = status
  BY DEF RetireOthers, TypeOK, Request
<1>2. req'[h].stage = "flush" /\ req'[h].writes = plan /\ status' = status
  BY <1>1
<1>3. \A k \in alone \ {h} : req'[k] = req[k]
  BY <1>1
<1> HIDE DEF plan
<1> SUFFICES ASSUME NEW k \in alone
             PROVE  /\ req'[k].stage = "retiring" => \E m \in Models : Promoting(k, m)'
                    /\ req'[k].stage = "flush" => \E m \in Models : Promoted(k, m)'
  BY <1>1 DEF PromotionInv
<1>4. CASE k = h
  <2>1. PICK m \in Models : req[h].writes = [Keep EXCEPT ![m] = "ACTIVE"]
    BY <1>1, <1>4 DEF PromotionInv, Promoting
  <2>2. req[h].writes[m] = "ACTIVE" /\ \A j \in Models \ {m} : req[h].writes[j] = "keep"
    BY <2>1 DEF Keep
  <2>3. plan[m] = "ACTIVE"
    BY <2>2 DEF plan, Others
  <2>4. \A j \in Models \ {m} : /\ plan[j] \in {"keep", "RETIRED"}
                                /\ status[j] = "ACTIVE" => plan[j] = "RETIRED"
    BY <2>2 DEF plan, Others
  <2>5. /\ req'[h].writes[m] = "ACTIVE"
        /\ \A j \in Models \ {m} : /\ req'[h].writes[j] \in {"keep", "RETIRED"}
                                   /\ status'[j] = "ACTIVE" => req'[h].writes[j] = "RETIRED"
    BY <1>2, <2>3, <2>4
  <2>6. Promoted(h, m)'
    BY <2>5 DEF Promoted
  <2> QED
    BY <1>2, <1>4, <2>6
<1>5. CASE k # h
  BY <1>1, <1>3, <1>5 DEF PromotionInv, Promoting, Promoted
<1> QED
  BY <1>4, <1>5

(* Every commit empties alone, so no status changes under a lone promotion. *)
LEMMA PromotionStep == TypeOK /\ PromotionInv /\ [Next]_vars => PromotionInv'
<1> SUFFICES ASSUME TypeOK, PromotionInv, [Next]_vars PROVE PromotionInv'
  OBVIOUS
<1> USE DEF registry, history, scores, redis
<1>1. ASSUME NEW m \in Models, RegisterModel(m) PROVE PromotionInv'
  <2>1. /\ UNCHANGED <<req, alone>>
        /\ \A k \in Models : status'[k] = "ACTIVE" => status[k] = "ACTIVE"
    BY <1>1 DEF RegisterModel, TypeOK
  <2> QED
    BY <2>1 DEF PromotionInv, Promoting, Promoted
<1>2. ASSUME NEW h \in Handlers, RetireOthers(h) PROVE PromotionInv'
  BY <1>2, RetireOthersPromotes
<1>3. ASSUME NEW h \in Handlers, Commit(h) PROVE PromotionInv'
  BY <1>3 DEF Commit, PromotionInv
<1>4. ASSUME NEW h \in Handlers, Abort(h) PROVE PromotionInv'
  <2>1. alone' = alone \ {h} /\ status' = status /\ \A k \in alone \ {h} : req'[k] = req[k]
    BY <1>4 DEF Abort, End, TypeOK
  <2> QED
    BY <2>1 DEF PromotionInv, Promoting, Promoted
<1>5. ASSUME NEW h \in Handlers, NEW m \in Models,
             \/ CanaryModel(h, m) \/ PromoteModel(h, m) \/ RetireModel(h, m)
             \/ \E target \in Models : RollbackModel(h, m, target)
      PROVE  PromotionInv'
  <2>1. PICK stage \in Stages, writes \in [Models -> Statuses \cup {"keep"}] :
          /\ Load(h, stage, writes) /\ stage # "flush"
          /\ stage = "retiring" => \E k \in Models : writes = [Keep EXCEPT ![k] = "ACTIVE"]
    <3>1. Keep \in [Models -> Statuses \cup {"keep"}]
      BY DEF Keep
    <3>2. \A k \in Models : Retired(k) \in Statuses \cup {"keep"}
      BY DEF Retired, Statuses
    <3> QED
      BY <1>5, <3>1, <3>2
         DEF CanaryModel, PromoteModel, RetireModel, RollbackModel, Stages, Statuses
  <2> QED
    BY <2>1, LoadPromotes
<1>6. CASE UNCHANGED registry
  BY <1>6 DEF PromotionInv, Promoting, Promoted
<1> QED
  BY <1>1, <1>2, <1>3, <1>4, <1>5, <1>6
     DEF Next, Score, Drift, Expire, Operate, BeginCheck, NoCheck, CheckFails, Measure, Activate,
         vars

(* However promotions, rollbacks and retirements overlap, a promotion that  *)
(* no commit came between leaves its model as the only ACTIVE one.          *)
THEOREM PromotedAlone == Spec => PromotionLeavesOne
<1>1. Init => PromotionInv
  BY DEF Init, PromotionInv
<1>2. TypeOK /\ PromotionInv /\ [Next]_vars =>
        [\A h \in Handlers :
           req[h].stage = "flush" /\ h \in alone /\ status' # status
             /\ req'[h].stage = "idle" =>
           Cardinality({m \in Models : status'[m] = "ACTIVE"}) = 1]_registry
  <2> SUFFICES ASSUME TypeOK, PromotionInv, [Next]_vars, NEW h \in Handlers,
                      req[h].stage = "flush", h \in alone, status' # status,
                      req'[h].stage = "idle"
               PROVE  Cardinality({m \in Models : status'[m] = "ACTIVE"}) = 1
    OBVIOUS
  <2>1. Commit(h)
    <3>1. ASSUME NEW k \in Handlers, Commit(k) PROVE k = h
      BY <3>1 DEF Commit, End, TypeOK
    <3>2. req' # req /\ status' # status
      OBVIOUS
    <3> QED
      BY <3>1, <3>2
         DEF Next, RegisterModel, RetireOthers, Abort, CanaryModel, PromoteModel, RetireModel,
             RollbackModel, Load, Score, Drift, Expire, Operate, BeginCheck, NoCheck, CheckFails,
             Measure, Activate, vars, registry
  <2>2. PICK m \in Models : Promoted(h, m)
    BY DEF PromotionInv
  <2>3. /\ status'[m] = "ACTIVE"
        /\ \A k \in Models \ {m} : status'[k] # "ACTIVE"
    BY <2>1, <2>2 DEF Commit, Promoted
  <2>4. {k \in Models : status'[k] = "ACTIVE"} = {m}
    BY <2>3
  <2> QED
    BY <2>4, FS_Singleton
<1> QED
  BY <1>1, <1>2, PromotionStep, ModelOpsTypeCorrect, PTL DEF Spec, PromotionLeavesOne

-----------------------------------------------------------------------------
(* The service: numbers.                                                    *)

(* Every set of numbers has a least one, and induction over the numbers.    *)
LEMMA LeastOf ==
  ASSUME NEW S \in SUBSET Nat, S # {}
  PROVE  \E n \in S : \A k \in S : n <= k
<1> DEFINE R == {ss \in Nat \X Nat : ss[1] < ss[2]}
<1>1. IsWellFoundedOn(R, Nat)
  BY NatLessThanWellFounded, Zenon DEF OpToRel
<1> HIDE DEF R
<1>2. \E x \in S : \A y \in S : ~ (<<y, x>> \in R)
  BY <1>1, WFMin
<1>3. \A x, y \in S : y < x => <<y, x>> \in R
  BY DEF R
<1>4. PICK x \in S : \A y \in S : ~ (<<y, x>> \in R)
  BY <1>2
<1>5. \A y \in S : ~ (y < x)
  BY <1>3, <1>4, Zenon
<1>6. \A y \in S : x \in Nat /\ y \in Nat
  OBVIOUS
<1>7. \A y \in S : x <= y
  BY <1>5, <1>6
<1> QED
  BY <1>7

LEMMA Induction ==
  ASSUME NEW S \in SUBSET Nat, 0 \in S, \A n \in S : n + 1 \in S
  PROVE  S = Nat
<1> SUFFICES ASSUME Nat \ S # {} PROVE FALSE
  OBVIOUS
<1>1. PICK n \in Nat \ S : \A k \in Nat \ S : n <= k
  BY LeastOf
<1>2. n # 0 /\ n - 1 \in Nat /\ n - 1 \notin Nat \ S
  BY <1>1
<1> QED
  BY <1>2

(* The sums that Mean forms are sums, and no more than their largest term    *)
(* allows.                                                                  *)
SumOf(f, i, s) == IF i = 0 THEN 0 ELSE f[i - 1] + s[i]

SumsUpTo(k, s) ==
  \E f \in [0..k -> Nat] : \A i \in 0..k : f[i] = SumOf(f, i, s) /\ f[i] <= i * Top

(* The recursive sums of Mean are defined: by induction on their length.    *)
LEMMA SumsExist ==
  ASSUME NEW n \in Nat, NEW s \in [1..n -> 0..Top], Top \in Nat
  PROVE  SumsUpTo(n, s)
<1> DEFINE S == {k \in Nat : k <= n => SumsUpTo(k, s)}
<1>1. SumsUpTo(0, s)
  <2> DEFINE g == [i \in 0..0 |-> 0]
  <2>1. g \in [0..0 -> Nat] /\ \A i \in 0..0 : g[i] = SumOf(g, i, s) /\ g[i] <= i * Top
    BY DEF SumOf
  <2> QED
    BY <2>1 DEF SumsUpTo
<1>2. ASSUME NEW k \in Nat, k + 1 <= n, SumsUpTo(k, s) PROVE SumsUpTo(k + 1, s)
  <2>1. PICK f \in [0..k -> Nat] : \A i \in 0..k : f[i] = SumOf(f, i, s) /\ f[i] <= i * Top
    BY <1>2 DEF SumsUpTo
  <2> DEFINE g == [i \in 0..(k + 1) |-> IF i = k + 1 THEN f[k] + s[i] ELSE f[i]]
  <2>2. f[k] \in Nat /\ s[k + 1] \in Nat /\ s[k + 1] <= Top
    BY <1>2
  <2>3. g \in [0..(k + 1) -> Nat]
    BY <2>2
  <2>4. ASSUME NEW i \in 0..k PROVE g[i] = SumOf(g, i, s) /\ g[i] <= i * Top
    <3>1. g[i] = f[i] /\ (i # 0 => g[i - 1] = f[i - 1])
      BY <1>2
    <3> QED
      BY <2>1, <3>1 DEF SumOf
  <2>5. g[k + 1] = SumOf(g, k + 1, s) /\ g[k + 1] = f[k] + s[k + 1]
    BY <1>2 DEF SumOf
  <2>6. g[k + 1] <= (k + 1) * Top
    <3>1. f[k] <= k * Top
      BY <1>2, <2>1
    <3>2. (k + 1) * Top = k * Top + Top /\ k * Top \in Nat
      BY <1>2
    <3> QED
      BY <2>2, <2>5, <3>1, <3>2
  <2> HIDE DEF g
  <2>7. ASSUME NEW i \in 0..(k + 1) PROVE g[i] = SumOf(g, i, s) /\ g[i] <= i * Top
    <3>1. i = k + 1 \/ i \in 0..k
      BY <1>2
    <3> QED
      BY <2>4, <2>5, <2>6, <3>1
  <2> QED
    BY <2>3, <2>7 DEF SumsUpTo
<1>3. 0 \in S /\ S \in SUBSET Nat
  BY <1>1
<1>4. ASSUME NEW k \in S PROVE k + 1 \in S
  BY <1>2
<1> HIDE DEF S
<1>5. S = Nat
  BY <1>3, <1>4, Induction
<1> QED
  BY <1>5 DEF S

(* A mean of scores is a score.                                             *)
LEMMA MeanIsScore ==
  ASSUME NEW s \in Seq(0..Top), s # << >>, Top \in Nat
  PROVE  Mean(s) \in 0..Top
<1> DEFINE sum == CHOOSE f : f = [i \in 0..Len(s) |-> IF i = 0 THEN 0 ELSE f[i - 1] + s[i]]
<1>1. Len(s) \in Nat /\ Len(s) > 0 /\ s \in [1..Len(s) -> 0..Top]
  BY EmptySeq, LenProperties
<1>2. PICK f \in [0..Len(s) -> Nat] :
        \A i \in 0..Len(s) : f[i] = SumOf(f, i, s) /\ f[i] <= i * Top
  BY <1>1, SumsExist DEF SumsUpTo
<1>3. f = [i \in 0..Len(s) |-> IF i = 0 THEN 0 ELSE f[i - 1] + s[i]]
  BY <1>2 DEF SumOf
<1>4. sum = [i \in 0..Len(s) |-> IF i = 0 THEN 0 ELSE sum[i - 1] + s[i]]
  BY <1>3
<1> HIDE DEF sum
<1>5. \A i \in 0..Len(s) : sum[i] = f[i]
  <2> DEFINE S == {i \in Nat : i <= Len(s) => sum[i] = f[i]}
  <2>1. 0 \in S
    BY <1>1, <1>3, <1>4
  <2>2. ASSUME NEW i \in S PROVE i + 1 \in S
    <3>0. i \in Nat /\ (i <= Len(s) => sum[i] = f[i])
      OBVIOUS
    <3> SUFFICES ASSUME i + 1 <= Len(s) PROVE sum[i + 1] = f[i + 1]
      OBVIOUS
    <3>1. i + 1 \in 0..Len(s) /\ i + 1 # 0 /\ (i + 1) - 1 = i
      BY <1>1, <3>0
    <3>2. sum[i + 1] = sum[(i + 1) - 1] + s[i + 1]
      BY <1>4, <3>1
    <3>3. f[i + 1] = f[(i + 1) - 1] + s[i + 1]
      BY <1>3, <3>1
    <3> QED
      BY <1>1, <3>0, <3>1, <3>2, <3>3
  <2>3. S = Nat
    <3> HIDE DEF S
    <3>1. S \in SUBSET Nat
      BY DEF S
    <3> QED
      BY <2>1, <2>2, <3>1, Induction
  <2> QED
    BY <1>1, <2>3
<1>6. sum[Len(s)] \in Nat /\ sum[Len(s)] <= Len(s) * Top
  BY <1>1, <1>2, <1>5
<1>7. Mean(s) = sum[Len(s)] \div Len(s)
  BY DEF Mean, sum
<1>8. ASSUME NEW a \in Nat, NEW n \in Nat, n > 0, a <= n * Top
      PROVE  a \div n \in 0..Top
  <2>1. a \div n \in Nat /\ n * (a \div n) <= a
    BY <1>8
  <2>2. ASSUME a \div n > Top PROVE FALSE
    <3>1. a \div n >= Top + 1 /\ n * (a \div n) >= n * (Top + 1)
      BY <2>1, <2>2, <1>8
    <3>2. n * (Top + 1) = n * Top + n /\ n * Top \in Nat
      BY <1>8
    <3> QED
      BY <1>8, <2>1, <3>1, <3>2
  <2> QED
    BY <2>1, <2>2
<1> QED
  BY <1>1, <1>6, <1>7, <1>8

-----------------------------------------------------------------------------
(* Ends of sequences.                                                       *)

(* t is the end of s.                                                       *)
Ends(s, t) ==
  /\ Len(t) <= Len(s)
  /\ \A i \in 1..Len(t) : t[i] = s[Len(s) - Len(t) + i]

(* Newest and Oldest cut an end and a beginning of the length asked for.    *)
LEMMA NewestIs ==
  ASSUME NEW S, NEW s \in Seq(S), NEW n \in Nat
  PROVE  /\ Newest(s, n) \in Seq(S)
         /\ Len(Newest(s, n)) = Lesser(n, Len(s))
         /\ Ends(s, Newest(s, n))
<1> DEFINE k == Lesser(n, Len(s))
<1>1. Len(s) \in Nat /\ k \in Nat /\ k <= Len(s) /\ k <= n
  BY DEF Lesser
<1>2. Newest(s, n) = SubSeq(s, Len(s) - k + 1, Len(s))
  BY DEF Newest
<1> HIDE DEF k
<1>3. Len(s) - k + 1 \in 1..(Len(s) + 1) /\ \A i \in (Len(s) - k + 1)..Len(s) : s[i] \in S
  BY <1>1
<1>4. /\ SubSeq(s, Len(s) - k + 1, Len(s)) \in Seq(S)
      /\ Len(SubSeq(s, Len(s) - k + 1, Len(s))) = k
      /\ \A i \in 1..k : SubSeq(s, Len(s) - k + 1, Len(s))[i] = s[Len(s) - k + i]
  BY <1>1, <1>3, SubSeqProperties
<1> QED
  BY <1>1, <1>2, <1>4 DEF Ends, k

LEMMA OldestIs ==
  ASSUME NEW S, NEW s \in Seq(S), NEW n \in Nat
  PROVE  /\ Oldest(s, n) \in Seq(S)
         /\ Len(Oldest(s, n)) = Lesser(n, Len(s))
<1> DEFINE k == Lesser(n, Len(s))
<1>1. Len(s) \in Nat /\ k \in Nat /\ k <= Len(s)
  BY DEF Lesser
<1>2. Oldest(s, n) = SubSeq(s, 1, k)
  BY DEF Oldest
<1> HIDE DEF k
<1>3. SubSeq(s, 1, k) \in Seq(S) /\ Len(SubSeq(s, 1, k)) = k
  BY <1>1, SubSeqProperties
<1> QED
  BY <1>2, <1>3 DEF k

(* An end of s is determined by its length; an end of an end is an end; and *)
(* so it stays when both grow by the same element.                          *)
LEMMA EndIsNewest ==
  ASSUME NEW S, NEW s \in Seq(S), NEW t \in Seq(S), Ends(s, t)
  PROVE  t = Newest(s, Len(t))
<1>1. Len(s) \in Nat /\ Len(t) \in Nat /\ Lesser(Len(t), Len(s)) = Len(t)
  BY DEF Ends, Lesser
<1> DEFINE u == Newest(s, Len(t))
<1>2. u \in Seq(S) /\ Len(u) = Len(t) /\ Ends(s, u)
  BY <1>1, NewestIs
<1> HIDE DEF u
<1>3. \A i \in 1..Len(t) : t[i] = u[i]
  BY <1>2 DEF Ends
<1>4. t = u
  BY <1>2, <1>3, SeqEqual
<1> QED
  BY <1>4 DEF u

LEMMA EndsTransitive ==
  ASSUME NEW S, NEW s \in Seq(S), NEW t \in Seq(S), NEW u \in Seq(S), Ends(s, t), Ends(t, u)
  PROVE  Ends(s, u)
<1>1. Len(s) \in Nat /\ Len(t) \in Nat /\ Len(u) \in Nat /\ Len(t) <= Len(s) /\ Len(u) <= Len(t)
  BY DEF Ends
<1>2. ASSUME NEW i \in 1..Len(u) PROVE u[i] = s[Len(s) - Len(u) + i]
  <2> DEFINE j == Len(t) - Len(u) + i
  <2>1. j \in 1..Len(t) /\ Len(s) - Len(t) + j = Len(s) - Len(u) + i
    BY <1>1
  <2>2. u[i] = t[j]
    BY DEF Ends
  <2> HIDE DEF j
  <2>3. t[j] = s[Len(s) - Len(t) + j]
    BY <2>1 DEF Ends
  <2> QED
    BY <2>1, <2>2, <2>3
<1> QED
  BY <1>1, <1>2 DEF Ends

LEMMA EndsAppend ==
  ASSUME NEW S, NEW s \in Seq(S), NEW t \in Seq(S), NEW x \in S, Ends(s, t)
  PROVE  Ends(Append(s, x), Append(t, x))
<1> DEFINE v == Append(s, x)
           w == Append(t, x)
<1>1. /\ Len(s) \in Nat /\ Len(t) \in Nat
      /\ Len(v) = Len(s) + 1 /\ Len(w) = Len(t) + 1
      /\ \A i \in 1..Len(s) : v[i] = s[i]
      /\ \A i \in 1..Len(t) : w[i] = t[i]
      /\ v[Len(s) + 1] = x /\ w[Len(t) + 1] = x
  BY AppendProperties
<1> HIDE DEF v, w
<1>2. Len(t) <= Len(s) /\ \A i \in 1..Len(t) : t[i] = s[Len(s) - Len(t) + i]
  BY DEF Ends
<1>3. ASSUME NEW i \in 1..(Len(t) + 1)
      PROVE  w[i] = v[(Len(s) + 1) - (Len(t) + 1) + i]
  <2> DEFINE j == Len(s) - Len(t) + i
  <2>0. Len(t) <= Len(s) /\ i \in Nat /\ 1 <= i /\ i <= Len(t) + 1
    BY <1>1, <1>2
  <2>1. /\ j = (Len(s) + 1) - (Len(t) + 1) + i
        /\ i = Len(t) + 1 => j = Len(s) + 1
        /\ i # Len(t) + 1 => i \in 1..Len(t) /\ j \in 1..Len(s)
    BY <1>1, <2>0
  <2> HIDE DEF j
  <2>2. CASE i = Len(t) + 1
    BY <1>1, <2>1, <2>2
  <2>3. CASE i # Len(t) + 1
    <3>1. t[i] = s[j]
      BY <1>2, <2>1, <2>3 DEF j
    <3> QED
      BY <1>1, <2>1, <2>3, <3>1
  <2> QED
    BY <2>2, <2>3
<1>4. Ends(v, w)
  BY <1>1, <1>2, <1>3 DEF Ends
<1> QED
  BY <1>4 DEF v, w

-----------------------------------------------------------------------------
(* Ages, oldest first.                                                      *)
Ages == 0..(Horizon + 1)
Sorted(s) == \A i, j \in 1..Len(s) : i <= j => s[j] <= s[i]

(* The number of live ages at the end of s.                                 *)
LivesAt(s, n) ==
  n \in 0..Len(s) /\ \A i \in 1..Len(s) : s[i] <= Horizon <=> i > Len(s) - n

LEMMA AgesAre == /\ Horizon \in Nat
                 /\ Cap \in Nat
                 /\ 0 \in Ages
                 /\ \A a \in Ages : a \in Nat
  BY ServingAssumption DEF Ages

(* What Live keeps of sorted ages is their live end, and its length is the  *)
(* only number that LivesAt accepts.                                        *)
LEMMA LiveIs ==
  ASSUME NEW s \in Seq(Ages), Sorted(s)
  PROVE  /\ Live(s) \in Seq(Ages)
         /\ Ends(s, Live(s))
         /\ LivesAt(s, Len(Live(s)))
<1> DEFINE live == {i \in DOMAIN s : s[i] <= Horizon}
           first == CHOOSE i \in live : \A j \in live : i <= j
<1>1. Len(s) \in Nat /\ DOMAIN s = 1..Len(s) /\ s \in [1..Len(s) -> Ages]
  BY LenProperties
<1>2. CASE live = {}
  <2>1. Live(s) = << >>
    BY <1>2 DEF Live
  <2>2. << >> \in Seq(Ages) /\ Len(<< >>) = 0
    BY EmptySeq
  <2> QED
    BY <1>1, <1>2, <2>1, <2>2 DEF Ends, LivesAt
<1>3. CASE live # {}
  <2>1. Live(s) = SubSeq(s, first, Len(s))
    BY <1>3 DEF Live
  <2>2. live \in SUBSET Nat
    BY <1>1
  <2>3. first \in live /\ \A j \in live : first <= j
    <3>1. \E i \in live : \A j \in live : i <= j
      <4> HIDE DEF live
      <4> QED
        BY <1>3, <2>2, LeastOf
    <3> QED
      BY <3>1
  <2>4. first \in 1..Len(s) /\ s[first] <= Horizon
    BY <1>1, <2>3
  <2>5. ASSUME NEW i \in 1..Len(s) PROVE s[i] <= Horizon <=> i >= first
    <3>1. CASE s[i] <= Horizon
      BY <1>1, <2>3, <3>1
    <3>2. CASE i >= first
      <4>1. s[i] \in Nat /\ s[first] \in Nat /\ Horizon \in Nat
        BY <1>1, <2>4, AgesAre
      <4>2. s[i] <= s[first]
        <5> HIDE DEF first, live
        <5> QED
          BY <2>4, <3>2 DEF Sorted
      <4> QED
        BY <2>4, <3>2, <4>1, <4>2
    <3> QED
      BY <3>1, <3>2
  <2> HIDE DEF live, first
  <2>6. /\ SubSeq(s, first, Len(s)) \in Seq(Ages)
        /\ Len(SubSeq(s, first, Len(s))) = Len(s) - first + 1
        /\ \A i \in 1..(Len(s) - first + 1) : SubSeq(s, first, Len(s))[i] = s[first + i - 1]
    BY <1>1, <2>4, SubSeqProperties
  <2>7. Ends(s, Live(s))
    BY <1>1, <2>1, <2>4, <2>6 DEF Ends
  <2>8. LivesAt(s, Len(Live(s)))
    BY <1>1, <2>1, <2>4, <2>5, <2>6 DEF LivesAt
  <2> QED
    BY <2>1, <2>6, <2>7, <2>8
<1> QED
  BY <1>2, <1>3

LEMMA LivesAtOnce ==
  ASSUME NEW s \in Seq(Ages), NEW n, NEW k, LivesAt(s, n), LivesAt(s, k)
  PROVE  n = k
<1>1. Len(s) \in Nat /\ n \in 0..Len(s) /\ k \in 0..Len(s)
  BY DEF LivesAt
<1>2. CASE n > k
  <2>1. Len(s) - k \in 1..Len(s)
    BY <1>1, <1>2
  <2> QED
    BY <1>1, <1>2, <2>1 DEF LivesAt
<1>3. CASE k > n
  <2>1. Len(s) - n \in 1..Len(s)
    BY <1>1, <1>3
  <2> QED
    BY <1>1, <1>3, <2>1 DEF LivesAt
<1> QED
  BY <1>1, <1>2, <1>3

(* An end of sorted ages is sorted and holds the same live ages, as far as  *)
(* it reaches.                                                              *)
LEMMA EndsLive ==
  ASSUME NEW s \in Seq(Ages), NEW t \in Seq(Ages), Sorted(s), Ends(s, t)
  PROVE  Sorted(t) /\ Len(Live(t)) = Lesser(Len(t), Len(Live(s)))
<1>1. /\ Len(s) \in Nat /\ Len(t) \in Nat /\ Len(t) <= Len(s)
      /\ \A i \in 1..Len(t) : /\ t[i] = s[Len(s) - Len(t) + i]
                              /\ Len(s) - Len(t) + i \in 1..Len(s)
  BY DEF Ends
<1>2. Sorted(t)
  <2> SUFFICES ASSUME NEW i \in 1..Len(t), NEW j \in 1..Len(t), i <= j
               PROVE  t[j] <= t[i]
    BY DEF Sorted
  <2>1. Len(s) - Len(t) + i <= Len(s) - Len(t) + j
    BY <1>1
  <2> QED
    BY <1>1, <2>1 DEF Sorted
<1> DEFINE n == Len(Live(s))
           k == Lesser(Len(t), n)
<1>3. LivesAt(s, n)
  BY LiveIs
<1> HIDE DEF n
<1>4. n \in 0..Len(s) /\ k \in 0..Len(t)
  BY <1>1, <1>3 DEF LivesAt, Lesser
<1>5. ASSUME NEW i \in 1..Len(t) PROVE t[i] <= Horizon <=> i > Len(t) - k
  <2> DEFINE j == Len(s) - Len(t) + i
  <2>1. t[i] = s[j] /\ j \in 1..Len(s)
    BY <1>1
  <2>2. s[j] <= Horizon <=> j > Len(s) - n
    BY <1>3, <2>1 DEF LivesAt
  <2>3. j > Len(s) - n <=> i > Len(t) - k
    BY <1>1, <1>4 DEF Lesser
  <2> QED
    BY <2>1, <2>2, <2>3
<1>6. LivesAt(t, k)
  BY <1>4, <1>5 DEF LivesAt
<1>7. LivesAt(t, Len(Live(t)))
  BY <1>2, LiveIs
<1>8. Len(Live(t)) = k
  BY <1>6, <1>7, LivesAtOnce
<1> QED
  BY <1>2, <1>8 DEF n

(* t remembers the failures s, as far as the cap allows.                    *)
Remembers(t, s) ==
  /\ Sorted(s)
  /\ Ends(s, t)
  /\ Len(t) >= Lesser(Cap, Len(Live(s)))

(* Noting a failure, and a tick, keep the window in step with all failures. *)
LEMMA FailRemembers ==
  ASSUME NEW s \in Seq(Ages), NEW t \in Seq(Ages), Remembers(t, s)
  PROVE  Failed(t) \in Seq(Ages) /\ Remembers(Failed(t), Append(s, 0))
<1> DEFINE u == Append(Live(t), 0)
           v == Append(s, 0)
           n == Len(Live(s))
<1>1. Sorted(s) /\ Sorted(t) /\ Ends(s, t) /\ Len(Live(t)) = Lesser(Len(t), n)
  BY EndsLive DEF Remembers
<1>2. Live(t) \in Seq(Ages) /\ Ends(t, Live(t))
  BY <1>1, LiveIs
<1>3. Ends(s, Live(t))
  BY <1>1, <1>2, EndsTransitive
<1>4. u \in Seq(Ages) /\ Len(u) = Len(Live(t)) + 1 /\ v \in Seq(Ages) /\ Len(v) = Len(s) + 1
  BY <1>2, AgesAre, AppendProperties
<1>5. Ends(v, u)
  BY <1>2, <1>3, AgesAre, EndsAppend
<1>6. /\ Failed(t) \in Seq(Ages) /\ Len(Failed(t)) = Lesser(Cap, Len(u))
      /\ Ends(u, Failed(t))
  BY <1>4, AgesAre, NewestIs DEF Failed
<1>7. Ends(v, Failed(t))
  BY <1>4, <1>5, <1>6, EndsTransitive
<1>8. /\ Len(s) \in Nat /\ v[Len(s) + 1] = 0
      /\ \A i \in 1..Len(s) : v[i] = s[i] /\ s[i] \in Ages
  BY AgesAre, AppendProperties
<1> HIDE DEF u, v
<1>9. Sorted(v)
  <2> SUFFICES ASSUME NEW i \in 1..Len(v), NEW j \in 1..Len(v), i <= j
               PROVE  v[j] <= v[i]
    BY DEF Sorted
  <2>1. CASE j = Len(s) + 1
    <3>1. v[i] \in Nat
      BY <1>4, <1>8, AgesAre
    <3> QED
      BY <1>8, <2>1, <3>1
  <2>2. CASE j # Len(s) + 1
    <3>1. i \in 1..Len(s) /\ j \in 1..Len(s)
      BY <1>4, <1>8, <2>2
    <3> QED
      BY <1>1, <1>8, <3>1 DEF Sorted
  <2> QED
    BY <2>1, <2>2
<1>10. LivesAt(s, n)
  BY <1>1, LiveIs
<1> HIDE DEF n
<1>11. LivesAt(v, n + 1)
  <2>1. n \in 0..Len(s) /\ n + 1 \in 0..Len(v)
    BY <1>4, <1>8, <1>10 DEF LivesAt
  <2>2. ASSUME NEW i \in 1..Len(v) PROVE v[i] <= Horizon <=> i > Len(v) - (n + 1)
    <3>1. CASE i = Len(s) + 1
      BY <1>4, <1>8, <2>1, <3>1, AgesAre
    <3>2. CASE i \in 1..Len(s)
      BY <1>4, <1>8, <1>10, <2>1, <3>2 DEF LivesAt
    <3> QED
      BY <1>4, <1>8, <3>1, <3>2
  <2> QED
    BY <2>1, <2>2 DEF LivesAt
<1>12. Len(Live(v)) = n + 1
  <2>1. LivesAt(v, Len(Live(v)))
    BY <1>4, <1>9, LiveIs
  <2> QED
    BY <1>4, <1>11, <2>1, LivesAtOnce
<1>13. Len(Failed(t)) >= Lesser(Cap, Len(Live(v)))
  <2>1. n \in Nat /\ Len(t) \in Nat /\ Cap \in Nat /\ Len(t) >= Lesser(Cap, n)
    BY <1>8, <1>10, AgesAre DEF LivesAt, Remembers, n
  <2> QED
    BY <1>1, <1>4, <1>6, <1>12, <2>1 DEF Lesser, n
<1> QED
  BY <1>6, <1>7, <1>9, <1>13 DEF Remembers, v

LEMMA TickRemembers ==
  ASSUME NEW s \in Seq(Ages), NEW t \in Seq(Ages), Remembers(t, s)
  PROVE  /\ Older(s) \in Seq(Ages) /\ Older(t) \in Seq(Ages)
         /\ Remembers(Older(t), Older(s))
<1>1. ASSUME NEW u \in Seq(Ages)
      PROVE  /\ Older(u) \in Seq(Ages) /\ Len(Older(u)) = Len(u) /\ Len(u) \in Nat
             /\ \A i \in 1..Len(u) : /\ Older(u)[i] = Lesser(u[i] + 1, Horizon + 1)
                                     /\ u[i] \in Ages
  <2>1. DOMAIN u = 1..Len(u) /\ Len(u) \in Nat /\ \A i \in 1..Len(u) : u[i] \in Ages
    BY LenProperties
  <2>2. Older(u) = [i \in 1..Len(u) |-> Lesser(u[i] + 1, Horizon + 1)]
    BY <2>1 DEF Older
  <2>3. \A i \in 1..Len(u) : Lesser(u[i] + 1, Horizon + 1) \in Ages
    BY <2>1, ServingAssumption DEF Ages, Lesser
  <2>4. Older(u) \in Seq(Ages) /\ Len(Older(u)) = Len(u)
    BY <2>1, <2>2, <2>3, IsASeq, LenProperties
  <2> QED
    BY <2>1, <2>2, <2>4
<1> DEFINE v == Older(s)
           w == Older(t)
<1>2. /\ v \in Seq(Ages) /\ Len(v) = Len(s) /\ Len(s) \in Nat
      /\ w \in Seq(Ages) /\ Len(w) = Len(t) /\ Len(t) \in Nat
      /\ \A i \in 1..Len(s) : v[i] = Lesser(s[i] + 1, Horizon + 1) /\ s[i] \in Ages
      /\ \A i \in 1..Len(t) : w[i] = Lesser(t[i] + 1, Horizon + 1) /\ t[i] \in Ages
  BY <1>1
<1> HIDE DEF v, w
<1>3. Sorted(s) /\ Ends(s, t) /\ Len(t) >= Lesser(Cap, Len(Live(s)))
  BY DEF Remembers
<1>4. Sorted(v)
  <2> SUFFICES ASSUME NEW i \in 1..Len(v), NEW j \in 1..Len(v), i <= j
               PROVE  v[j] <= v[i]
    BY DEF Sorted
  <2>1. s[i] \in Nat /\ s[j] \in Nat /\ Horizon \in Nat
    BY <1>2, AgesAre
  <2>2. s[j] <= s[i]
    BY <1>2, <1>3 DEF Sorted
  <2> QED
    BY <1>2, <2>1, <2>2 DEF Lesser
<1>5. Ends(v, w)
  <2>1. /\ Len(t) <= Len(s)
        /\ \A i \in 1..Len(t) : /\ t[i] = s[Len(s) - Len(t) + i]
                                /\ Len(s) - Len(t) + i \in 1..Len(s)
    BY <1>2, <1>3 DEF Ends
  <2> QED
    BY <1>2, <2>1 DEF Ends
<1>6. Len(Live(v)) <= Len(Live(s))
  <2> DEFINE n == Len(Live(v))
             k == Len(Live(s))
  <2>1. LivesAt(v, n) /\ LivesAt(s, k)
    BY <1>2, <1>3, <1>4, LiveIs
  <2> HIDE DEF n, k
  <2>2. n \in 0..Len(s) /\ k \in 0..Len(s)
    BY <1>2, <2>1 DEF LivesAt
  <2>3. ASSUME n > k PROVE FALSE
    <3> DEFINE i == Len(s) - k
    <3>1. i \in 1..Len(s) /\ i > Len(s) - n /\ ~(i > Len(s) - k)
      BY <1>2, <2>2, <2>3
    <3> HIDE DEF i
    <3>2. v[i] <= Horizon /\ ~(s[i] <= Horizon)
      BY <1>2, <2>1, <3>1, Zenon DEF LivesAt
    <3>3. s[i] \in Nat /\ Horizon \in Nat /\ v[i] = Lesser(s[i] + 1, Horizon + 1)
      BY <1>2, <3>1, AgesAre
    <3> QED
      BY <3>2, <3>3 DEF Lesser
  <2>4. n <= k
    BY <2>2, <2>3
  <2> QED
    BY <2>4 DEF n, k
<1>7. Len(w) >= Lesser(Cap, Len(Live(v)))
  <2>1. Len(Live(s)) \in Nat /\ Len(Live(v)) \in Nat
    BY <1>2, <1>3, <1>4, LiveIs
  <2> QED
    BY <1>2, <1>3, <1>6, <2>1, AgesAre DEF Lesser
<1> QED
  BY <1>2, <1>4, <1>5, <1>7 DEF Remembers, v, w

-----------------------------------------------------------------------------
(* The state of the service.                                                *)

LEMMA ServingConstants ==
  /\ Horizon \in Nat /\ Cap \in Nat /\ KeepScores \in Nat /\ Top \in Nat /\ Threads \in Nat
  /\ Scores \subseteq 0..Top /\ 0 \in 0..Top /\ Default \in 0..Top
  /\ Earlier.scores \in Seq(Scores) /\ Earlier.failures \in Seq({0})
  BY ServingAssumption

(* The scores and the failures of a modality, in the engine and in full.    *)
ScoresInv ==
  /\ recent \in [Modalities -> Seq(Scores)]
  /\ recorded \in [Modalities -> Seq(Scores)]
  /\ \A m \in Modalities :
       /\ Ends(recorded[m], recent[m])
       /\ Len(recent[m]) >= Lesser(KeepScores, Len(recorded[m]))

FailuresInv ==
  /\ failures \in [Modalities -> Seq(Ages)]
  /\ failed \in [Modalities -> Seq(Ages)]
  /\ \A m \in Modalities : Remembers(failures[m], failed[m])

(* Only an inferred score is waiting to be recorded.                        *)
WorkInv ==
  /\ work \in [Requests -> [Modalities -> InferenceStages]]
  /\ score \in [Requests -> [Modalities -> 0..Top]]
  /\ record \in [Requests -> [Modalities -> {"none", "push", "trim"}]]
  /\ \A r \in Requests, m \in Modalities :
       /\ work[r][m] = "real" => score[r][m] \in Scores
       /\ record[r][m] = "push" => work[r][m] = "real"

LEMMA ScoresInit == ServingInit => ScoresInv
<1> SUFFICES ASSUME ServingInit PROVE ScoresInv
  OBVIOUS
<1> DEFINE e == Newest(Earlier.scores, KeepScores)
<1>1. e \in Seq(Scores) /\ Len(e) = Lesser(KeepScores, Len(Earlier.scores)) /\ Ends(Earlier.scores, e)
  BY ServingConstants, NewestIs
<1>2. recent = [m \in Modalities |-> e] /\ recorded = [m \in Modalities |-> Earlier.scores]
  BY DEF ServingInit
<1> HIDE DEF e
<1>3. Lesser(KeepScores, Len(Earlier.scores)) \in Nat
  BY ServingConstants DEF Lesser
<1> QED
  BY <1>1, <1>2, <1>3, ServingConstants DEF ScoresInv

LEMMA FailuresInit == ServingInit => FailuresInv
<1> SUFFICES ASSUME ServingInit PROVE FailuresInv
  OBVIOUS
<1> DEFINE s == Earlier.failures
           t == Newest(s, Cap)
<1>1. /\ s \in Seq({0}) /\ s \in Seq(Ages)
      /\ Len(s) \in Nat /\ \A i \in 1..Len(s) : s[i] = 0
  <2>1. s \in Seq({0}) /\ {0} \subseteq Ages
    BY ServingConstants, AgesAre
  <2>2. s \in Seq(Ages)
    BY <2>1, SeqMonotonic
  <2> QED
    BY <2>1, <2>2
<1>2. failures = [m \in Modalities |-> t] /\ failed = [m \in Modalities |-> s]
  BY DEF ServingInit
<1> HIDE DEF s
<1>3. t \in Seq(Ages) /\ Len(t) = Lesser(Cap, Len(s)) /\ Ends(s, t)
  BY <1>1, ServingConstants, NewestIs
<1> HIDE DEF t
<1>4. Sorted(s)
  BY <1>1 DEF Sorted
<1>5. LivesAt(s, Len(Live(s)))
  BY <1>1, <1>4, LiveIs
<1>6. Len(t) >= Lesser(Cap, Len(Live(s)))
  BY <1>1, <1>3, <1>5, ServingConstants DEF Lesser, LivesAt
<1> QED
  BY <1>1, <1>2, <1>3, <1>4, <1>6 DEF FailuresInv, Remembers

LEMMA WorkInit == ServingInit => WorkInv
  BY ServingConstants DEF ServingInit, WorkInv, InferenceStages, Ended

-----------------------------------------------------------------------------
(* A modality whose stage is not final moves on.                            *)
LEMMA MoveStep ==
  ASSUME WorkInv, NEW r \in Requests, NEW m \in Modalities,
         NEW stage \in InferenceStages, work' = [work EXCEPT ![r][m] = stage],
         work[r][m] # "real",
         NEW x \in 0..Top, score' = [score EXCEPT ![r][m] = x],
         stage = "real" => x \in Scores, record' = record
  PROVE  WorkInv'
<1>1. /\ work' \in [Requests -> [Modalities -> InferenceStages]]
      /\ score' \in [Requests -> [Modalities -> 0..Top]]
  BY DEF WorkInv
<1>2. /\ work'[r][m] = stage /\ score'[r][m] = x
      /\ \A q \in Requests, k \in Modalities : q # r \/ k # m =>
           work'[q][k] = work[q][k] /\ score'[q][k] = score[q][k]
  BY DEF WorkInv
<1>3. ASSUME NEW q \in Requests, NEW k \in Modalities
      PROVE  /\ work'[q][k] = "real" => score'[q][k] \in Scores
             /\ record[q][k] = "push" => work'[q][k] = "real"
  <2>1. CASE q = r /\ k = m
    BY <1>2, <2>1 DEF WorkInv
  <2>2. CASE q # r \/ k # m
    BY <1>2, <2>2 DEF WorkInv
  <2> QED
    BY <2>1, <2>2
<1> QED
  BY <1>1, <1>3 DEF WorkInv

(* A fallback score is a mean of scores or the default, and is not          *)
(* recorded.                                                                *)
LEMMA WorkStep == WorkInv /\ ScoresInv /\ [ServingNext]_servingVars => WorkInv'
<1> SUFFICES ASSUME WorkInv, ScoresInv, [ServingNext]_servingVars PROVE WorkInv'
  OBVIOUS
<1> USE DEF InferenceStages, Ended
<1>1. ASSUME NEW r \in Requests, Start(r) PROVE WorkInv'
  BY <1>1 DEF Start, WorkInv
<1>2. ASSUME NEW r \in Requests, NEW m \in Modalities,
             Run(r, m) \/ Infer(r, m) \/ Timeout(r, m)
      PROVE  WorkInv'
  <2>1. PICK stage \in InferenceStages, x \in 0..Top :
          /\ work' = [work EXCEPT ![r][m] = stage]
          /\ score' = [score EXCEPT ![r][m] = x]
          /\ stage = "real" => x \in Scores
    <3>1. CASE Run(r, m) \/ Timeout(r, m)
      <4>1. score' = [score EXCEPT ![r][m] = score[r][m]] /\ score[r][m] \in 0..Top
        BY <3>1 DEF Run, Timeout, WorkInv
      <4>2. PICK stage \in {"running", "relookup"} : work' = [work EXCEPT ![r][m] = stage]
        BY <3>1 DEF Run, Timeout, To
      <4> QED
        BY <4>1, <4>2
    <3>2. CASE \E s \in Scores : score' = [score EXCEPT ![r][m] = s] /\ To(r, m, "real")
      BY <3>2, ServingConstants DEF To
    <3>3. CASE To(r, m, "lookup") /\ UNCHANGED score
      <4>1. score' = [score EXCEPT ![r][m] = score[r][m]] /\ score[r][m] \in 0..Top
        BY <3>3 DEF WorkInv
      <4> QED
        BY <3>3, <4>1 DEF To
    <3> QED
      BY <1>2, <3>1, <3>2, <3>3 DEF Infer
  <2> QED
    BY <1>2, <2>1, MoveStep DEF Run, Infer, Timeout
<1>4. ASSUME NEW r \in Requests, NEW m \in Modalities, Lookup(r, m) PROVE WorkInv'
  <2>1. PICK s \in {Default} \cup (IF Read(m) = << >> THEN {} ELSE {Mean(Read(m))}) :
          score' = [score EXCEPT ![r][m] = s]
    BY <1>4 DEF Lookup
  <2>2. s \in 0..Top
    <3>1. recent[m] \in Seq(0..Top)
      BY ServingConstants, SeqMonotonic DEF ScoresInv
    <3>2. Read(m) \in Seq(0..Top)
      BY <3>1, ServingConstants, OldestIs DEF Read
    <3>3. Read(m) # << >> => Mean(Read(m)) \in 0..Top
      BY <3>2, ServingConstants, MeanIsScore
    <3> QED
      BY <2>1, <3>3, ServingConstants
  <2>3. /\ work' = [work EXCEPT ![r][m] = "fallback"] /\ "fallback" \in InferenceStages
        /\ work[r][m] # "real" /\ record' = record
    BY <1>4 DEF Lookup, To
  <2> QED
    BY <2>1, <2>2, <2>3, MoveStep
<1>5. ASSUME NEW r \in Requests, NEW m \in Modalities, Push(r, m) \/ Trim(r, m)
      PROVE  WorkInv'
  <2>1. PICK x \in {"none", "trim"} : record' = [record EXCEPT ![r][m] = x]
    BY <1>5 DEF Push, Trim
  <2>2. UNCHANGED <<work, score>>
    BY <1>5 DEF Push, Trim
  <2>3. \A q \in Requests, k \in Modalities : record'[q][k] \in {record[q][k], "none", "trim"}
    BY <2>1 DEF WorkInv
  <2> QED
    BY <2>1, <2>2, <2>3 DEF WorkInv
<1>6. ASSUME NEW r \in Requests, Respond(r) PROVE WorkInv'
  BY <1>6 DEF Respond, FirstRecord, WorkInv
<1>7. CASE LateEnds \/ Tick \/ UNCHANGED servingVars
  BY <1>7 DEF LateEnds, Tick, servingVars, WorkInv
<1> QED
  BY <1>1, <1>2, <1>4, <1>5, <1>6, <1>7 DEF ServingNext, Step

(* Only a push and a trim touch the list.                                   *)
LEMMA ScoresStep == WorkInv /\ ScoresInv /\ [ServingNext]_servingVars => ScoresInv'
<1> SUFFICES ASSUME WorkInv, ScoresInv, [ServingNext]_servingVars PROVE ScoresInv'
  OBVIOUS
<1>1. ASSUME NEW r \in Requests, NEW m \in Modalities, Push(r, m) PROVE ScoresInv'
  <2>1. CASE UNCHANGED <<recent, recorded>>
    BY <2>1 DEF ScoresInv
  <2>2. CASE /\ recent' = [recent EXCEPT ![m] = Append(@, score[r][m])]
             /\ recorded' = [recorded EXCEPT ![m] = Append(@, score[r][m])]
    <3> DEFINE x == score[r][m]
               s == recorded[m]
               t == recent[m]
               v == Append(s, x)
               w == Append(t, x)
    <3>1. x \in Scores
      BY <1>1 DEF Push, WorkInv
    <3>2. s \in Seq(Scores) /\ t \in Seq(Scores) /\ Ends(s, t)
      BY DEF ScoresInv
    <3>3. v \in Seq(Scores) /\ w \in Seq(Scores) /\ Len(v) = Len(s) + 1 /\ Len(w) = Len(t) + 1
      BY <3>1, <3>2, AppendProperties
    <3>4. Ends(v, w)
      BY <3>1, <3>2, EndsAppend
    <3>5. Len(w) >= Lesser(KeepScores, Len(v))
      <4>1. Len(s) \in Nat /\ Len(t) \in Nat /\ Len(t) >= Lesser(KeepScores, Len(s))
        BY <3>2 DEF ScoresInv
      <4> QED
        BY <3>3, <4>1, ServingConstants DEF Lesser
    <3>6. /\ recent' = [recent EXCEPT ![m] = w]
          /\ recorded' = [recorded EXCEPT ![m] = v]
      BY <2>2
    <3> HIDE DEF v, w
    <3> QED
      BY <3>3, <3>4, <3>5, <3>6 DEF ScoresInv
  <2> QED
    BY <1>1, <2>1, <2>2 DEF Push
<1>2. ASSUME NEW r \in Requests, NEW m \in Modalities, Trim(r, m) PROVE ScoresInv'
  <2>1. CASE UNCHANGED <<recent, recorded>>
    BY <2>1 DEF ScoresInv
  <2>2. CASE recent' = [recent EXCEPT ![m] = Newest(@, KeepScores)] /\ UNCHANGED recorded
    <3> DEFINE s == recorded[m]
               t == recent[m]
               w == Newest(t, KeepScores)
    <3>1. s \in Seq(Scores) /\ t \in Seq(Scores) /\ Ends(s, t)
      BY DEF ScoresInv
    <3>2. w \in Seq(Scores) /\ Len(w) = Lesser(KeepScores, Len(t)) /\ Ends(t, w)
      BY <3>1, ServingConstants, NewestIs
    <3>3. Ends(s, w)
      BY <3>1, <3>2, EndsTransitive
    <3>4. Len(w) >= Lesser(KeepScores, Len(s))
      <4>1. Len(s) \in Nat /\ Len(t) \in Nat /\ Len(t) >= Lesser(KeepScores, Len(s))
        BY <3>1 DEF ScoresInv
      <4> QED
        BY <3>2, <4>1, ServingConstants DEF Lesser
    <3>5. recent' = [recent EXCEPT ![m] = w] /\ recorded' = recorded
      BY <2>2
    <3> HIDE DEF w
    <3> QED
      BY <3>2, <3>3, <3>4, <3>5 DEF ScoresInv
  <2> QED
    BY <1>2, <2>1, <2>2 DEF Trim
<1>3. CASE UNCHANGED <<recent, recorded>>
  BY <1>3 DEF ScoresInv
<1> QED
  BY <1>1, <1>2, <1>3
  DEF ServingNext, Step, Start, Respond, Run, Infer, Timeout, Lookup, LateEnds, Tick, servingVars

(* Only the end of a prediction and the clock touch the window.             *)
LEMMA FailuresStep == FailuresInv /\ [ServingNext]_servingVars => FailuresInv'
<1> SUFFICES ASSUME FailuresInv, [ServingNext]_servingVars PROVE FailuresInv'
  OBVIOUS
<1>1. ASSUME NEW m \in Modalities
      PROVE  /\ failures[m] \in Seq(Ages) /\ failed[m] \in Seq(Ages)
             /\ Remembers(failures[m], failed[m])
             /\ Failed(failures[m]) \in Seq(Ages) /\ Append(failed[m], 0) \in Seq(Ages)
             /\ Remembers(Failed(failures[m]), Append(failed[m], 0))
             /\ Older(failures[m]) \in Seq(Ages) /\ Older(failed[m]) \in Seq(Ages)
             /\ Remembers(Older(failures[m]), Older(failed[m]))
  <2>1. /\ failures[m] \in Seq(Ages) /\ failed[m] \in Seq(Ages)
        /\ Remembers(failures[m], failed[m])
    BY DEF FailuresInv
  <2>2. Append(failed[m], 0) \in Seq(Ages)
    BY <2>1, AgesAre, AppendProperties
  <2> QED
    BY <2>1, <2>2, FailRemembers, TickRemembers
<1>2. ASSUME NEW r \in Requests, Respond(r) PROVE FailuresInv'
  <2>1. /\ failures' = [m \in Modalities |->
                          IF work[r][m] = "fallback" THEN Failed(failures[m])
                                                     ELSE failures[m]]
        /\ failed' = [m \in Modalities |->
                        IF work[r][m] = "fallback" THEN Append(failed[m], 0)
                                                   ELSE failed[m]]
    BY <1>2 DEF Respond
  <2>2. /\ failures' \in [Modalities -> Seq(Ages)]
        /\ failed' \in [Modalities -> Seq(Ages)]
    BY <1>1, <2>1
  <2>3. ASSUME NEW m \in Modalities PROVE Remembers(failures'[m], failed'[m])
    <3>1. CASE work[r][m] = "fallback"
      BY <1>1, <2>1, <3>1
    <3>2. CASE work[r][m] # "fallback"
      BY <1>1, <2>1, <3>2
    <3> QED
      BY <3>1, <3>2
  <2> QED
    BY <2>2, <2>3 DEF FailuresInv
<1>3. CASE Tick
  <2>1. /\ failures' = [m \in Modalities |-> Older(failures[m])]
        /\ failed' = [m \in Modalities |-> Older(failed[m])]
    BY <1>3 DEF Tick
  <2>2. /\ failures' \in [Modalities -> Seq(Ages)]
        /\ failed' \in [Modalities -> Seq(Ages)]
        /\ \A m \in Modalities : Remembers(failures'[m], failed'[m])
    BY <1>1, <2>1
  <2> QED
    BY <2>2 DEF FailuresInv
<1>4. CASE UNCHANGED <<failures, failed>>
  BY <1>4 DEF FailuresInv
<1> QED
  BY <1>2, <1>3, <1>4
  DEF ServingNext, Step, Start, Run, Infer, Timeout, Lookup, Push, Trim, LateEnds, servingVars

ServingInv == WorkInv /\ ScoresInv /\ FailuresInv

LEMMA ServingInvariance == ServingSpec => []ServingInv
<1>1. ServingInit => ServingInv
  BY WorkInit, ScoresInit, FailuresInit DEF ServingInv
<1>2. ServingInv /\ [ServingNext]_servingVars => ServingInv'
  BY WorkStep, ScoresStep, FailuresStep DEF ServingInv
<1> QED
  BY <1>1, <1>2, PTL DEF ServingSpec

(* However pushes and trims of concurrent tasks interleave and fail, the    *)
(* list in Redis is the newest of what was pushed, never shorter than the   *)
(* window, and only scores that a model inferred are on it (record_score).  *)
THEOREM HistoryStaysNewest == ServingSpec => []HistoryIsNewest
<1>1. ServingInv => HistoryIsNewest
  <2> SUFFICES ASSUME ServingInv, NEW m \in Modalities
               PROVE  /\ recent[m] = Newest(recorded[m], Len(recent[m]))
                      /\ Len(recent[m]) >= Lesser(KeepScores, Len(recorded[m]))
                      /\ \A i \in DOMAIN recorded[m] : recorded[m][i] \in Scores
    BY DEF HistoryIsNewest
  <2>1. /\ recent[m] \in Seq(Scores) /\ recorded[m] \in Seq(Scores)
        /\ Ends(recorded[m], recent[m])
        /\ Len(recent[m]) >= Lesser(KeepScores, Len(recorded[m]))
    BY DEF ServingInv, ScoresInv
  <2>2. recent[m] = Newest(recorded[m], Len(recent[m]))
    BY <2>1, EndIsNewest
  <2>3. \A i \in DOMAIN recorded[m] : recorded[m][i] \in Scores
    BY <2>1, ElementOfSeq, LenProperties
  <2> QED
    BY <2>1, <2>2, <2>3
<1> QED
  BY <1>1, ServingInvariance, PTL

(* Cutting the failure window at its cap, at least the threshold, never     *)
(* changes the verdict on a modality.                                       *)
THEOREM CapNeverHidesTrigger == ServingSpec => []TriggerAgrees
<1>1. ServingInv => TriggerAgrees
  <2> SUFFICES ASSUME ServingInv, NEW m \in Modalities
               PROVE  Len(Live(failures[m])) >= Threshold <=> Len(Live(failed[m])) >= Threshold
    BY DEF TriggerAgrees, ShouldTrigger
  <2> DEFINE s == failed[m]
             t == failures[m]
             n == Len(Live(s))
  <2>1. s \in Seq(Ages) /\ t \in Seq(Ages) /\ Remembers(t, s)
    BY DEF ServingInv, FailuresInv
  <2> HIDE DEF s, t
  <2>2. Len(Live(t)) = Lesser(Len(t), n) /\ Len(t) >= Lesser(Cap, n) /\ Len(t) \in Nat
    BY <2>1, EndsLive DEF Remembers
  <2>3. n \in Nat
    BY <2>1, LiveIs DEF Remembers
  <2>4. Threshold \in Nat /\ Cap \in Nat /\ Cap >= Threshold
    BY ServingAssumption
  <2> HIDE DEF n
  <2>5. Len(Live(t)) >= Threshold <=> n >= Threshold
    BY <2>2, <2>3, <2>4 DEF Lesser
  <2> QED
    BY <2>5 DEF s, t, n
<1> QED
  BY <1>1, ServingInvariance, PTL

-----------------------------------------------------------------------------
(* The executor's threads.                                                  *)

(* The inferences that run.                                                 *)
Busy == {p \in Requests \X Modalities : work[p[1]][p[2]] = "running"}
ThreadsInv == late \in Nat /\ Running <= Threads

LEMMA BusyIsFinite ==
  /\ IsFiniteSet(Busy) /\ Cardinality(Busy) \in Nat
  /\ IsFiniteSet(Busy') /\ Cardinality(Busy') \in Nat
  /\ Running = late + Cardinality(Busy)
  /\ Running' = late' + Cardinality(Busy')
<1>1. IsFiniteSet({"structured", "text", "behavior"})
  <2>1. IsFiniteSet({"structured"} \cup {"text"})
    BY FS_Singleton, FS_AddElement
  <2>2. IsFiniteSet(({"structured"} \cup {"text"}) \cup {"behavior"})
    BY <2>1, FS_AddElement
  <2>3. ({"structured"} \cup {"text"}) \cup {"behavior"} = {"structured", "text", "behavior"}
    OBVIOUS
  <2> QED
    BY <2>2, <2>3
<1>2. IsFiniteSet(Requests \X Modalities)
  BY <1>1, ServingAssumption, FS_Subset, FS_Product
<1>3. Busy \in SUBSET (Requests \X Modalities) /\ Busy' \in SUBSET (Requests \X Modalities)
  BY DEF Busy
<1> QED
  BY <1>2, <1>3, FS_Subset, FS_CardinalityType DEF Running, Busy

(* A thread is taken when one is free, and handed over by a timeout.        *)
LEMMA ThreadsStep == WorkInv /\ ThreadsInv /\ [ServingNext]_servingVars => ThreadsInv'
<1> SUFFICES ASSUME WorkInv, ThreadsInv, [ServingNext]_servingVars PROVE ThreadsInv'
  OBVIOUS
<1>0. Threads \in Nat
  BY ServingConstants
<1>1. CASE Busy' \in SUBSET Busy /\ late' \in Nat /\ late' <= late
  <2>1. Cardinality(Busy') <= Cardinality(Busy)
    BY <1>1, BusyIsFinite, FS_Subset
  <2> QED
    BY <1>0, <1>1, <2>1, BusyIsFinite DEF ThreadsInv
<1>2. ASSUME NEW r \in Requests, NEW m \in Modalities, Run(r, m) PROVE ThreadsInv'
  <2>1. Running < Threads /\ work' = [work EXCEPT ![r][m] = "running"] /\ late' = late
    BY <1>2 DEF Run, To
  <2>2. Busy' = Busy \cup {<<r, m>>}
    <3>1. ASSUME NEW q \in Requests, NEW k \in Modalities
          PROVE  <<q, k>> \in Busy' <=> <<q, k>> \in Busy \/ (q = r /\ k = m)
      BY <2>1 DEF Busy, WorkInv
    <3> QED
      BY <3>1 DEF Busy
  <2>3. Cardinality(Busy') <= Cardinality(Busy) + 1
    <3>1. Cardinality(Busy \cup {<<r, m>>}) \in {Cardinality(Busy), Cardinality(Busy) + 1}
      BY BusyIsFinite, FS_AddElement
    <3> QED
      BY <2>2, <3>1, BusyIsFinite
  <2> QED
    BY <1>0, <2>1, <2>3, BusyIsFinite DEF ThreadsInv
<1>3. ASSUME NEW r \in Requests, NEW m \in Modalities, Timeout(r, m), work[r][m] = "running"
      PROVE  ThreadsInv'
  <2>1. work' = [work EXCEPT ![r][m] = "relookup"] /\ late' = late + 1
    BY <1>3 DEF Timeout, To
  <2>2. Busy' = Busy \ {<<r, m>>} /\ <<r, m>> \in Busy
    <3>1. ASSUME NEW q \in Requests, NEW k \in Modalities
          PROVE  <<q, k>> \in Busy' <=> <<q, k>> \in Busy /\ ~(q = r /\ k = m)
      BY <2>1 DEF Busy, WorkInv
    <3> QED
      BY <1>3, <3>1 DEF Busy
  <2>3. Cardinality(Busy') = Cardinality(Busy) - 1
    BY <2>2, BusyIsFinite, FS_RemoveElement
  <2> QED
    BY <1>0, <2>1, <2>3, BusyIsFinite DEF ThreadsInv
<1>4. ASSUME NEW r \in Requests, NEW m \in Modalities, NEW stage \in InferenceStages \ {"running"},
             work' = [work EXCEPT ![r][m] = stage], late' = late
      PROVE  ThreadsInv'
  <2>1. ASSUME NEW q \in Requests, NEW k \in Modalities, work'[q][k] = "running"
        PROVE  work[q][k] = "running"
    BY <1>4, <2>1 DEF WorkInv
  <2> QED
    BY <1>1, <1>4, <2>1 DEF Busy, ThreadsInv
<1>5. ASSUME NEW r \in Requests, NEW m \in Modalities,
             Infer(r, m) \/ Lookup(r, m) \/ (Timeout(r, m) /\ work[r][m] # "running")
      PROVE  ThreadsInv'
  <2>1. \E stage \in {"real", "lookup", "fallback", "relookup"} :
          work' = [work EXCEPT ![r][m] = stage]
    BY <1>5 DEF Infer, Lookup, Timeout, To
  <2>2. late' = late
    BY <1>5 DEF Infer, Lookup, Timeout
  <2> QED
    BY <1>4, <2>1, <2>2 DEF InferenceStages, Ended
<1>6. ASSUME NEW r \in Requests, Start(r) PROVE ThreadsInv'
  <2>1. late' = late /\ \E first \in [Modalities -> {"queued", "lookup"}] :
          work' = [work EXCEPT ![r] = first]
    BY <1>6 DEF Start
  <2>2. ASSUME NEW q \in Requests, NEW k \in Modalities, work'[q][k] = "running"
        PROVE  work[q][k] = "running"
    BY <2>1, <2>2 DEF WorkInv
  <2> QED
    BY <1>1, <2>1, <2>2 DEF Busy, ThreadsInv
<1>7. CASE work' = work /\ late' \in {late, late - 1} /\ late' \in Nat
  BY <1>1, <1>7 DEF Busy, ThreadsInv
<1>8. CASE LateEnds \/ Tick \/ UNCHANGED servingVars
  BY <1>7, <1>8 DEF LateEnds, Tick, servingVars, ThreadsInv
<1>9. ASSUME NEW r \in Requests, Respond(r) \/ (\E m \in Modalities : Push(r, m) \/ Trim(r, m))
      PROVE  ThreadsInv'
  BY <1>7, <1>9 DEF Respond, Push, Trim, ThreadsInv
<1> QED
  BY <1>2, <1>3, <1>5, <1>6, <1>8, <1>9 DEF ServingNext, Step

LEMMA RepliesStep ==
  WorkInv /\ replies \in [Requests -> Nat \X Nat] /\ [ServingNext]_servingVars
    => replies' \in [Requests -> Nat \X Nat]
<1> SUFFICES ASSUME WorkInv, replies \in [Requests -> Nat \X Nat], [ServingNext]_servingVars
             PROVE  replies' \in [Requests -> Nat \X Nat]
  OBVIOUS
<1>1. ASSUME NEW r \in Requests, Respond(r) PROVE replies' \in [Requests -> Nat \X Nat]
  <2>1. ASSUME NEW m \in Modalities
        PROVE  Effective(r, m) \in Nat /\ Effective(r, m) * score[r][m] \in Nat
    <3>1. Effective(r, m) \in Nat /\ score[r][m] \in Nat
      BY ServingConstants DEF Effective, Weight, FallbackWeight, WorkInv
    <3>2. \A a, b \in Nat : a * b \in Nat
      OBVIOUS
    <3> QED
      BY <3>1, <3>2
  <2>2. Fuse(r) \in Nat \X Nat
    <3> DEFINE w(m) == IF m \in Modalities THEN Effective(r, m) * score[r][m] ELSE 0
               v(m) == IF m \in Modalities THEN Effective(r, m) ELSE 0
    <3>1. \A m : w(m) \in Nat /\ v(m) \in Nat
      BY <2>1
    <3>2. Fuse(r) = <<w("structured") + w("text") + w("behavior"),
                      v("structured") + v("text") + v("behavior")>>
      BY DEF Fuse
    <3> HIDE DEF w, v
    <3> QED
      BY <3>1, <3>2
  <2> QED
    BY <1>1, <2>2 DEF Respond
<1>2. CASE UNCHANGED replies
  BY <1>2
<1> QED
  BY <1>1, <1>2
  DEF ServingNext, Step, Start, Run, Infer, Timeout, Lookup, Push, Trim, LateEnds, Tick,
      servingVars

(* Types, with every mean and fused score among them, and the executor      *)
(* never runs more inferences than it has threads.                          *)
THEOREM ServingTypeCorrect == ServingSpec => []ServingTypeOK
<1> DEFINE Rest == ThreadsInv /\ replies \in [Requests -> Nat \X Nat]
<1>1. ServingInit => Rest
  <2> SUFFICES ASSUME ServingInit PROVE Rest
    OBVIOUS
  <2>1. Busy = {} /\ late = 0
    BY DEF ServingInit, Busy
  <2>2. Running = 0
    BY <2>1, BusyIsFinite, FS_EmptySet
  <2> QED
    BY <2>2, ServingConstants DEF ServingInit, ThreadsInv, NoReply
<1>2. ServingInv /\ Rest /\ [ServingNext]_servingVars => Rest'
  BY ThreadsStep, RepliesStep DEF ServingInv
<1>3. ServingInv /\ Rest => ServingTypeOK
  <2> SUFFICES ASSUME ServingInv, Rest PROVE ServingTypeOK
    OBVIOUS
  <2>1. Seq(Scores) \subseteq Seq(0..Top)
    BY ServingConstants, SeqMonotonic
  <2>2. recent \in [Modalities -> Seq(0..Top)] /\ recorded \in [Modalities -> Seq(0..Top)]
    BY <2>1 DEF ServingInv, ScoresInv
  <2> QED
    BY <2>2 DEF ServingTypeOK, ServingInv, WorkInv, ThreadsInv, FailuresInv, Ages
<1> HIDE DEF Rest
<1> QED
  BY <1>1, <1>2, <1>3, ServingInvariance, PTL DEF ServingSpec
=============================================================================
