------------------------------ MODULE ModelOps ------------------------------
(***************************************************************************)
(* One tenant's model registry, and the hourly drift check that switches    *)
(* off the version the scoring path serves (the L2 kill switch).  The       *)
(* served version is a constant of the scoring code: the registry decides   *)
(* only which versions the drift check looks at.  The check runs once in    *)
(* an hour; a switch lasts an hour, its cool-down half of one.              *)
(***************************************************************************)
EXTENDS Naturals, FiniteSets

CONSTANTS Models,      (* versions of the tenant                              *)
          Served,      (* _ACTIVE_MODEL_VERSION                               *)
          Handlers,    (* requests the API serves at the same time            *)
          MaxExposed,  (* bound: hours of exposure that are counted           *)
          InfoEnabled, (* the worker's log level includes INFO                *)
          NoHandler

ASSUME ModelOpsAssumption ==
  /\ Served \in Models
  /\ NoHandler \notin Handlers
  /\ MaxExposed \in Nat
  /\ InfoEnabled \in BOOLEAN

VARIABLES
  status,  (* model_versions.status                                           *)
  req,     (* each handler's transaction: its stage and what it will write    *)
  lock,    (* the handler whose UPDATE holds a row                            *)
  alone,   (* history: handlers since whose load no other has committed       *)
  drifted, (* the distribution of the scores has moved away from the reference*)
  window,  (* what the scores of the last hour look like                      *)
  switch,  (* kill_switch:L2_MODEL:Served                                     *)
  aged,    (* the switch was set in an earlier hour                           *)
  check,   (* where the hour's drift check is                                 *)
  exposed, (* history: hours with drifted scores since the switch was last on *)
  missed   (* history: since then a check failed or found no served version   *)

registry == <<status, req, lock, alone>>
scores == <<drifted, window>>
redis == <<switch, aged>>
history == <<exposed, missed>>
vars == <<registry, scores, redis, check, history>>

Statuses == {"absent", "REGISTERED", "CANARY", "ACTIVE", "RETIRED"}
Stages == {"idle", "loaded", "retiring", "flush"}
Keep == [m \in Models |-> "keep"]
Idle == [stage |-> "idle", writes |-> Keep]

TypeOK ==
  /\ status \in [Models -> Statuses]
  /\ req \in [Handlers -> [stage : Stages,
                           writes : [Models -> Statuses \cup {"keep"}]]]
  /\ lock \in [Models -> Handlers \cup {NoHandler}]
  /\ \A m \in Models : lock[m] # NoHandler =>
       /\ req[lock[m]].stage = "flush"
       /\ req[lock[m]].writes[m] = "RETIRED"
  /\ alone \subseteq Handlers
  /\ drifted \in BOOLEAN
  /\ window \in {"none", "clean", "mixed", "drifted"}
  /\ switch \in {"IDLE", "ACTIVE", "COOLDOWN"}
  /\ aged \in BOOLEAN
  /\ check \in {"hour", "scores", "activate"}
  /\ exposed \in 0..MaxExposed
  /\ missed \in BOOLEAN

Init ==
  /\ status = [m \in Models |-> "absent"]
  /\ req = [h \in Handlers |-> Idle]
  /\ lock = [m \in Models |-> NoHandler]
  /\ alone = {}
  /\ drifted = FALSE /\ window = "none"
  /\ switch = "IDLE" /\ aged = FALSE
  /\ check = "hour"
  /\ exposed = 0 /\ missed = FALSE

-----------------------------------------------------------------------------
(* The registry.  A handler decides on the rows it loads and writes what it *)
(* changed at commit; promote retires the other ACTIVE rows by an UPDATE    *)
(* before that, and holds those rows until it commits.                      *)
RegisterModel(m) ==
  /\ status[m] = "absent"
  /\ status' = [status EXCEPT ![m] = "REGISTERED"]
  /\ UNCHANGED <<req, lock, alone, scores, redis, check, history>>

Load(h, stage, writes) ==
  /\ req[h].stage = "idle"
  /\ req' = [req EXCEPT ![h] = [stage |-> stage, writes |-> writes]]
  /\ alone' = alone \cup {h}
  /\ UNCHANGED <<status, lock, scores, redis, check, history>>

CanaryModel(h, m) ==
  /\ status[m] = "REGISTERED"
  /\ Load(h, "loaded", [Keep EXCEPT ![m] = "CANARY"])

PromoteModel(h, m) ==
  /\ status[m] = "CANARY"
  /\ Load(h, "retiring", [Keep EXCEPT ![m] = "ACTIVE"])

Retired(m) == IF status[m] = "RETIRED" THEN "keep" ELSE "RETIRED"

(* The target becomes ACTIVE, the model RETIRED; a third ACTIVE one stays.  *)
RollbackModel(h, m, target) ==
  /\ m # target /\ status[m] # "absent"
  /\ status[target] \notin {"absent", "ACTIVE"}
  /\ Load(h, "loaded", [Keep EXCEPT ![m] = Retired(m), ![target] = "ACTIVE"])

(* Explicitly, or by the DELETE request, which takes REGISTERED ones only.  *)
RetireModel(h, m) ==
  /\ status[m] \notin {"absent", "ACTIVE"}
  /\ Load(h, "loaded", [Keep EXCEPT ![m] = Retired(m)])

OtherCanaries(h) ==
  {m \in Models : status[m] = "CANARY" /\ req[h].writes[m] = "keep"}

Others(h) ==
  {m \in Models : status[m] = "ACTIVE" /\ req[h].writes[m] = "keep"}

(* The rows another handler holds are waited for.                           *)
RetireOthers(h) ==
  /\ req[h].stage = "retiring"
  /\ req' = [req EXCEPT ![h] =
               [stage |-> "flush",
                writes |-> [m \in Models |-> IF m \in Others(h) THEN "RETIRED"
                                             ELSE req[h].writes[m]]]]
  /\ lock' = [m \in Models |-> IF m \in Others(h) /\ lock[m] = NoHandler THEN h
                               ELSE lock[m]]
  /\ UNCHANGED <<status, alone, scores, redis, check, history>>

Waiting(m, h) == {k \in Handlers \ {h} : /\ req[k].stage = "flush"
                                         /\ req[k].writes[m] = "RETIRED"}

(* The end of a transaction passes its rows on to whoever waits for them.   *)
End(h) ==
  /\ req' = [req EXCEPT ![h] = Idle]
  /\ lock' = [m \in Models |->
                IF lock[m] # h THEN lock[m]
                ELSE IF Waiting(m, h) = {} THEN NoHandler
                ELSE CHOOSE k \in Waiting(m, h) : TRUE]

Commit(h) ==
  /\ req[h].stage \in {"loaded", "flush"}
  /\ \A m \in Models : req[h].writes[m] # "keep" => lock[m] \in {h, NoHandler}
  /\ status' = [m \in Models |-> IF req[h].writes[m] = "keep" THEN status[m]
                                 ELSE req[h].writes[m]]
  /\ alone' = {}
  /\ End(h)
  /\ UNCHANGED <<scores, redis, check, history>>

(* The database fails, or resolves a deadlock by this transaction.          *)
Abort(h) ==
  /\ req[h].stage # "idle"
  /\ alone' = alone \ {h}
  /\ End(h)
  /\ UNCHANGED <<status, scores, redis, check, history>>

-----------------------------------------------------------------------------
(* Scoring, when the switch does not send it to the heuristic: enough       *)
(* scores of the served version for a check.                                *)
Score ==
  /\ switch # "ACTIVE"
  /\ window' = CASE ~drifted /\ window \in {"none", "clean"} -> "clean"
                 [] drifted /\ window \in {"none", "drifted"} -> "drifted"
                 [] OTHER -> "mixed"
  /\ UNCHANGED <<registry, drifted, redis, check, history>>

Drift ==
  /\ drifted' = ~drifted
  /\ UNCHANGED <<registry, window, redis, check, history>>

(* KillSwitch.activate and deactivate look at nothing that is there.        *)
Operate(to) ==
  /\ switch' = to /\ aged' = FALSE
  /\ UNCHANGED <<registry, scores, check, history>>

Expire ==
  /\ \/ switch = "COOLDOWN"
     \/ switch = "ACTIVE" /\ aged
  /\ switch' = "IDLE" /\ aged' = FALSE
  /\ UNCHANGED <<registry, scores, check, history>>

-----------------------------------------------------------------------------
(* drift_check, sent once in an hour, looks at the scores of that hour.  A  *)
(* failure ends it, as its error log raises.  An ACTIVE switch that has     *)
(* lasted an hour expires before the second check after it was set.         *)
ActiveVersions == {m \in Models : status[m] = "ACTIVE"}

CheckedVersions == {m \in Models : status[m] # "absent"}

CloseHour ==
  /\ window' = "none"
  /\ exposed' = CASE window = "clean" -> 0
                  [] window = "drifted" /\ exposed < MaxExposed -> exposed + 1
                  [] OTHER -> exposed

HourIsOver ==
  /\ check = "hour"
  /\ ~(switch = "ACTIVE" /\ aged)
  /\ aged' = (switch = "ACTIVE")

BeginCheck ==
  /\ HourIsOver /\ ~InfoEnabled
  /\ Served \in CheckedVersions
  /\ check' = "scores"
  /\ UNCHANGED <<registry, scores, switch, history>>

(* The check is not run, fails at its first log or finds other versions.    *)
NoCheck ==
  /\ HourIsOver
  /\ CloseHour
  /\ missed' = (missed \/ Served \in CheckedVersions \/ status[Served] = "absent")
  /\ UNCHANGED <<registry, drifted, switch, check>>

CheckFails ==
  /\ check = "scores"
  /\ check' = "hour"
  /\ CloseHour
  /\ missed' = TRUE
  /\ UNCHANGED <<registry, drifted, redis>>

(* The PSI of the window is critical when all of it has drifted, and may be *)
(* when a part of it has.                                                   *)
Measure ==
  /\ check = "scores"
  /\ \/ window \in {"drifted", "mixed"} /\ check' = "activate"
     \/ window # "drifted" /\ check' = "hour"
  /\ CloseHour
  /\ UNCHANGED <<registry, drifted, redis, missed>>

SwitchOn ==
  switch' = "ACTIVE" /\ aged' = FALSE /\ exposed' = 0 /\ missed' = FALSE

(* A Redis failure is logged and the activation counted as made.            *)
Activate ==
  /\ check = "activate"
  /\ check' = "hour"
  /\ \/ SwitchOn
     \/ UNCHANGED <<redis, exposed>> /\ missed' = TRUE
  /\ UNCHANGED <<registry, scores>>

Next ==
  \/ \E m \in Models : RegisterModel(m)
  \/ \E h \in Handlers :
       \/ RetireOthers(h) \/ Commit(h) \/ Abort(h)
       \/ \E m \in Models :
            \/ CanaryModel(h, m) \/ PromoteModel(h, m) \/ RetireModel(h, m)
            \/ \E target \in Models : RollbackModel(h, m, target)
  \/ Score \/ Drift \/ Expire \/ \E to \in {"ACTIVE", "COOLDOWN"} : Operate(to)
  \/ BeginCheck \/ NoCheck \/ CheckFails \/ Measure \/ Activate

Spec == Init /\ [][Next]_vars

-----------------------------------------------------------------------------
(* A promotion during which no other request committed leaves its model as  *)
(* the only ACTIVE one, also after rollbacks that have left several.        *)
PromotionLeavesOne ==
  [][\A h \in Handlers :
       req[h].stage = "flush" /\ h \in alone /\ status' # status
         /\ req'[h].stage = "idle" =>
       Cardinality({m \in Models : status'[m] = "ACTIVE"}) = 1]_registry

(* Whatever the registry's requests and the operators do, a served version  *)
(* that is registered never scores two hours of drifted scores without the  *)
(* switch going on after the first, unless a check failed.                  *)
ExposureIsBounded == missed \/ exposed <= 1
=============================================================================
