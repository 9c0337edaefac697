---------------------------- MODULE AsyncScore ----------------------------
(***************************************************************************)
(* Scoring on a worker: POST /score/async sends a task, then records whose *)
(* it is; clients ask for its status (src/backend/app/api/v1/              *)
(* transactions.py).  The broker delivers the message until it is          *)
(* acknowledged, after the result is stored (celery_app.py), and the       *)
(* result backend holds the task's state, which a client's request reads   *)
(* up to seven times for one answer.                                       *)
(*                                                                         *)
(* The task logs with keyword arguments to a standard library logger: the  *)
(* call raises when its level is enabled.  The error that should lead to a *)
(* retry is logged first, so there is never a retry.                       *)
(***************************************************************************)
EXTENDS Naturals

CONSTANTS
  Tasks,
  Deliveries,   \* bound: how often the message of a task is delivered
  OwnerTTL,     \* the life of score_task:{id}, in ticks
  InfoEnabled   \* the worker logs at level INFO

VARIABLES
  sent,       \* the tasks whose message was sent
  recording,  \* the requests between sending and answering
  owner,      \* the remaining life of the tasks' owner records
  state,      \* the state in the result backend
  worker,     \* where the delivery of a task's message stands
  left,       \* how often it may still be delivered
  asking,     \* a status request: its step, what it keeps, its status
  told        \* history: the last status answered, of every task

asyncVars == <<sent, recording, owner, state, worker, left, asking, told>>

None == "none"
Idle == [at |-> "none", kept |-> None, status |-> None]
Untold == [status |-> "none", decision |-> FALSE, error |-> FALSE]

Init ==
  /\ sent = {} /\ recording = {}
  /\ owner = [t \in Tasks |-> 0]
  /\ state = [t \in Tasks |-> "PENDING"]
  /\ worker = [t \in Tasks |-> "none"]
  /\ left = [t \in Tasks |-> Deliveries]
  /\ asking = [t \in Tasks |-> Idle]
  /\ told = [t \in Tasks |-> Untold]

(* ------------------------------------------------------------ score_async *)

Send(t) ==
  /\ t \notin sent
  /\ sent' = sent \cup {t} /\ recording' = recording \cup {t}
  /\ worker' = [worker EXCEPT ![t] = "queued"]
  /\ UNCHANGED <<owner, state, left, asking, told>>

(* _record_task_owner lets a failure of Redis pass.                        *)
RecordTaskOwner(t) ==
  /\ t \in recording
  /\ recording' = recording \ {t}
  /\ owner' \in {owner, [owner EXCEPT ![t] = OwnerTTL]}
  /\ UNCHANGED <<sent, state, worker, left, asking, told>>

Expire(t) ==
  /\ owner[t] > 0
  /\ owner' = [owner EXCEPT ![t] = @ - 1]
  /\ UNCHANGED <<sent, recording, state, worker, left, asking, told>>

(* ------------------------------------------------------------- the worker *)

Move(t, stage, backend) ==
  /\ worker' = [worker EXCEPT ![t] = stage]
  /\ state' = [state EXCEPT ![t] = backend]

Begin(t) ==
  /\ worker[t] = "queued" /\ left[t] > 0
  /\ left' = [left EXCEPT ![t] = @ - 1]
  /\ Move(t, "started", "STARTED")
  /\ UNCHANGED <<sent, recording, owner, asking, told>>

(* score_async of tasks_scoring; what the scoring does is ScoringPipeline. *)
Score(t) ==
  /\ worker[t] = "started"
  /\ \/ ~InfoEnabled /\ Move(t, "stored", "SUCCESS")
     \/ Move(t, "stored", "FAILURE")
  /\ UNCHANGED <<sent, recording, owner, left, asking, told>>

Acknowledge(t) ==
  /\ worker[t] = "stored"
  /\ Move(t, "done", state[t])
  /\ UNCHANGED <<sent, recording, owner, left, asking, told>>

(* The worker is lost before it acknowledges: the message is delivered again.*)
Lose(t) ==
  /\ worker[t] \in {"started", "stored"}
  /\ Move(t, "queued", state[t])
  /\ UNCHANGED <<sent, recording, owner, left, asking, told>>

(* Redis, which evicts any key when it is full, forgets the result.        *)
EvictResult(t) ==
  /\ state[t] # "PENDING"
  /\ state' = [state EXCEPT ![t] = "PENDING"]
  /\ UNCHANGED <<sent, recording, owner, worker, left, asking, told>>

(* --------------------------------------------------------- get_score_task *)

(* _task_belongs_to_tenant refuses what has no record.                     *)
AskState(t) ==
  /\ owner[t] > 0 /\ asking[t].at = "none"
  /\ asking' = [asking EXCEPT ![t].at = "PENDING"]
  /\ UNCHANGED <<sent, recording, owner, state, worker, left, told>>

Final == {"SUCCESS", "FAILURE"}

(* Every result.state asks the backend, until the state is a final one,    *)
(* which the AsyncResult keeps.                                            *)
Read(t) == IF asking[t].kept = None THEN state[t] ELSE asking[t].kept
Kept(t) == IF Read(t) \in Final THEN Read(t) ELSE None

AskOn(t, at, status) ==
  /\ asking' = [asking EXCEPT ![t] = [at |-> at, kept |-> Kept(t), status |-> status]]
  /\ UNCHANGED <<sent, recording, owner, state, worker, left, told>>

(* The states the branches compare with, in their order, the status each    *)
(* gives and where the next comparison stands.                             *)
Branches == [PENDING |-> [status |-> "PENDING", orElse |-> "STARTED"],
             STARTED |-> [status |-> "RUNNING", orElse |-> "SUCCESS"],
             SUCCESS |-> [status |-> "COMPLETED", orElse |-> "FAILURE"],
             FAILURE |-> [status |-> "FAILED", orElse |-> "else"]]

Compare(t) ==
  LET at == asking[t].at IN
  /\ at \in DOMAIN Branches
  /\ \/ Read(t) = at /\ AskOn(t, "successful", Branches[at].status)
     \/ Read(t) # at /\ AskOn(t, Branches[at].orElse, None)

OtherState(t) == asking[t].at = "else" /\ AskOn(t, "successful", Read(t))

(* successful(), then failed(): the result of a success carries a status    *)
(* of its own, which replaces that of the payload.                         *)
ResultStatus == "COMPLETED"

Tell(t, status, decision, error) ==
  /\ told' = [told EXCEPT ![t] = [status |-> status, decision |-> decision, error |-> error]]
  /\ asking' = [asking EXCEPT ![t] = Idle]
  /\ UNCHANGED <<sent, recording, owner, state, worker, left>>

Succeed(t, status) ==
  /\ asking[t].at = "successful"
  /\ \/ Read(t) = "SUCCESS" /\ Tell(t, status, TRUE, FALSE)
     \/ Read(t) # "SUCCESS" /\ AskOn(t, "failed", asking[t].status)

SuccessfulKeepsStatus(t) == Succeed(t, asking[t].status)
Successful(t) == Succeed(t, ResultStatus)

Failed(t) ==
  /\ asking[t].at = "failed"
  /\ Tell(t, asking[t].status, FALSE, Read(t) = "FAILURE")

Next ==
  \E t \in Tasks :
       \/ Send(t) \/ RecordTaskOwner(t) \/ Expire(t)
       \/ Begin(t) \/ Score(t) \/ Acknowledge(t) \/ Lose(t) \/ EvictResult(t)
       \/ AskState(t) \/ Compare(t) \/ OtherState(t) \/ Successful(t) \/ Failed(t)

Spec == Init /\ [][Next]_asyncVars

(* ------------------------------------------------------------- properties *)

TypeOK ==
  /\ sent \subseteq Tasks /\ recording \subseteq sent
  /\ owner \in [Tasks -> 0..OwnerTTL]
  /\ state \in [Tasks -> {"PENDING", "STARTED"} \cup Final]
  /\ worker \in [Tasks -> {"none", "queued", "started", "stored", "done"}]
  /\ left \in [Tasks -> 0..Deliveries]
  /\ asking \in [Tasks -> [at : DOMAIN Branches \cup {"none", "else", "successful", "failed"},
                           kept : Final \cup {None},
                           status : {None, "PENDING", "RUNNING", "COMPLETED", "FAILED",
                                     "STARTED", "SUCCESS", "FAILURE"}]]

(* Although the backend is read again for every step of an answer, while   *)
(* the worker goes on, the message is delivered again and results are      *)
(* evicted, a client gets a decision exactly when it is told that the task *)
(* is completed, and is given the error when it is told that it failed     *)
(* (get_score_task).                                                       *)
DecisionIffCompleted ==
  \A t \in Tasks : /\ told[t].decision <=> told[t].status = "COMPLETED"
                   /\ told[t].status = "FAILED" => told[t].error
=============================================================================
