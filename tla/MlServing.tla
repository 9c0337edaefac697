----------------------------- MODULE MlServing -----------------------------
(***************************************************************************)
(* The scoring engine of the ML service (src/ml/scoring/engine.py): the    *)
(* modalities of a request are inferred in parallel on the threads of one  *)
(* executor, each under a timeout, and a modality that fails or is late is *)
(* answered with the mean of the last real scores kept in Redis.           *)
(*                                                                         *)
(* One tenant.  A request slot is used once.  An inference may take for    *)
(* ever; a call to Redis may fail but returns.  Scores are whole numbers   *)
(* from 0 to Top, and means are rounded down.                              *)
(***************************************************************************)
EXTENDS Integers, Sequences, FiniteSets

CONSTANTS
  Requests,
  Modalities,   \* some of "structured", "text", "behavior"
  Loaded,       \* those whose model was loaded when the service started
  Threads,      \* threads of the event loop's executor
  KeepScores,   \* recent_scores_window, 100
  Threshold,    \* modality_failure_threshold, 50
  Cap,          \* length a failure window is cut to, Threshold * 4
  Horizon,      \* modality_failure_window_seconds, in ticks
  Scores,       \* what an inference may answer
  Default,      \* default_score, 0.5
  Top,          \* 1.0
  Earlier       \* the scores and failures of earlier requests, per modality

ASSUME ServingAssumption ==
  /\ Modalities \subseteq {"structured", "text", "behavior"}
  /\ Loaded \subseteq Modalities /\ IsFiniteSet(Requests)
  /\ Threads \in Nat \ {0} /\ KeepScores \in Nat \ {0} /\ Horizon \in Nat
  /\ Threshold \in Nat \ {0} /\ Cap \in Nat /\ Cap >= Threshold
  /\ Earlier \in [scores : Seq(Scores), failures : Seq({0})]
  /\ Top \in Nat \ {0} /\ Default \in 0..Top /\ Scores \subseteq 0..Top

VARIABLES
  work,      \* the stage of every modality of every request
  score,     \* what the modality answered, once its stage is "real" or "fallback"
  late,      \* threads held by an inference nobody waits for any more
  replies,   \* the fused score of every request answered, as a fraction
  record,    \* the background task that records a real score
  recent,    \* the list in Redis, per modality
  recorded,  \* every score pushed on it (kept for the properties)
  failures,  \* ages of the failures the engine remembers, oldest first
  failed     \* ages of every failure (kept for the properties)

servingVars ==
  <<work, score, late, replies, record, recent, recorded, failures, failed>>

NoReply == <<0, 0>>
Ended == {"real", "fallback"}
InferenceStages == {"new", "queued", "running", "lookup", "relookup"} \cup Ended

Running == late +
           Cardinality({p \in Requests \X Modalities : work[p[1]][p[2]] = "running"})

Lesser(a, b) == IF a < b THEN a ELSE b

(* The last, and the first, n elements of a sequence.                      *)
Newest(s, n) == SubSeq(s, Len(s) - Lesser(n, Len(s)) + 1, Len(s))
Oldest(s, n) == SubSeq(s, 1, Lesser(n, Len(s)))

ServingInit ==
  /\ work = [r \in Requests |-> [m \in Modalities |-> "new"]]
  /\ score = [r \in Requests |-> [m \in Modalities |-> 0]]
  /\ late = 0
  /\ replies = [r \in Requests |-> NoReply]
  /\ record = [r \in Requests |-> [m \in Modalities |-> "none"]]
  /\ recent = [m \in Modalities |-> Newest(Earlier.scores, KeepScores)]
  /\ recorded = [m \in Modalities |-> Earlier.scores]
  /\ failures = [m \in Modalities |-> Newest(Earlier.failures, Cap)]
  /\ failed = [m \in Modalities |-> Earlier.failures]

To(r, m, stage) == work' = [work EXCEPT ![r][m] = stage]

(* ---------------------------------------------------------- inference *)

(* A modality without a model, or whose input is empty or malformed, goes  *)
(* straight to the history; any other one waits for a thread.              *)
FirstStages(m) == IF m \in Loaded THEN {"queued", "lookup"} ELSE {"lookup"}

Start(r) ==
  /\ \A m \in Modalities : work[r][m] = "new"
  /\ \E first \in [Modalities -> {"queued", "lookup"}] :
       /\ \A m \in Modalities : first[m] \in FirstStages(m)
       /\ work' = [work EXCEPT ![r] = first]
  /\ UNCHANGED <<score, late, replies, record, recent, recorded, failures, failed>>

Run(r, m) ==
  /\ work[r][m] = "queued"
  /\ Running < Threads
  /\ To(r, m, "running")
  /\ UNCHANGED <<score, late, replies, record, recent, recorded, failures, failed>>

(* The inference answers, or raises.                                       *)
Infer(r, m) ==
  /\ work[r][m] = "running"
  /\ \/ \E s \in Scores : score' = [score EXCEPT ![r][m] = s] /\ To(r, m, "real")
     \/ To(r, m, "lookup") /\ UNCHANGED score
  /\ UNCHANGED <<late, replies, record, recent, recorded, failures, failed>>

TimeoutOnceStarted(r, m) ==
  /\ work[r][m] \in {"running", "lookup"}
  /\ To(r, m, "relookup")
  /\ late' = IF work[r][m] = "running" THEN late + 1 ELSE late
  /\ UNCHANGED <<score, replies, record, recent, recorded, failures, failed>>

(* wait_for gives up: a job not started is withdrawn, a running one keeps  *)
(* its thread.  The history is then read again, with no timeout.           *)
Timeout(r, m) ==
  /\ work[r][m] \in {"queued", "running", "lookup"}
  /\ To(r, m, "relookup")
  /\ late' = IF work[r][m] = "running" THEN late + 1 ELSE late
  /\ UNCHANGED <<score, replies, record, recent, recorded, failures, failed>>

LateEnds ==
  /\ late > 0
  /\ late' = late - 1
  /\ UNCHANGED <<work, score, replies, record, recent, recorded, failures, failed>>

(* ------------------------------------------------------- score history *)

Mean(s) ==
  LET sum[i \in 0..Len(s)] == IF i = 0 THEN 0 ELSE sum[i - 1] + s[i]
  IN  sum[Len(s)] \div Len(s)

(* LRANGE 0 .. Keep - 1.                                                   *)
Read(m) == Oldest(recent[m], KeepScores)

Lookup(r, m) ==
  /\ work[r][m] \in {"lookup", "relookup"}
  /\ \E s \in {Default} \cup (IF Read(m) = << >> THEN {} ELSE {Mean(Read(m))}) :
       score' = [score EXCEPT ![r][m] = s]
  /\ To(r, m, "fallback")
  /\ UNCHANGED <<late, replies, record, recent, recorded, failures, failed>>

(* RPUSH and LTRIM of one record task, which other tasks may come between. *)
Push(r, m) ==
  /\ record[r][m] = "push"
  /\ \/ /\ recent' = [recent EXCEPT ![m] = Append(@, score[r][m])]
        /\ recorded' = [recorded EXCEPT ![m] = Append(@, score[r][m])]
        /\ record' = [record EXCEPT ![r][m] = "trim"]
     \/ /\ record' = [record EXCEPT ![r][m] = "none"]
        /\ UNCHANGED <<recent, recorded>>
  /\ UNCHANGED <<work, score, late, replies, failures, failed>>

TrimNewest(r, m) ==
  /\ record[r][m] = "trim"
  /\ \/ recent' = [recent EXCEPT ![m] = Oldest(@, KeepScores)]
     \/ UNCHANGED recent
  /\ record' = [record EXCEPT ![r][m] = "none"]
  /\ UNCHANGED <<work, score, late, replies, recorded, failures, failed>>

Trim(r, m) ==
  /\ record[r][m] = "trim"
  /\ \/ recent' = [recent EXCEPT ![m] = Newest(@, KeepScores)]
     \/ UNCHANGED recent
  /\ record' = [record EXCEPT ![r][m] = "none"]
  /\ UNCHANGED <<work, score, late, replies, recorded, failures, failed>>

(* -------------------------------------------------------------- fusion *)

Weight(m) == IF m = "structured" THEN 12 ELSE 4
FallbackWeight == 1

(* A modality that fell back counts with its fallback weight.              *)
Effective(r, m) == IF work[r][m] = "fallback" THEN FallbackWeight ELSE Weight(m)

Fuse(r) ==
  LET weight(m) == IF m \in Modalities THEN Effective(r, m) ELSE 0
      weighted(m) == IF m \in Modalities THEN Effective(r, m) * score[r][m] ELSE 0
  IN  <<weighted("structured") + weighted("text") + weighted("behavior"),
        weight("structured") + weight("text") + weight("behavior")>>

(* ------------------------------------------------------ failure window *)

(* Failures beyond the horizon are dropped from the old end.               *)
Live(ages) ==
  LET live == {i \in DOMAIN ages : ages[i] <= Horizon}
  IN  IF live = {} THEN << >>
      ELSE SubSeq(ages, CHOOSE i \in live : \A j \in live : i <= j, Len(ages))

FailedForgetting(ages) == Newest(Append(Live(ages), 0), Threshold - 1)

Failed(ages) == Newest(Append(Live(ages), 0), Cap)

(* should_trigger_l3_kill_switch, which nothing calls.                     *)
ShouldTrigger(m) == Len(Live(failures[m])) >= Threshold

(* Whether the background task records the score: only an inferred one.    *)
FirstRecord(r, m) == IF work[r][m] = "real" THEN "push" ELSE "none"

(* The end of predict: real scores are handed to the background task, the  *)
(* failures noted, the scores fused.                                       *)
Respond(r) ==
  /\ \A m \in Modalities : work[r][m] \in Ended
  /\ replies[r] = NoReply
  /\ replies' = [replies EXCEPT ![r] = Fuse(r)]
  /\ record' = [record EXCEPT ![r] =
                  [m \in Modalities |-> FirstRecord(r, m)]]
  /\ failures' = [m \in Modalities |->
                    IF work[r][m] = "fallback" THEN Failed(failures[m])
                                               ELSE failures[m]]
  /\ failed' = [m \in Modalities |->
                  IF work[r][m] = "fallback" THEN Append(failed[m], 0)
                                             ELSE failed[m]]
  /\ UNCHANGED <<work, score, late, recent, recorded>>

(* One tick later; an age beyond the horizon is as good as any other.      *)
Older(ages) == [i \in DOMAIN ages |-> Lesser(ages[i] + 1, Horizon + 1)]

Tick ==
  /\ failures' = [m \in Modalities |-> Older(failures[m])]
  /\ failed' = [m \in Modalities |-> Older(failed[m])]
  /\ UNCHANGED <<work, score, late, replies, record, recent, recorded>>

Step(r, m) == Run(r, m) \/ Infer(r, m) \/ Timeout(r, m) \/ Lookup(r, m)
              \/ Push(r, m) \/ Trim(r, m)

ServingNext ==
  \/ \E r \in Requests : Start(r) \/ Respond(r)
  \/ \E r \in Requests, m \in Modalities : Step(r, m)
  \/ LateEnds \/ Tick

(* Timers fire, calls to Redis return and the event loop goes on; nothing  *)
(* is assumed of an inference.                                             *)
Fairness ==
  \A r \in Requests :
    /\ WF_servingVars(Respond(r))
    /\ \A m \in Modalities : /\ WF_servingVars(Timeout(r, m))
                             /\ WF_servingVars(Lookup(r, m))

ServingSpec == ServingInit /\ [][ServingNext]_servingVars /\ Fairness

(* ---------------------------------------------------------- properties *)

(* Types, and no more inferences at once than the executor has threads.    *)
ServingTypeOK ==
  /\ work \in [Requests -> [Modalities -> InferenceStages]]
  /\ score \in [Requests -> [Modalities -> 0..Top]]
  /\ late \in Nat /\ Running <= Threads
  /\ replies \in [Requests -> Nat \X Nat]
  /\ record \in [Requests -> [Modalities -> {"none", "push", "trim"}]]
  /\ {recent, recorded} \subseteq [Modalities -> Seq(0..Top)]
  /\ {failures, failed} \subseteq [Modalities -> Seq(0..(Horizon + 1))]

(* The list in Redis holds the newest scores recorded, in order, and never *)
(* fewer than the window although pushes and trims of concurrent tasks     *)
(* interleave and a trim may fail (record_score); and only scores a model  *)
(* inferred are recorded: the mean that answers for a broken modality is   *)
(* not fed back into the next mean (predict).                              *)
HistoryIsNewest ==
  \A m \in Modalities :
    /\ recent[m] = Newest(recorded[m], Len(recent[m]))
    /\ Len(recent[m]) >= Lesser(KeepScores, Len(recorded[m]))
    /\ \A i \in DOMAIN recorded[m] : recorded[m][i] \in Scores

(* The capped window of failures gives the same verdict on the modality as *)
(* the full record of its failures (should_trigger_l3_kill_switch).        *)
TriggerAgrees ==
  \A m \in Modalities : ShouldTrigger(m) <=> Len(Live(failed[m])) >= Threshold

(* Every request started is answered, whatever the inferences and the      *)
(* threads they hold do (_predict_with_timeout).                           *)
Answered ==
  \A r \in Requests :
    (\E m \in Modalities : work[r][m] # "new") ~> replies[r] # NoReply
=============================================================================
