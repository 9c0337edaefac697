-------------------------- MODULE WebhookDelivery --------------------------
(***************************************************************************)
(* Webhook events from the API process that records them to the merchant:   *)
(* an event record in Redis, a webhook.deliver message in the Celery broker,*)
(* worker processes that attempt one POST per message and schedule the next *)
(* message or write the final outcome into the record.                      *)
(*                                                                          *)
(* Celery acknowledges late and the broker is Redis: a message is delivered *)
(* again when its worker dies, and also when its countdown is longer than   *)
(* the broker's visibility timeout.  Each redelivery is a new copy of the   *)
(* message; copy 0 is the one dispatch_followup_tasks sent.                 *)
(***************************************************************************)
EXTENDS Naturals, Sequences, FiniteSets

CONSTANTS Events,            (* webhook events                              *)
          Workers,           (* Celery worker processes                     *)
          Countdowns,        (* RETRY_COUNTDOWNS, in seconds                *)
          VisibilityTimeout, (* of the Redis broker, in seconds             *)
          MaxRedeliveries,   (* bound of the model: redeliveries of an event*)
          NoMsg              (* an idle worker's message                    *)

ASSUME WebhookAssumption ==
  /\ Countdowns \in Seq(Nat)
  /\ VisibilityTimeout \in Nat
  /\ MaxRedeliveries \in Nat

VARIABLES
  events,    (* the record frd:webhook_event:{event}                        *)
  queue,     (* messages waiting in the broker, countdown running or over   *)
  copies,    (* redeliveries of each event so far                           *)
  pc,        (* where each worker is in the task                            *)
  msg,       (* the message it executes, unacknowledged                     *)
  attempt,   (* its attempt_no                                              *)
  verdict,   (* its result of _attempt_delivery                             *)
  record,    (* update_webhook_event's copy of the record                   *)
  posts,     (* history: POSTs made by each copy                            *)
  accepted,  (* history: classes of the answers below 400 the merchant gave *)
  announced, (* history: outcomes published on frd:ws_events                *)
  lost       (* history: a Redis or broker call about the event failed      *)

vars == <<events, queue, copies, pc, msg, attempt, verdict, record,
          posts, accepted, announced, lost>>
frame == <<pc, msg, attempt, verdict, record>>
history == <<posts, accepted, announced, lost>>

MaxRetries == Len(Countdowns)
Copies == 0..MaxRedeliveries
Message == [event : Events, retries : 0..MaxRetries, copy : Copies]

Statuses == {"MISSING", "PENDING", "DELIVERED", "DEAD_LETTERED"}
Terminal == {"DELIVERED", "DEAD_LETTERED"}
(* What an attempt meets: an HTTP answer of some class, nothing (network),  *)
(* or no POST at all because the configuration is refused or unavailable.   *)
Answers == {"2xx", "3xx", "4xx", "5xx", "timeout"}
Below400 == {"2xx", "3xx"}
NoPost == {"refused", "unavailable"}
Verdicts == {"none", "success", "permanent", "transient"}
Record == [status : Statuses, attempts : Nat, dead : BOOLEAN, reason : BOOLEAN]
NewRecord(s) == [status |-> s, attempts |-> 0, dead |-> FALSE, reason |-> FALSE]

ASSUME NoMsgAssumption == NoMsg \notin Message

TypeOK ==
  /\ events \in [Events -> Record]
  /\ queue \subseteq Message
  /\ copies \in [Events -> Copies]
  /\ pc \in [Workers -> {"idle", "load", "attempt", "settle", "read", "write", "finish", "ack"}]
  /\ msg \in [Workers -> Message \cup {NoMsg}]
  /\ \A w \in Workers : (msg[w] = NoMsg) <=> (pc[w] = "idle")
  /\ attempt \in [Workers -> Nat]
  /\ verdict \in [Workers -> Verdicts]
  /\ record \in [Workers -> Record]
  /\ posts \in [Events -> [Copies -> Nat]]
  /\ accepted \in [Events -> SUBSET Below400]
  /\ announced \in [Events -> SUBSET Terminal]
  /\ lost \in [Events -> BOOLEAN]

Init ==
  /\ events = [e \in Events |-> NewRecord("MISSING")]
  /\ queue = {}
  /\ copies = [e \in Events |-> 0]
  /\ pc = [w \in Workers |-> "idle"]
  /\ msg = [w \in Workers |-> NoMsg]
  /\ attempt = [w \in Workers |-> 0]
  /\ verdict = [w \in Workers |-> "none"]
  /\ record = [w \in Workers |-> NewRecord("MISSING")]
  /\ posts = [e \in Events |-> [k \in Copies |-> 0]]
  /\ accepted = [e \in Events |-> {}]
  /\ announced = [e \in Events |-> {}]
  /\ lost = [e \in Events |-> FALSE]

Lose(e) == lost' = [lost EXCEPT ![e] = TRUE]

-----------------------------------------------------------------------------
(* The API process: store_webhook_event, then send_task.  Either call may   *)
(* fail; the request goes on without it.  Without a record there is no      *)
(* event at all, without a message the record stays as it is.               *)
StoreEvent(e) ==
  /\ events[e].status = "MISSING"
  /\ events' = [events EXCEPT ![e] = NewRecord("PENDING")]
  /\ \/ /\ queue' = queue \cup {[event |-> e, retries |-> 0, copy |-> 0]}
        /\ UNCHANGED lost
     \/ /\ Lose(e)
        /\ UNCHANGED queue
  /\ UNCHANGED <<copies, frame, posts, accepted, announced>>

(* The broker.  A copy whose countdown outlasts the visibility timeout is   *)
(* still held by a worker when the broker hands it out once more.           *)
Fresh(m) == [m EXCEPT !.copy = copies[m.event] + 1]
NewCopy(e) ==
  /\ copies[e] < MaxRedeliveries
  /\ copies' = [copies EXCEPT ![e] = @ + 1]

OutlastsVisibility(m) == m.retries > 0 /\ Countdowns[m.retries] > VisibilityTimeout

Redeliver(m) ==
  /\ m \in queue
  /\ OutlastsVisibility(m)
  /\ NewCopy(m.event)
  /\ queue' = queue \cup {Fresh(m)}
  /\ UNCHANGED <<events, frame, history>>

-----------------------------------------------------------------------------
(* One execution of webhook.deliver.                                        *)
Goto(w, from, to) ==
  /\ pc[w] = from
  /\ pc' = [pc EXCEPT ![w] = to]

(* The worker is free again.                                                *)
Drop(w) ==
  /\ pc' = [pc EXCEPT ![w] = "idle"]
  /\ msg' = [msg EXCEPT ![w] = NoMsg]
  /\ attempt' = [attempt EXCEPT ![w] = 0]
  /\ verdict' = [verdict EXCEPT ![w] = "none"]
  /\ record' = [record EXCEPT ![w] = NewRecord("MISSING")]

Receive(w, m) ==
  /\ m \in queue
  /\ Goto(w, "idle", "load")
  /\ queue' = queue \ {m}
  /\ msg' = [msg EXCEPT ![w] = m]
  /\ UNCHANGED <<events, copies, attempt, verdict, record, history>>

LoadEvent(w) ==
  /\ Goto(w, "load", "attempt")
  /\ attempt' = [attempt EXCEPT ![w] = events[msg[w].event].attempts + 1]
  /\ UNCHANGED <<events, queue, copies, msg, verdict, record, history>>

(* get_webhook_event answers None when Redis fails: SKIPPED, for good.      *)
LoadFails(w) ==
  /\ Goto(w, "load", "ack")
  /\ Lose(msg[w].event)
  /\ UNCHANGED <<events, queue, copies, msg, attempt, verdict, record,
                 posts, accepted, announced>>

Verdict(answer) ==
  CASE answer \in {"2xx", "3xx"} -> "success"
    [] answer \in {"4xx", "refused"} -> "permanent"
    [] OTHER -> "transient"

(* _attempt_delivery: the configuration as it is now, then at most one POST.*)
AttemptDelivery(w) ==
  LET e == msg[w].event  k == msg[w].copy IN
  /\ Goto(w, "attempt", "settle")
  /\ \E answer \in Answers \cup NoPost :
       /\ verdict' = [verdict EXCEPT ![w] = Verdict(answer)]
       /\ IF answer \in NoPost
          THEN UNCHANGED <<posts, accepted>>
          ELSE /\ posts' = [posts EXCEPT ![e][k] = @ + 1]
               /\ accepted' = [accepted EXCEPT ![e] = @ \cup ({answer} \cap Below400)]
  /\ UNCHANGED <<events, queue, copies, msg, attempt, record, announced, lost>>

Retryable(w) == verdict[w] = "transient" /\ msg[w].retries < MaxRetries

(* task.retry without raising: the function goes on to the dead letter.     *)
ScheduleRetryAndFallThrough(w) ==
  /\ Goto(w, "settle", "read")
  /\ Retryable(w)
  /\ queue' = queue \cup {[msg[w] EXCEPT !.retries = @ + 1]}
  /\ UNCHANGED <<events, copies, msg, attempt, verdict, record, history>>

ScheduleSameRetry(w) ==
  /\ Goto(w, "settle", "ack")
  /\ Retryable(w)
  /\ queue' = queue \cup {msg[w]}
  /\ UNCHANGED <<events, copies, msg, attempt, verdict, record, history>>

(* task.retry publishes the next message and ends this one.                 *)
ScheduleRetry(w) ==
  /\ Goto(w, "settle", "ack")
  /\ Retryable(w)
  /\ queue' = queue \cup {[msg[w] EXCEPT !.retries = @ + 1]}
  /\ UNCHANGED <<events, copies, msg, attempt, verdict, record, history>>

(* The broker refuses the retry: Celery rejects the message, nothing follows.*)
RetryRejected(w) ==
  /\ Goto(w, "settle", "ack")
  /\ Retryable(w)
  /\ Lose(msg[w].event)
  /\ UNCHANGED <<events, queue, copies, msg, attempt, verdict, record,
                 posts, accepted, announced>>

Settle(w) ==
  /\ Goto(w, "settle", "read")
  /\ ~Retryable(w)
  /\ UNCHANGED <<events, queue, copies, msg, attempt, verdict, record, history>>

(* update_webhook_event: GET, then TTL and SET, with other workers between. *)
ReadRecord(w) ==
  /\ Goto(w, "read", "write")
  /\ record' = [record EXCEPT ![w] = events[msg[w].event]]
  /\ UNCHANGED <<events, queue, copies, msg, attempt, verdict, history>>

SaveOutcome(w, dead) ==
  /\ Goto(w, "write", "finish")
  /\ events' = [events EXCEPT ![msg[w].event] =
        [status |-> IF verdict[w] = "success" THEN "DELIVERED" ELSE "DEAD_LETTERED",
         attempts |-> attempt[w],
         dead |-> dead,
         reason |-> verdict[w] # "success" \/ record[w].reason]]
  /\ record' = [record EXCEPT ![w] = NewRecord("MISSING")]
  /\ UNCHANGED <<queue, copies, msg, attempt, verdict, history>>

(* The outcome of a success resets dead_letter and leaves the reason.       *)
WriteRecordKeepingDead(w) == SaveOutcome(w, verdict[w] # "success" \/ record[w].dead)
WriteRecord(w) == SaveOutcome(w, verdict[w] # "success")

UpdateFails(w) ==
  /\ pc[w] \in {"read", "write"}
  /\ pc' = [pc EXCEPT ![w] = "finish"]
  /\ record' = [record EXCEPT ![w] = NewRecord("MISSING")]
  /\ Lose(msg[w].event)
  /\ UNCHANGED <<events, queue, copies, msg, attempt, verdict,
                 posts, accepted, announced>>

(* Audit (dead letters) and the ws event; both swallow their failures.      *)
Finish(w) ==
  LET e == msg[w].event IN
  /\ Goto(w, "finish", "ack")
  /\ \/ announced' = [announced EXCEPT ![e] = @ \cup
            {IF verdict[w] = "success" THEN "DELIVERED" ELSE "DEAD_LETTERED"}]
     \/ UNCHANGED announced
  /\ UNCHANGED <<events, queue, copies, msg, attempt, verdict, record,
                 posts, accepted, lost>>

(* The task returned or raised; only now the message is acknowledged.       *)
Acknowledge(w) ==
  /\ pc[w] = "ack"
  /\ Drop(w)
  /\ UNCHANGED <<events, queue, copies, history>>

-----------------------------------------------------------------------------
CrashLosesMessage(w) ==
  /\ pc[w] # "idle"
  /\ NewCopy(msg[w].event)
  /\ Drop(w)
  /\ UNCHANGED <<events, queue, history>>

(* The worker process dies: task_reject_on_worker_lost puts it back.        *)
Crash(w) ==
  /\ pc[w] # "idle"
  /\ NewCopy(msg[w].event)
  /\ queue' = queue \cup {Fresh(msg[w])}
  /\ Drop(w)
  /\ UNCHANGED <<events, history>>

Task(w) ==
  \/ \E m \in queue : Receive(w, m)
  \/ LoadEvent(w) \/ LoadFails(w) \/ AttemptDelivery(w)
  \/ ScheduleRetry(w) \/ RetryRejected(w) \/ Settle(w)
  \/ ReadRecord(w) \/ WriteRecord(w) \/ UpdateFails(w)
  \/ Finish(w) \/ Acknowledge(w)

Next ==
  \/ \E e \in Events : StoreEvent(e)
  \/ \E m \in queue : Redeliver(m)
  \/ \E w \in Workers : Task(w) \/ Crash(w)

Spec == Init /\ [][Next]_vars

(* Workers keep consuming and finish what they started; nothing forces a    *)
(* new event, a crash or a redelivery.                                      *)
FairSpec == Spec /\ \A w \in Workers : WF_vars(Task(w))

-----------------------------------------------------------------------------
(* A message is retried at most Len(RETRY_COUNTDOWNS) times: no copy of it  *)
(* makes more than one POST for itself and one per retry.                   *)
AttemptBudget ==
  \A e \in Events, k \in Copies : posts[e][k] <= MaxRetries + 1

(* Whatever is delivered twice and whichever worker writes last, what the   *)
(* record and the published events say was earned: DELIVERED by an answer   *)
(* of the merchant, the dead letter's fields by the status, and nothing is  *)
(* published before the record is final (update_webhook_event).             *)
OutcomesAreEarned ==
  \A e \in Events :
    /\ events[e].status = "DELIVERED" \/ "DELIVERED" \in announced[e] => accepted[e] # {}
    /\ events[e].dead <=> events[e].status = "DEAD_LETTERED"
    /\ events[e].dead => events[e].reason
    /\ announced[e] # {} /\ ~lost[e] => events[e].status \in Terminal

(* As long as the broker never delivers a message twice, an event has one   *)
(* outcome: record, published event and the merchant's answers agree.       *)
OneOutcomeWithoutRedelivery ==
  \A e \in Events : copies[e] = 0 =>
    /\ Cardinality(announced[e]) <= 1
    /\ ~lost[e] => announced[e] \subseteq {events[e].status}
    /\ events[e].status = "DEAD_LETTERED" => accepted[e] = {}
    /\ events[e].reason => events[e].dead

(* An event's outcome is earned with redelivery and single without it.      *)
OutcomesAgree == OutcomesAreEarned /\ OneOutcomeWithoutRedelivery

(* Without redelivery nothing rewrites a record in its final state; with it *)
(* the task, which never looks at the record's status, does.                *)
TerminalStableWithoutRedelivery ==
  [][\A e \in Events :
        copies[e] = 0 /\ events[e].status \in Terminal => events'[e] = events[e]]_events

(* Redelivered or not, a record says DELIVERED only if the merchant answered*)
(* one POST of the event with a status below 400.                           *)
DeliveredWasAnswered ==
  \A e \in Events :
    events[e].status = "DELIVERED" => accepted[e] # {}

(* Crashes and duplicates do not leave an event PENDING: only a failed call *)
(* to Redis or to the broker can.  Retries end: sooner or later no message  *)
(* of any event is left.                                                    *)
PendingIsSettled ==
  /\ \A e \in Events :
       events[e].status = "PENDING" ~> (events[e].status \in Terminal \/ lost[e])
  /\ <>[](queue = {} /\ \A w \in Workers : pc[w] = "idle")
=============================================================================
