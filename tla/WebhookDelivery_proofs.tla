---------------------- MODULE WebhookDelivery_proofs ----------------------
(***************************************************************************)
(* For any number of events, workers, countdowns and redeliveries: a copy of*)
(* a message stays within its attempts, a DELIVERED record was answered, and*)
(* an event that was never redelivered has one outcome.                     *)
(***************************************************************************)
EXTENDS WebhookDelivery, FiniteSetTheorems, TLAPS

Pcs == {"idle", "load", "attempt", "settle", "read", "write", "finish", "ack"}

(* A message still counts for its copy until the task's fate is decided:    *)
(* at "ack" a retry of it may be on its way.                                *)
Busy(w) == pc[w] # "idle"
Holds(w) == pc[w] \notin {"idle", "ack"}
Same(m, n) == m.event = n.event /\ m.copy = n.copy

(* One message of each copy at a time.                                      *)
CopyInv ==
  /\ \A m \in queue : m.copy <= copies[m.event]
  /\ \A w \in Workers : Busy(w) => msg[w].copy <= copies[msg[w].event]
  /\ \A m, n \in queue : Same(m, n) => m = n
  /\ \A m \in queue, w \in Workers : Holds(w) => ~Same(m, msg[w])
  /\ \A v, w \in Workers : Holds(v) /\ Holds(w) /\ Same(msg[v], msg[w]) => v = w
  /\ \A e \in Events : events[e].status = "MISSING" =>
       /\ \A m \in queue : m.event # e
       /\ \A w \in Workers : Busy(w) => msg[w].event # e

(* A message's retries are the POSTs its copy has made.                     *)
PostsOf(m) == posts[m.event][m.copy]

BudgetInv ==
  /\ \A e \in Events, k \in Copies : posts[e][k] <= MaxRetries + 1
  /\ \A e \in Events, k \in Copies :
       k > copies[e] \/ events[e].status = "MISSING" => posts[e][k] = 0
  /\ \A m \in queue : PostsOf(m) <= m.retries
  /\ \A w \in Workers : pc[w] \in {"load", "attempt"} => PostsOf(msg[w]) <= msg[w].retries
  /\ \A w \in Workers : Holds(w) => PostsOf(msg[w]) <= msg[w].retries + 1

(* What a verdict says of the merchant's answers.                           *)
AnsweredInv ==
  /\ \A w \in Workers : pc[w] \in {"idle", "load", "attempt"} => verdict[w] = "none"
  /\ \A w \in Workers : Busy(w) /\ verdict[w] = "success" => accepted[msg[w].event] # {}
  /\ \A e \in Events : events[e].status = "DELIVERED" => accepted[e] # {}

(* A worker publishes once the record is final or a call failed.            *)
EarnedInv ==
  /\ OutcomesAreEarned
  /\ \A w \in Workers :
       LET e == msg[w].event IN
       pc[w] = "finish" /\ ~lost[e] => events[e].status \in Terminal

(* The way of the only message of an event that was never redelivered.      *)
Open(e) == events[e].status = "PENDING" /\ announced[e] = {}
Outcome(w) == IF verdict[w] = "success" THEN "DELIVERED" ELSE "DEAD_LETTERED"
OnItsWay(w) ==
  LET e == msg[w].event IN
  /\ announced[e] = {}
  /\ pc[w] # "finish" => events[e].status = "PENDING"
  /\ pc[w] \in {"load", "attempt"} => accepted[e] = {}
  /\ pc[w] \notin {"load", "attempt"} /\ verdict[w] # "success" => accepted[e] = {}
  /\ pc[w] = "write" => ~record[w].reason
  /\ pc[w] = "finish" /\ ~lost[e] => events[e].status = Outcome(w)

EventInv(e) ==
  /\ \/ announced[e] = {}
     \/ \E s \in Terminal : announced[e] = {s}
  /\ ~lost[e] => announced[e] \subseteq {events[e].status}
  /\ events[e].status = "MISSING" => announced[e] = {} /\ accepted[e] = {}
  /\ events[e].status = "DEAD_LETTERED" => accepted[e] = {}
  /\ events[e].dead <=> events[e].status = "DEAD_LETTERED"
  /\ events[e].reason <=> events[e].dead
  /\ \A m \in queue : m.event = e => Open(e) /\ accepted[e] = {}
  /\ \A w \in Workers : Holds(w) /\ msg[w].event = e => OnItsWay(w)

OutcomeInv == \A e \in Events : copies[e] = 0 => EventInv(e)

-----------------------------------------------------------------------------
LEMMA MaxRetriesType == MaxRetries \in Nat
  BY WebhookAssumption DEF MaxRetries

LEMMA InitType == Init => TypeOK
  BY WebhookAssumption DEF Init, TypeOK, NewRecord, Record, Statuses, Verdicts, Copies

LEMMA NewRecordType ==
  ASSUME NEW s \in Statuses
  PROVE  NewRecord(s) \in Record
  BY DEF NewRecord, Record

(* The messages the actions make are messages.                              *)
LEMMA FreshType ==
  ASSUME TypeOK, NEW m \in Message, copies[m.event] < MaxRedeliveries
  PROVE  /\ Fresh(m) \in Message
         /\ Fresh(m).event = m.event
         /\ Fresh(m).retries = m.retries
         /\ Fresh(m).copy = copies[m.event] + 1
<1>1. m.event \in Events /\ m.retries \in 0..MaxRetries
  BY DEF Message
<1>2. copies[m.event] + 1 \in Copies
  BY <1>1, WebhookAssumption DEF Copies, TypeOK
<1> QED
  BY <1>1, <1>2 DEF Fresh, Message

LEMMA RetryType ==
  ASSUME NEW m \in Message, m.retries < MaxRetries
  PROVE  /\ [m EXCEPT !.retries = @ + 1] \in Message
         /\ [m EXCEPT !.retries = @ + 1].event = m.event
         /\ [m EXCEPT !.retries = @ + 1].copy = m.copy
         /\ [m EXCEPT !.retries = @ + 1].retries = m.retries + 1
  BY MaxRetriesType DEF Message

LEMMA HeldType ==
  ASSUME TypeOK, NEW w \in Workers, pc[w] # "idle"
  PROVE  /\ msg[w] \in Message
         /\ msg[w].event \in Events
         /\ msg[w].copy \in Copies
         /\ msg[w].retries \in 0..MaxRetries
  BY DEF TypeOK, Message

LEMMA NewCopyType ==
  ASSUME TypeOK, NEW e \in Events, NewCopy(e)
  PROVE  /\ copies[e] < MaxRedeliveries
         /\ copies' \in [Events -> Copies]
         /\ copies'[e] = copies[e] + 1
         /\ \A f \in Events \ {e} : copies'[f] = copies[f]
         /\ \A f \in Events : /\ copies[f] \in Nat /\ copies'[f] \in Nat
                              /\ copies[f] <= copies'[f]
<1>1. copies[e] + 1 \in Copies
  BY WebhookAssumption DEF NewCopy, Copies, TypeOK
<1>2. /\ copies[e] < MaxRedeliveries
      /\ copies' \in [Events -> Copies]
      /\ copies'[e] = copies[e] + 1
      /\ \A f \in Events \ {e} : copies'[f] = copies[f]
  BY <1>1 DEF NewCopy, TypeOK
<1>3. \A f \in Events : copies[f] \in Nat
  BY WebhookAssumption DEF Copies, TypeOK
<1>4. \A f \in Events : copies[f] <= copies'[f] /\ copies'[f] \in Nat
  BY <1>2, <1>3
<1> QED
  BY <1>2, <1>3, <1>4

LEMMA MessageTypes ==
  ASSUME TypeOK
  PROVE  /\ \A m \in queue : m.event \in Events /\ m.copy \in Copies /\ m.copy \in Nat
         /\ \A m \in queue : m.retries \in 0..MaxRetries
         /\ \A w \in Workers : Busy(w) =>
              /\ msg[w].event \in Events /\ msg[w].copy \in Copies /\ msg[w].copy \in Nat
              /\ msg[w].retries \in 0..MaxRetries
<1>1. \A m \in Message : /\ m.event \in Events /\ m.copy \in Copies
                         /\ m.retries \in 0..MaxRetries
  BY DEF Message
<1>2. \A k \in Copies : k \in Nat
  BY WebhookAssumption DEF Copies
<1>3. queue \subseteq Message /\ \A w \in Workers : Busy(w) => msg[w] \in Message
  BY HeldType DEF TypeOK, Busy
<1> QED
  BY <1>1, <1>2, <1>3

LEMMA TypeStep == TypeOK /\ [Next]_vars => TypeOK'
<1> SUFFICES ASSUME TypeOK, [Next]_vars PROVE TypeOK'
  OBVIOUS
<1> USE WebhookAssumption, NoMsgAssumption DEF history, frame
<1>1. ASSUME NEW e \in Events, StoreEvent(e) PROVE TypeOK'
  <2>1. [event |-> e, retries |-> 0, copy |-> 0] \in Message
    BY MaxRetriesType DEF Message, Copies
  <2>2. NewRecord("PENDING") \in Record
    BY NewRecordType DEF Statuses
  <2> QED
    BY <1>1, <2>1, <2>2 DEF StoreEvent, Lose, TypeOK
<1>2. ASSUME NEW m \in queue, Redeliver(m) PROVE TypeOK'
  <2>1. m \in Message /\ m.event \in Events
    BY DEF TypeOK, Message
  <2>2. copies' \in [Events -> Copies] /\ copies[m.event] < MaxRedeliveries
    BY <1>2, <2>1, NewCopyType DEF Redeliver
  <2>3. Fresh(m) \in Message
    BY <2>1, <2>2, FreshType
  <2> QED
    BY <1>2, <2>2, <2>3 DEF Redeliver, TypeOK
<1>3. ASSUME NEW w \in Workers, Task(w) PROVE TypeOK'
  <2>1. ASSUME NEW m \in queue, Receive(w, m) PROVE TypeOK'
    BY <2>1 DEF Receive, Goto, TypeOK
  <2>2. CASE LoadEvent(w)
    <3>1. pc[w] = "load"
      BY <2>2 DEF LoadEvent, Goto
    <3>2. events[msg[w].event].attempts \in Nat
      BY <3>1, HeldType DEF TypeOK, Record
    <3> QED
      BY <2>2, <3>2 DEF LoadEvent, Goto, TypeOK
  <2>3. CASE LoadFails(w)
    BY <2>3 DEF LoadFails, Goto, Lose, TypeOK
  <2>4. CASE AttemptDelivery(w)
    <3>1. /\ pc[w] = "attempt"
          /\ pc' = [pc EXCEPT ![w] = "settle"]
      BY <2>4 DEF AttemptDelivery, Goto
    <3>2. PICK answer \in Answers \cup NoPost :
            /\ verdict' = [verdict EXCEPT ![w] = Verdict(answer)]
            /\ IF answer \in NoPost
               THEN UNCHANGED <<posts, accepted>>
               ELSE /\ posts' = [posts EXCEPT ![msg[w].event][msg[w].copy] = @ + 1]
                    /\ accepted' = [accepted EXCEPT ![msg[w].event] =
                                      @ \cup ({answer} \cap Below400)]
      BY <2>4 DEF AttemptDelivery
    <3> DEFINE e == msg[w].event  k == msg[w].copy
    <3>5. e \in Events /\ k \in Copies
      BY <3>1, HeldType
    <3>6. [posts[e] EXCEPT ![k] = @ + 1] \in [Copies -> Nat]
      BY <3>5 DEF TypeOK
    <3>7. [posts EXCEPT ![e] = [posts[e] EXCEPT ![k] = @ + 1]] \in [Events -> [Copies -> Nat]]
      BY <3>5, <3>6 DEF TypeOK
    <3>8. [accepted EXCEPT ![e] = @ \cup ({answer} \cap Below400)]
            \in [Events -> SUBSET Below400]
      BY <3>5 DEF TypeOK
    <3>3. posts' \in [Events -> [Copies -> Nat]] /\ accepted' \in [Events -> SUBSET Below400]
      BY <3>2, <3>7, <3>8 DEF TypeOK
    <3>4. verdict' \in [Workers -> Verdicts]
      BY <3>2 DEF Verdict, Verdicts, TypeOK
    <3> QED
      BY <2>4, <3>1, <3>3, <3>4 DEF AttemptDelivery, TypeOK
  <2>5. CASE ScheduleRetry(w)
    <3>1. pc[w] = "settle" /\ msg[w].retries < MaxRetries
      BY <2>5 DEF ScheduleRetry, Goto, Retryable
    <3>2. [msg[w] EXCEPT !.retries = @ + 1] \in Message
      BY <3>1, HeldType, RetryType
    <3> QED
      BY <2>5, <3>2 DEF ScheduleRetry, Goto, TypeOK
  <2>6. CASE RetryRejected(w)
    BY <2>6 DEF RetryRejected, Goto, Lose, TypeOK
  <2>7. CASE Settle(w)
    BY <2>7 DEF Settle, Goto, TypeOK
  <2>8. CASE ReadRecord(w)
    <3>1. pc[w] = "read"
      BY <2>8 DEF ReadRecord, Goto
    <3> QED
      BY <2>8, <3>1, HeldType DEF ReadRecord, Goto, TypeOK
  <2>9. CASE WriteRecord(w)
    <3>1. pc[w] = "write"
      BY <2>9 DEF WriteRecord, SaveOutcome, Goto
    <3>2. events' \in [Events -> Record]
      BY <2>9, <3>1, HeldType DEF WriteRecord, SaveOutcome, Record, Statuses, TypeOK
    <3> QED
      BY <2>9, <3>2, NewRecordType DEF WriteRecord, SaveOutcome, Goto, Statuses, TypeOK
  <2>10. CASE UpdateFails(w)
    BY <2>10, NewRecordType DEF UpdateFails, Lose, Statuses, TypeOK
  <2>11. CASE Finish(w)
    <3>1. msg[w].event \in Events
      BY <2>11, HeldType DEF Finish, Goto
    <3>2. announced' \in [Events -> SUBSET Terminal]
      <4>1. CASE UNCHANGED announced
        BY <4>1 DEF TypeOK
      <4>2. ASSUME NEW s \in Terminal,
                   announced' = [announced EXCEPT ![msg[w].event] = @ \cup {s}]
            PROVE  announced' \in [Events -> SUBSET Terminal]
        BY <3>1, <4>2 DEF TypeOK
      <4> QED
        BY <2>11, <4>1, <4>2 DEF Finish, Terminal
    <3> QED
      BY <2>11, <3>2 DEF Finish, Goto, TypeOK
  <2>12. CASE Acknowledge(w)
    BY <2>12, NewRecordType DEF Acknowledge, Drop, Statuses, Verdicts, TypeOK
  <2> QED
    BY <1>3, <2>1, <2>2, <2>3, <2>4, <2>5, <2>6, <2>7, <2>8, <2>9, <2>10, <2>11, <2>12
    DEF Task
<1>4. ASSUME NEW w \in Workers, Crash(w) PROVE TypeOK'
  <2>1. msg[w] \in Message /\ msg[w].event \in Events
    BY <1>4, HeldType DEF Crash
  <2>2. copies' \in [Events -> Copies] /\ copies[msg[w].event] < MaxRedeliveries
    BY <1>4, <2>1, NewCopyType DEF Crash
  <2>3. Fresh(msg[w]) \in Message
    BY <2>1, <2>2, FreshType
  <2>4. NewRecord("MISSING") \in Record
    BY NewRecordType DEF Statuses
  <2> QED
    BY <1>4, <2>2, <2>3, <2>4 DEF Crash, Drop, Verdicts, TypeOK
<1>5. CASE UNCHANGED vars
  BY <1>5 DEF vars, TypeOK
<1> QED
  BY <1>1, <1>2, <1>3, <1>4, <1>5 DEF Next

(* Records, messages, workers and counters keep their types.                *)
THEOREM WebhookTypeCorrect == Spec => []TypeOK
  BY InitType, TypeStep, PTL DEF Spec

-----------------------------------------------------------------------------
(* A step of the worker w that takes, sends and loses no message.           *)
Stays(w) ==
  /\ UNCHANGED <<queue, copies, msg>>
  /\ \A v \in Workers : Busy(v)' => Busy(v)
  /\ \A v \in Workers : Holds(v)' => Holds(v)
  /\ \A v \in Workers \ {w} : pc'[v] = pc[v]
  /\ \A e \in Events : events'[e].status = "MISSING" => events[e].status = "MISSING"

LEMMA TaskStays ==
  ASSUME TypeOK, NEW w \in Workers,
         \/ LoadEvent(w) \/ LoadFails(w) \/ AttemptDelivery(w) \/ RetryRejected(w)
         \/ Settle(w) \/ ReadRecord(w) \/ WriteRecord(w) \/ UpdateFails(w) \/ Finish(w)
  PROVE  Stays(w)
<1>1. CASE WriteRecord(w)
  <2>1. pc[w] = "write" /\ msg[w].event \in Events
    BY <1>1, HeldType DEF WriteRecord, SaveOutcome, Goto
  <2>2. \A e \in Events : events'[e].status = "MISSING" => events[e].status = "MISSING"
    BY <1>1, <2>1 DEF WriteRecord, SaveOutcome, TypeOK
  <2> QED
    BY <1>1, <2>1, <2>2 DEF WriteRecord, SaveOutcome, Goto, Stays, Busy, Holds, TypeOK
<1>2. CASE ~WriteRecord(w)
  BY <1>2
  DEF LoadEvent, LoadFails, AttemptDelivery, RetryRejected, Settle, ReadRecord,
      UpdateFails, Finish, Goto, Stays, Busy, Holds, TypeOK
<1> QED
  BY <1>1, <1>2

LEMMA CopyStep == TypeOK /\ CopyInv /\ [Next]_vars => CopyInv'
<1> SUFFICES ASSUME TypeOK, CopyInv, [Next]_vars PROVE CopyInv'
  OBVIOUS
<1> USE WebhookAssumption DEF history, frame
<1>1. ASSUME NEW e \in Events, StoreEvent(e) PROVE CopyInv'
  <2> DEFINE first == [event |-> e, retries |-> 0, copy |-> 0]
  <2>1. UNCHANGED <<copies, pc, msg>> /\ queue' \subseteq queue \cup {first}
    BY <1>1 DEF StoreEvent
  <2>2. /\ \A m \in queue : m.event # e
        /\ \A w \in Workers : Busy(w) => msg[w].event # e
    BY <1>1 DEF StoreEvent, CopyInv
  <2>3. \A f \in Events : events'[f].status = "MISSING" =>
          f # e /\ events[f].status = "MISSING"
    BY <1>1 DEF StoreEvent, NewRecord, TypeOK
  <2>4. copies[e] >= 0
    BY DEF TypeOK, Copies
  <2>5. \A m \in queue' : m.copy <= copies'[m.event]
    BY <2>1, <2>4 DEF CopyInv
  <2>6. \A m, n \in queue' : Same(m, n) => m = n
    BY <2>1, <2>2 DEF CopyInv, Same
  <2>7. \A m \in queue', w \in Workers : Holds(w)' => ~Same(m, msg'[w])
    BY <2>1, <2>2 DEF CopyInv, Same, Holds, Busy
  <2> QED
    BY <2>1, <2>3, <2>5, <2>6, <2>7 DEF CopyInv, Same, Holds, Busy
<1>2. ASSUME NEW m \in queue, Redeliver(m) PROVE CopyInv'
  <2>1. m \in Message /\ m.event \in Events
    BY DEF TypeOK, Message
  <2>2. NewCopy(m.event) /\ queue' = queue \cup {Fresh(m)} /\ UNCHANGED <<events, pc, msg>>
    BY <1>2 DEF Redeliver
  <2>3. Fresh(m).event = m.event /\ Fresh(m).copy = copies[m.event] + 1
    BY <2>1, <2>2, FreshType, NewCopyType
  <2>4. \A f \in Events : copies[f] \in Nat /\ copies'[f] \in Nat /\ copies[f] <= copies'[f]
    BY <2>1, <2>2, NewCopyType
  <2>5. \A n \in queue : n.event \in Events /\ n.copy \in Nat
    BY MessageTypes
  <2>6. \A w \in Workers : Busy(w) => msg[w].event \in Events /\ msg[w].copy \in Nat
    BY MessageTypes
  <2>7. \A n \in queue' : n.copy <= copies'[n.event]
    BY <2>1, <2>2, <2>3, <2>4, <2>5, NewCopyType DEF CopyInv
  <2>8. \A w \in Workers : Busy(w)' => msg'[w].copy <= copies'[msg'[w].event]
    BY <2>2, <2>4, <2>6 DEF CopyInv, Busy
  <2>9. \A n \in queue : ~Same(n, Fresh(m)) /\ ~Same(Fresh(m), n)
    BY <2>1, <2>3, <2>4, <2>5 DEF CopyInv, Same
  <2>10. \A w \in Workers : Busy(w) => ~Same(Fresh(m), msg[w])
    BY <2>1, <2>3, <2>4, <2>6 DEF CopyInv, Same
  <2>11. \A n, k \in queue' : Same(n, k) => n = k
    BY <2>2, <2>9 DEF CopyInv
  <2>12. \A n \in queue', w \in Workers : Holds(w)' => ~Same(n, msg'[w])
    BY <2>2, <2>10 DEF CopyInv, Holds, Busy
  <2>13. \A e \in Events : events[e].status = "MISSING" => \A n \in queue' : n.event # e
    BY <2>1, <2>2, <2>3 DEF CopyInv
  <2> QED
    BY <2>2, <2>7, <2>8, <2>11, <2>12, <2>13 DEF CopyInv, Holds, Busy
<1>3. ASSUME NEW w \in Workers, NEW m \in queue, Receive(w, m) PROVE CopyInv'
  <2>1. /\ queue' = queue \ {m}
        /\ msg'[w] = m /\ pc[w] = "idle" /\ pc'[w] = "load"
        /\ \A v \in Workers \ {w} : msg'[v] = msg[v] /\ pc'[v] = pc[v]
        /\ UNCHANGED <<events, copies>>
    BY <1>3 DEF Receive, Goto, TypeOK
  <2>2. \A n \in queue' : ~Same(n, m)
    BY <2>1 DEF CopyInv
  <2>3. \A v \in Workers : Holds(v) => ~Same(m, msg[v])
    BY DEF CopyInv
  <2>4. \A n \in queue', v \in Workers : Holds(v)' => ~Same(n, msg'[v])
    BY <2>1, <2>2 DEF CopyInv, Holds
  <2>5. \A u, v \in Workers : Holds(u)' /\ Holds(v)' /\ Same(msg'[u], msg'[v]) => u = v
    BY <2>1, <2>3 DEF CopyInv, Holds, Same
  <2> QED
    BY <2>1, <2>4, <2>5 DEF CopyInv, Busy
<1>4. ASSUME NEW w \in Workers, Stays(w) PROVE CopyInv'
  BY <1>4 DEF Stays, CopyInv
<1>5. ASSUME NEW w \in Workers, ScheduleRetry(w) PROVE CopyInv'
  <2> DEFINE next == [msg[w] EXCEPT !.retries = @ + 1]
  <2>1. pc[w] = "settle" /\ msg[w].retries < MaxRetries
    BY <1>5 DEF ScheduleRetry, Goto, Retryable
  <2>2. next.event = msg[w].event /\ next.copy = msg[w].copy
    BY <2>1, HeldType, RetryType
  <2>3. /\ queue' = queue \cup {next}
        /\ pc'[w] = "ack" /\ \A v \in Workers \ {w} : pc'[v] = pc[v]
        /\ UNCHANGED <<events, copies, msg>>
    BY <1>5 DEF ScheduleRetry, Goto, TypeOK
  <2> HIDE DEF next
  <2>4. Holds(w) /\ Busy(w)
    BY <2>1 DEF Holds, Busy
  <2>5. \A n \in queue : ~Same(n, next) /\ ~Same(next, n)
    BY <2>2, <2>4 DEF CopyInv, Same
  <2>6. \A v \in Workers \ {w} : Holds(v) => ~Same(next, msg[v])
    BY <2>2, <2>4 DEF CopyInv, Same
  <2>7. \A n \in queue' : n.copy <= copies'[n.event]
    BY <2>2, <2>3, <2>4 DEF CopyInv
  <2>8. \A e \in Events : events[e].status = "MISSING" => \A n \in queue' : n.event # e
    BY <2>2, <2>3, <2>4 DEF CopyInv
  <2>9. \A v \in Workers : (Holds(v)' => v # w /\ Holds(v)) /\ (Busy(v)' => Busy(v))
    BY <2>3, <2>4 DEF Holds, Busy
  <2>10. \A n, k \in queue' : Same(n, k) => n = k
    BY <2>3, <2>5 DEF CopyInv
  <2>11. \A n \in queue', v \in Workers : Holds(v)' => ~Same(n, msg'[v])
    BY <2>3, <2>6, <2>9 DEF CopyInv
  <2> QED
    BY <2>3, <2>7, <2>8, <2>9, <2>10, <2>11 DEF CopyInv
<1>6. ASSUME NEW w \in Workers, Acknowledge(w) PROVE CopyInv'
  <2>1. UNCHANGED <<events, queue, copies>> /\ ~Busy(w)' /\ ~Holds(w)'
    BY <1>6 DEF Acknowledge, Drop, Busy, Holds, TypeOK
  <2>2. \A v \in Workers \ {w} : pc'[v] = pc[v] /\ msg'[v] = msg[v]
    BY <1>6 DEF Acknowledge, Drop, TypeOK
  <2> QED
    BY <2>1, <2>2 DEF CopyInv, Busy, Holds
<1>7. ASSUME NEW w \in Workers, Crash(w) PROVE CopyInv'
  <2> DEFINE again == Fresh(msg[w])  e == msg[w].event
  <2>1. Busy(w) /\ msg[w] \in Message /\ e \in Events
    BY <1>7, HeldType DEF Crash, Busy
  <2>2. NewCopy(e) /\ queue' = queue \cup {again} /\ UNCHANGED events
    BY <1>7 DEF Crash
  <2>3. ~Busy(w)' /\ ~Holds(w)'
    BY <1>7 DEF Crash, Drop, Busy, Holds, TypeOK
  <2>4. \A v \in Workers \ {w} : pc'[v] = pc[v] /\ msg'[v] = msg[v]
    BY <1>7 DEF Crash, Drop, TypeOK
  <2>5. again.event = e /\ again.copy = copies[e] + 1
    BY <2>1, <2>2, FreshType, NewCopyType
  <2> HIDE DEF again
  <2>6. \A f \in Events : copies[f] \in Nat /\ copies'[f] \in Nat /\ copies[f] <= copies'[f]
    BY <2>1, <2>2, NewCopyType
  <2>7. \A n \in queue : n.event \in Events /\ n.copy \in Nat
    BY MessageTypes
  <2>8. \A v \in Workers : Busy(v) => msg[v].event \in Events /\ msg[v].copy \in Nat
    BY MessageTypes
  <2>9. \A n \in queue' : n.copy <= copies'[n.event]
    BY <2>1, <2>2, <2>5, <2>6, <2>7, NewCopyType DEF CopyInv
  <2>10. \A v \in Workers \ {w} : Busy(v)' => msg'[v].copy <= copies'[msg'[v].event]
    BY <2>4, <2>6, <2>8 DEF CopyInv, Busy
  <2>11. \A n \in queue : ~Same(n, again) /\ ~Same(again, n)
    BY <2>1, <2>5, <2>6, <2>7 DEF CopyInv, Same
  <2>12. \A v \in Workers : Busy(v) => ~Same(again, msg[v])
    BY <2>1, <2>5, <2>6, <2>8 DEF CopyInv, Same
  <2>13. \A n, k \in queue' : Same(n, k) => n = k
    BY <2>2, <2>11 DEF CopyInv
  <2>14. \A n \in queue', v \in Workers : Holds(v)' => ~Same(n, msg'[v])
    BY <2>2, <2>3, <2>4, <2>12 DEF CopyInv, Holds, Busy
  <2>15. \A f \in Events : events[f].status = "MISSING" => \A n \in queue' : n.event # f
    BY <2>1, <2>2, <2>5 DEF CopyInv
  <2>16. \A u, v \in Workers : Holds(u)' /\ Holds(v)' /\ Same(msg'[u], msg'[v]) => u = v
    BY <2>3, <2>4 DEF CopyInv, Holds
  <2>17. \A f \in Events, v \in Workers :
           events[f].status = "MISSING" /\ Busy(v)' => msg'[v].event # f
    BY <2>3, <2>4 DEF CopyInv, Busy
  <2> QED
    BY <2>2, <2>3, <2>9, <2>10, <2>13, <2>14, <2>15, <2>16, <2>17 DEF CopyInv
<1>8. CASE UNCHANGED vars
  BY <1>8 DEF vars, CopyInv, Busy, Holds
<1> QED
  BY <1>1, <1>2, <1>3, <1>4, <1>5, <1>6, <1>7, <1>8, TaskStays DEF Next, Task

-----------------------------------------------------------------------------
LEMMA BudgetStep == TypeOK /\ CopyInv /\ BudgetInv /\ [Next]_vars => BudgetInv'
<1> SUFFICES ASSUME TypeOK, CopyInv, BudgetInv, [Next]_vars PROVE BudgetInv'
  OBVIOUS
<1> USE WebhookAssumption DEF history, frame
<1>0. \A e \in Events, k \in Copies : posts[e][k] \in Nat
  BY DEF TypeOK
<1>1. ASSUME NEW e \in Events, StoreEvent(e) PROVE BudgetInv'
  <2> DEFINE first == [event |-> e, retries |-> 0, copy |-> 0]
  <2>1. UNCHANGED <<copies, pc, msg, posts>> /\ queue' \subseteq queue \cup {first}
    BY <1>1 DEF StoreEvent
  <2>2. posts[e][0] = 0
    BY <1>1 DEF StoreEvent, BudgetInv, Copies
  <2>3. \A f \in Events : events'[f].status = "MISSING" => events[f].status = "MISSING"
    BY <1>1 DEF StoreEvent, NewRecord, TypeOK
  <2>4. PostsOf(first) <= first.retries
    BY <2>2 DEF PostsOf
  <2> HIDE DEF first
  <2>5. \A m \in queue' : PostsOf(m) <= m.retries
    BY <2>1, <2>4 DEF BudgetInv
  <2> QED
    BY <2>1, <2>3, <2>5 DEF BudgetInv, PostsOf, Holds
<1>2. ASSUME NEW m \in Message, NewCopy(m.event), queue' = queue \cup {Fresh(m)},
             UNCHANGED <<events, posts>>,
             \A v \in Workers : pc'[v] = "idle" \/ (pc'[v] = pc[v] /\ msg'[v] = msg[v])
      PROVE  BudgetInv'
  <2>1. m.event \in Events /\ m.retries \in Nat
    BY MaxRetriesType DEF Message
  <2>2. /\ Fresh(m) \in Message
        /\ Fresh(m).event = m.event /\ Fresh(m).copy = copies[m.event] + 1
        /\ Fresh(m).retries = m.retries
    BY <1>2, <2>1, FreshType, NewCopyType
  <2>3. Fresh(m).copy \in Copies
    BY <2>2 DEF Message
  <2>4. posts[m.event][Fresh(m).copy] = 0
    BY <1>2, <2>1, <2>2, <2>3, NewCopyType DEF BudgetInv
  <2>5. \A n \in queue' : (PostsOf(n) <= n.retries)'
    BY <1>2, <2>1, <2>2, <2>4 DEF BudgetInv, PostsOf
  <2>6. \A e \in Events, k \in Copies : k > copies'[e] => k > copies[e]
    BY <1>2, <2>1, NewCopyType DEF Copies
  <2> QED
    BY <1>2, <2>5, <2>6 DEF BudgetInv, PostsOf, Holds
<1>3. ASSUME NEW m \in queue, Redeliver(m) PROVE BudgetInv'
  BY <1>2, <1>3 DEF Redeliver, TypeOK
<1>4. ASSUME NEW w \in Workers, NEW m \in queue, Receive(w, m) PROVE BudgetInv'
  <2>1. /\ queue' = queue \ {m}
        /\ msg'[w] = m /\ pc'[w] = "load"
        /\ \A v \in Workers \ {w} : msg'[v] = msg[v] /\ pc'[v] = pc[v]
        /\ UNCHANGED <<events, copies, posts>>
    BY <1>4 DEF Receive, Goto, TypeOK
  <2>2. PostsOf(m) <= m.retries /\ PostsOf(m) \in Nat /\ m.retries \in Nat
    BY <1>0, MessageTypes, MaxRetriesType DEF BudgetInv, PostsOf
  <2>3. PostsOf(m) <= m.retries + 1
    BY <2>2
  <2> QED
    BY <2>1, <2>2, <2>3 DEF BudgetInv, PostsOf, Holds
<1>5. ASSUME NEW w \in Workers, AttemptDelivery(w) PROVE BudgetInv'
  <2> DEFINE e == msg[w].event  k == msg[w].copy
  <2>1. /\ pc[w] = "attempt" /\ pc'[w] = "settle"
        /\ \A v \in Workers \ {w} : pc'[v] = pc[v]
        /\ UNCHANGED <<events, queue, copies, msg>>
    BY <1>5 DEF AttemptDelivery, Goto, TypeOK
  <2>2. /\ e \in Events /\ k \in Copies /\ k <= copies[e]
        /\ msg[w].retries \in 0..MaxRetries /\ events[e].status # "MISSING"
    BY <2>1, MessageTypes DEF CopyInv, Busy
  <2>3. /\ posts'[e][k] \in {posts[e][k], posts[e][k] + 1}
        /\ \A f \in Events, j \in Copies : f # e \/ j # k => posts'[f][j] = posts[f][j]
    <3>1. CASE UNCHANGED posts
      BY <3>1
    <3>2. CASE posts' = [posts EXCEPT ![e][k] = @ + 1]
      BY <3>2, <2>2 DEF TypeOK
    <3> QED
      BY <1>5, <3>1, <3>2 DEF AttemptDelivery
  <2>4. posts[e][k] <= msg[w].retries /\ posts[e][k] \in Nat
    BY <1>0, <2>1, <2>2 DEF BudgetInv, PostsOf
  <2>5. posts'[e][k] <= msg[w].retries + 1 /\ posts'[e][k] <= MaxRetries + 1
    <3> DEFINE p == posts[e][k]  q == posts'[e][k]  r == msg[w].retries
    <3>1. r \in Nat /\ r <= MaxRetries /\ MaxRetries \in Nat
      BY <2>2, MaxRetriesType
    <3>2. p \in Nat /\ p <= r /\ (q = p \/ q = p + 1)
      BY <2>3, <2>4
    <3> HIDE DEF p, q, r
    <3>3. q <= r + 1 /\ q <= MaxRetries + 1
      BY <3>1, <3>2
    <3> QED
      BY <3>3 DEF q, r
  <2>6. \A f \in Events, j \in Copies : posts'[f][j] <= MaxRetries + 1
    BY <2>3, <2>5 DEF BudgetInv
  <2>7. \A f \in Events, j \in Copies :
          j > copies'[f] \/ events'[f].status = "MISSING" => posts'[f][j] = 0
    <3>1. ~(k > copies[e])
      BY <2>2 DEF TypeOK, Copies
    <3> QED
      BY <2>1, <2>2, <2>3, <3>1 DEF BudgetInv
  <2>8. \A m \in queue : ~Same(m, msg[w]) /\ m.event \in Events /\ m.copy \in Copies
    BY <2>1, MessageTypes DEF CopyInv, Holds
  <2>9. \A m \in queue' : (PostsOf(m) <= m.retries)'
    BY <2>1, <2>3, <2>8 DEF BudgetInv, PostsOf, Same
  <2>10. \A v \in Workers \ {w} : Holds(v) =>
           ~Same(msg[v], msg[w]) /\ msg[v].event \in Events /\ msg[v].copy \in Copies
    BY <2>1, MessageTypes DEF CopyInv, Holds, Busy
  <2>11. \A v \in Workers \ {w} : Holds(v) => posts'[msg[v].event][msg[v].copy] = PostsOf(msg[v])
    BY <2>3, <2>10 DEF PostsOf, Same
  <2> QED
    BY <2>1, <2>5, <2>6, <2>7, <2>9, <2>11 DEF BudgetInv, PostsOf, Holds
<1>6. ASSUME NEW w \in Workers, ScheduleRetry(w) PROVE BudgetInv'
  <2> DEFINE next == [msg[w] EXCEPT !.retries = @ + 1]
  <2>1. pc[w] = "settle" /\ msg[w].retries < MaxRetries
    BY <1>6 DEF ScheduleRetry, Goto, Retryable
  <2>2. /\ next.event = msg[w].event /\ next.copy = msg[w].copy
        /\ next.retries = msg[w].retries + 1
    BY <2>1, HeldType, RetryType
  <2>3. /\ queue' = queue \cup {next}
        /\ pc'[w] = "ack" /\ \A v \in Workers \ {w} : pc'[v] = pc[v]
        /\ UNCHANGED <<events, copies, msg, posts>>
    BY <1>6 DEF ScheduleRetry, Goto, TypeOK
  <2> HIDE DEF next
  <2>4. PostsOf(next) <= next.retries
    BY <2>1, <2>2 DEF BudgetInv, PostsOf, Holds
  <2> QED
    BY <2>3, <2>4 DEF BudgetInv, PostsOf, Holds
<1>7. ASSUME NEW w \in Workers,
             \/ LoadEvent(w) \/ LoadFails(w) \/ RetryRejected(w) \/ Settle(w)
             \/ ReadRecord(w) \/ WriteRecord(w) \/ UpdateFails(w) \/ Finish(w)
      PROVE  BudgetInv'
  <2>1. Stays(w)
    BY <1>7, TaskStays
  <2>2. /\ UNCHANGED posts
        /\ pc'[w] \in {"load", "attempt"} => pc[w] \in {"load", "attempt"}
    BY <1>7 DEF LoadEvent, LoadFails, RetryRejected, Settle, ReadRecord, WriteRecord,
                SaveOutcome,
                UpdateFails, Finish, Goto, TypeOK
  <2> QED
    BY <2>1, <2>2 DEF Stays, BudgetInv, PostsOf
<1>8. ASSUME NEW w \in Workers, Acknowledge(w) PROVE BudgetInv'
  <2>1. /\ UNCHANGED <<events, queue, copies, posts>>
        /\ pc'[w] = "idle"
        /\ \A v \in Workers \ {w} : pc'[v] = pc[v] /\ msg'[v] = msg[v]
    BY <1>8 DEF Acknowledge, Drop, TypeOK
  <2> QED
    BY <2>1 DEF BudgetInv, PostsOf, Holds
<1>9. ASSUME NEW w \in Workers, Crash(w) PROVE BudgetInv'
  <2>1. msg[w] \in Message
    BY <1>9, HeldType DEF Crash
  <2>2. \A v \in Workers : pc'[v] = "idle" \/ (pc'[v] = pc[v] /\ msg'[v] = msg[v])
    BY <1>9 DEF Crash, Drop, TypeOK
  <2> QED
    BY <1>2, <1>9, <2>1, <2>2 DEF Crash
<1>10. CASE UNCHANGED vars
  BY <1>10 DEF vars, BudgetInv, PostsOf, Holds
<1> QED
  BY <1>1, <1>3, <1>4, <1>5, <1>6, <1>7, <1>8, <1>9, <1>10 DEF Next, Task

LEMMA BudgetInvariance == Spec => [](CopyInv /\ BudgetInv)
<1>1. Init => CopyInv /\ BudgetInv
  BY WebhookAssumption, MaxRetriesType
  DEF Init, CopyInv, BudgetInv, Busy, Holds, NewRecord, Copies
<1> QED
  BY <1>1, CopyStep, BudgetStep, WebhookTypeCorrect, PTL DEF Spec

(* No copy of a message makes more POSTs than one and one for every retry,  *)
(* however often the broker delivers the others and the workers die.        *)
THEOREM AttemptsAreBounded == Spec => []AttemptBudget
<1>1. BudgetInv => AttemptBudget
  BY DEF BudgetInv, AttemptBudget
<1> QED
  BY <1>1, BudgetInvariance, PTL

-----------------------------------------------------------------------------
LEMMA AnsweredStep == TypeOK /\ AnsweredInv /\ [Next]_vars => AnsweredInv'
<1> SUFFICES ASSUME TypeOK, AnsweredInv, [Next]_vars PROVE AnsweredInv'
  OBVIOUS
<1> USE DEF history, frame
<1>1. ASSUME NEW e \in Events, StoreEvent(e) PROVE AnsweredInv'
  BY <1>1 DEF StoreEvent, NewRecord, AnsweredInv, Busy, TypeOK
<1>2. ASSUME NEW m \in queue, Redeliver(m) PROVE AnsweredInv'
  BY <1>2 DEF Redeliver, AnsweredInv, Busy
<1>3. ASSUME NEW w \in Workers, NEW m \in queue, Receive(w, m) PROVE AnsweredInv'
  BY <1>3 DEF Receive, Goto, AnsweredInv, Busy, TypeOK
<1>4. ASSUME NEW w \in Workers, AttemptDelivery(w) PROVE AnsweredInv'
  <2> DEFINE e == msg[w].event
  <2>1. /\ pc[w] = "attempt" /\ pc'[w] = "settle" /\ e \in Events
        /\ \A v \in Workers \ {w} : pc'[v] = pc[v]
        /\ UNCHANGED <<events, msg>>
    BY <1>4, HeldType DEF AttemptDelivery, Goto, TypeOK
  <2>2. PICK answer \in Answers \cup NoPost :
          /\ verdict' = [verdict EXCEPT ![w] = Verdict(answer)]
          /\ IF answer \in NoPost
             THEN UNCHANGED <<posts, accepted>>
             ELSE /\ posts' = [posts EXCEPT ![e][msg[w].copy] = @ + 1]
                  /\ accepted' = [accepted EXCEPT ![e] = @ \cup ({answer} \cap Below400)]
    BY <1>4 DEF AttemptDelivery
  <2>3. \A f \in Events : accepted[f] \subseteq accepted'[f]
    BY <2>1, <2>2 DEF TypeOK
  <2>4. verdict'[w] = "success" => accepted'[e] # {}
    <3>1. verdict'[w] = Verdict(answer)
      BY <2>2 DEF TypeOK
    <3>2. Verdict(answer) = "success" => answer \in Below400 /\ answer \notin NoPost
      BY DEF Verdict, Below400, NoPost
    <3>3. answer \in Below400 /\ answer \notin NoPost => answer \in accepted'[e]
      BY <2>1, <2>2 DEF TypeOK
    <3> QED
      BY <3>1, <3>2, <3>3
  <2>5. \A v \in Workers \ {w} : verdict'[v] = verdict[v]
    BY <2>2 DEF TypeOK
  <2> QED
    BY <2>1, <2>3, <2>4, <2>5, MessageTypes DEF AnsweredInv, Busy
<1>5. ASSUME NEW w \in Workers, WriteRecord(w) PROVE AnsweredInv'
  <2>1. pc[w] = "write" /\ msg[w].event \in Events
    BY <1>5, HeldType DEF WriteRecord, SaveOutcome, Goto
  <2> QED
    BY <1>5, <2>1 DEF WriteRecord, SaveOutcome, Goto, AnsweredInv, Busy, TypeOK
<1>6. ASSUME NEW w \in Workers,
             \/ LoadEvent(w) \/ LoadFails(w) \/ ScheduleRetry(w) \/ RetryRejected(w)
             \/ Settle(w) \/ ReadRecord(w) \/ UpdateFails(w) \/ Finish(w)
      PROVE  AnsweredInv'
  BY <1>6 DEF LoadEvent, LoadFails, ScheduleRetry, RetryRejected, Settle, ReadRecord,
              UpdateFails, Finish, Goto, AnsweredInv, Busy, TypeOK
<1>7. ASSUME NEW w \in Workers, Acknowledge(w) \/ Crash(w) PROVE AnsweredInv'
  BY <1>7 DEF Acknowledge, Crash, Drop, AnsweredInv, Busy, TypeOK
<1>8. CASE UNCHANGED vars
  BY <1>8 DEF vars, AnsweredInv, Busy
<1> QED
  BY <1>1, <1>2, <1>3, <1>4, <1>5, <1>6, <1>7, <1>8 DEF Next, Task

LEMMA AnsweredInvariance == Spec => []AnsweredInv
<1>1. Init => AnsweredInv
  BY DEF Init, AnsweredInv, NewRecord
<1> QED
  BY <1>1, AnsweredStep, WebhookTypeCorrect, PTL DEF Spec

(* A record says DELIVERED only when an answer below 400 came, whatever     *)
(* copies of the message ran beside or after each other.                    *)
THEOREM DeliveredHadAnAnswer == Spec => []DeliveredWasAnswered
<1>1. AnsweredInv => DeliveredWasAnswered
  BY DEF AnsweredInv, DeliveredWasAnswered
<1> QED
  BY <1>1, AnsweredInvariance, PTL

-----------------------------------------------------------------------------
LEMMA EarnedRests ==
  ASSUME EarnedInv, UNCHANGED <<events, accepted, announced, lost>>,
         \A v \in Workers : pc'[v] = "finish" => pc[v] = "finish" /\ msg'[v] = msg[v]
  PROVE  EarnedInv'
  BY DEF EarnedInv, OutcomesAreEarned

LEMMA EarnedStep ==
  TypeOK /\ AnsweredInv /\ AnsweredInv' /\ EarnedInv /\ [Next]_vars => EarnedInv'
<1> SUFFICES ASSUME TypeOK, AnsweredInv, AnsweredInv', EarnedInv, [Next]_vars
             PROVE  EarnedInv'
  OBVIOUS
<1> USE DEF history, frame
<1>1. ASSUME NEW e \in Events, StoreEvent(e) PROVE EarnedInv'
  <2>1. /\ events[e].status = "MISSING" /\ e \in Events
        /\ UNCHANGED <<msg, pc, accepted, announced>>
        /\ \A f \in Events : f # e => events'[f] = events[f]
        /\ events'[e].status = "PENDING" /\ events'[e].dead = FALSE
        /\ \A f \in Events : lost[f] => lost'[f]
    BY <1>1 DEF StoreEvent, Lose, NewRecord, TypeOK
  <2>2. announced[e] = {} \/ lost[e]
    BY <2>1 DEF EarnedInv, OutcomesAreEarned, Terminal
  <2>3. OutcomesAreEarned'
    BY <2>1, <2>2 DEF EarnedInv, OutcomesAreEarned
  <2>4. ASSUME NEW v \in Workers, pc'[v] = "finish", ~lost'[msg'[v].event]
        PROVE  events'[msg'[v].event].status \in Terminal
    <3>1. msg[v].event \in Events /\ pc[v] = "finish"
      BY <2>1, <2>4, HeldType
    <3>2. events[msg[v].event].status \in Terminal
      BY <2>1, <2>4, <3>1 DEF EarnedInv
    <3> QED
      BY <2>1, <3>1, <3>2 DEF Terminal
  <2> QED
    BY <2>3, <2>4 DEF EarnedInv
<1>2. ASSUME NEW m \in queue, Redeliver(m) PROVE EarnedInv'
  BY <1>2 DEF Redeliver, EarnedInv, OutcomesAreEarned
<1>3. ASSUME NEW w \in Workers, NEW m \in queue, Receive(w, m) PROVE EarnedInv'
  BY <1>3 DEF Receive, Goto, EarnedInv, OutcomesAreEarned, TypeOK
<1>4. ASSUME NEW w \in Workers, AttemptDelivery(w) PROVE EarnedInv'
  <2>1. \A e \in Events : accepted[e] \subseteq accepted'[e]
    BY <1>4 DEF AttemptDelivery, TypeOK
  <2> QED
    BY <1>4, <2>1 DEF AttemptDelivery, Goto, EarnedInv, OutcomesAreEarned, TypeOK
<1>5. ASSUME NEW w \in Workers, WriteRecord(w) PROVE EarnedInv'
  <2> DEFINE e == msg[w].event
  <2>1. pc[w] = "write" /\ e \in Events
    BY <1>5, HeldType DEF WriteRecord, SaveOutcome, Goto
  <2>2. /\ UNCHANGED <<msg, accepted, announced, lost>>
        /\ pc' = [pc EXCEPT ![w] = "finish"]
        /\ \A f \in Events : f # e => events'[f] = events[f]
        /\ events'[e].status = (IF verdict[w] = "success" THEN "DELIVERED" ELSE "DEAD_LETTERED")
        /\ events'[e].dead = (verdict[w] # "success")
        /\ verdict[w] # "success" => events'[e].reason
    BY <1>5, <2>1 DEF WriteRecord, SaveOutcome, Goto, TypeOK
  <2>3. verdict[w] = "success" => accepted[e] # {}
    BY <2>1 DEF AnsweredInv, Busy
  <2>4. OutcomesAreEarned'
    BY <2>1, <2>2, <2>3 DEF EarnedInv, OutcomesAreEarned, Terminal
  <2>5. ASSUME NEW v \in Workers, pc'[v] = "finish", ~lost'[msg'[v].event]
        PROVE  events'[msg'[v].event].status \in Terminal
    <3>1. CASE msg[v].event = e
      BY <2>2, <3>1 DEF Terminal
    <3>2. CASE msg[v].event # e
      <4>1. pc[v] = "finish" /\ msg[v].event \in Events
        BY <2>2, <2>5, <3>2, HeldType DEF TypeOK
      <4> QED
        BY <2>2, <2>5, <3>2, <4>1 DEF EarnedInv
    <3> QED
      BY <3>1, <3>2
  <2> QED
    BY <2>4, <2>5 DEF EarnedInv
<1>6. ASSUME NEW w \in Workers,
             LoadFails(w) \/ RetryRejected(w) \/ UpdateFails(w)
      PROVE  EarnedInv'
  <2> DEFINE e == msg[w].event
  <2>1. e \in Events
    BY <1>6, HeldType DEF LoadFails, RetryRejected, UpdateFails, Goto
  <2>2. /\ UNCHANGED <<msg, events, accepted, announced>>
        /\ \A f \in Events : lost'[f] <=> f = e \/ lost[f]
        /\ \A v \in Workers : v # w => pc'[v] = pc[v]
        /\ pc'[w] \in {"ack", "finish"}
    BY <1>6, <2>1 DEF LoadFails, RetryRejected, UpdateFails, Goto, Lose, TypeOK
  <2>3. OutcomesAreEarned'
    BY <2>2 DEF EarnedInv, OutcomesAreEarned
  <2>4. ASSUME NEW v \in Workers, pc'[v] = "finish", ~lost'[msg'[v].event]
        PROVE  events'[msg'[v].event].status \in Terminal
    <3>1. v # w
      BY <2>1, <2>2, <2>4
    <3>2. pc[v] = "finish" /\ msg[v].event \in Events
      BY <2>2, <2>4, <3>1, HeldType
    <3> QED
      BY <2>2, <2>4, <3>2 DEF EarnedInv
  <2> QED
    BY <2>3, <2>4 DEF EarnedInv
<1>7. ASSUME NEW w \in Workers,
             LoadEvent(w) \/ ScheduleRetry(w) \/ Settle(w) \/ ReadRecord(w)
      PROVE  EarnedInv'
  <2>1. UNCHANGED <<events, accepted, announced, lost, msg>> /\ pc'[w] # "finish"
    BY <1>7 DEF LoadEvent, ScheduleRetry, Settle, ReadRecord, Goto, TypeOK
  <2>2. \A v \in Workers : v # w => pc'[v] = pc[v]
    BY <1>7 DEF LoadEvent, ScheduleRetry, Settle, ReadRecord, Goto, TypeOK
  <2> QED
    BY <2>1, <2>2, EarnedRests
<1>8. ASSUME NEW w \in Workers, Finish(w) PROVE EarnedInv'
  <2> DEFINE e == msg[w].event
  <2>1. pc[w] = "finish" /\ e \in Events
    BY <1>8, HeldType DEF Finish, Goto
  <2>2. verdict[w] = "success" => accepted[e] # {}
    BY <2>1 DEF AnsweredInv, Busy
  <2>3. ~lost[e] => events[e].status \in Terminal
    BY <2>1 DEF EarnedInv
  <2>4. /\ UNCHANGED <<msg, events, accepted, lost>>
        /\ \A v \in Workers : pc'[v] = "finish" => pc[v] = "finish"
        /\ \A f \in Events : f # e => announced'[f] = announced[f]
        /\ \/ announced'[e] = announced[e]
           \/ announced'[e] = announced[e] \cup
                {IF verdict[w] = "success" THEN "DELIVERED" ELSE "DEAD_LETTERED"}
    BY <1>8, <2>1 DEF Finish, Goto, TypeOK
  <2> QED
    BY <2>2, <2>3, <2>4 DEF EarnedInv, OutcomesAreEarned
<1>9. ASSUME NEW w \in Workers, Acknowledge(w) \/ Crash(w) PROVE EarnedInv'
  <2>1. UNCHANGED <<events, accepted, announced, lost>> /\ pc'[w] # "finish"
    BY <1>9 DEF Acknowledge, Crash, Drop, TypeOK
  <2>2. \A v \in Workers : v # w => pc'[v] = pc[v] /\ msg'[v] = msg[v]
    BY <1>9 DEF Acknowledge, Crash, Drop, TypeOK
  <2> QED
    BY <2>1, <2>2, EarnedRests
<1>10. CASE UNCHANGED vars
  BY <1>10 DEF vars, EarnedInv, OutcomesAreEarned
<1> QED
  BY <1>1, <1>2, <1>3, <1>4, <1>5, <1>6, <1>7, <1>8, <1>9, <1>10 DEF Next, Task

(* Whatever is delivered twice and however workers overwrite each other,    *)
(* what the record and the published events say was earned.                 *)
THEOREM OutcomesEarned == Spec => []OutcomesAreEarned
<1>1. Init => EarnedInv
  BY DEF Init, EarnedInv, OutcomesAreEarned, NewRecord
<1>2. EarnedInv => OutcomesAreEarned
  BY DEF EarnedInv
<1> QED
  BY <1>1, <1>2, EarnedStep, AnsweredInvariance, WebhookTypeCorrect, PTL DEF Spec

-----------------------------------------------------------------------------
(* Nothing that bears on the event e has changed.                           *)
Untouched(e) ==
  /\ events'[e] = events[e] /\ announced'[e] = announced[e]
  /\ accepted'[e] = accepted[e] /\ lost'[e] = lost[e]
  /\ \A m \in queue' : m.event = e => m \in queue
  /\ \A w \in Workers : Holds(w)' /\ msg'[w].event = e =>
       /\ Holds(w)
       /\ msg'[w] = msg[w] /\ pc'[w] = pc[w]
       /\ verdict'[w] = verdict[w] /\ record'[w] = record[w]

LEMMA UntouchedStep ==
  ASSUME NEW e, EventInv(e), Untouched(e)
  PROVE  EventInv(e)'
<1>1. ASSUME NEW w \in Workers, Holds(w)', msg'[w].event = e
      PROVE  OnItsWay(w)'
  <2>1. /\ Holds(w) /\ msg[w].event = e
        /\ pc'[w] = pc[w] /\ verdict'[w] = verdict[w] /\ record'[w] = record[w]
    BY <1>1 DEF Untouched
  <2>2. OnItsWay(w)
    BY <2>1 DEF EventInv
  <2>3. /\ events'[e] = events[e] /\ announced'[e] = announced[e]
        /\ accepted'[e] = accepted[e] /\ lost'[e] = lost[e]
    BY DEF Untouched
  <2> QED
    BY <1>1, <2>1, <2>2, <2>3 DEF OnItsWay, Outcome
<1> QED
  BY <1>1 DEF EventInv, Untouched, Open

(* The message of an event that was never redelivered is its only one.      *)
LEMMA SoleMessage ==
  ASSUME TypeOK, CopyInv, NEW w \in Workers, Holds(w), copies[msg[w].event] = 0
  PROVE  /\ \A m \in queue : m.event # msg[w].event
         /\ \A v \in Workers : Holds(v) /\ msg[v].event = msg[w].event => v = w
<1>1. \A m \in queue : m.event = msg[w].event => m.copy = 0
  BY MessageTypes DEF CopyInv
<1>2. \A v \in Workers : Holds(v) /\ msg[v].event = msg[w].event => msg[v].copy = 0
  <2> SUFFICES ASSUME NEW v \in Workers, Holds(v), msg[v].event = msg[w].event
               PROVE  msg[v].copy = 0
    OBVIOUS
  <2>1. Busy(v)
    BY DEF Busy, Holds
  <2>2. msg[v].copy <= 0
    BY <2>1 DEF CopyInv
  <2> QED
    BY <2>1, <2>2, MessageTypes
<1> QED
  BY <1>1, <1>2 DEF CopyInv, Same

(* A step of the worker w concerns its message's event only.                *)
LEMMA OthersUntouched ==
  ASSUME TypeOK, NEW w \in Workers, Task(w) \/ Crash(w), Busy(w),
         NEW e \in Events, e # msg[w].event
  PROVE  Untouched(e)
<1> USE DEF history, frame, Goto
<1>1. ASSUME NEW m \in queue, Receive(w, m) PROVE Untouched(e)
  BY <1>1 DEF Receive, Busy
<1>2. CASE LoadEvent(w) \/ LoadFails(w) \/ RetryRejected(w) \/ Settle(w) \/ UpdateFails(w)
  BY <1>2 DEF LoadEvent, LoadFails, RetryRejected, Settle, UpdateFails, Lose, Untouched,
              Holds, TypeOK
<1>3. CASE AttemptDelivery(w)
  <2>1. accepted'[e] = accepted[e] /\ \A v \in Workers \ {w} : verdict'[v] = verdict[v]
    BY <1>3 DEF AttemptDelivery, TypeOK
  <2> QED
    BY <1>3, <2>1 DEF AttemptDelivery, Untouched, Holds, TypeOK
<1>4. CASE ScheduleRetry(w)
  <2>1. [msg[w] EXCEPT !.retries = @ + 1].event # e
    BY <1>4, HeldType, RetryType DEF ScheduleRetry, Retryable
  <2> QED
    BY <1>4, <2>1 DEF ScheduleRetry, Untouched, Holds, TypeOK
<1>5. CASE ReadRecord(w) \/ WriteRecord(w)
  BY <1>5 DEF ReadRecord, WriteRecord, SaveOutcome, Untouched, Holds, TypeOK
<1>6. CASE Finish(w)
  BY <1>6 DEF Finish, Untouched, Holds, TypeOK
<1>7. CASE Acknowledge(w)
  BY <1>7 DEF Acknowledge, Drop, Untouched, Holds, TypeOK
<1>8. CASE Crash(w)
  <2>1. Fresh(msg[w]).event = msg[w].event
    BY <1>8, HeldType, NewCopyType, FreshType DEF Crash
  <2> QED
    BY <1>8, <2>1 DEF Crash, Drop, Untouched, Holds, TypeOK
<1> QED
  BY <1>1, <1>2, <1>3, <1>4, <1>5, <1>6, <1>7, <1>8 DEF Task

(* What the worker's own event looks like after its step.                   *)
LEMMA OwnEvent ==
  ASSUME TypeOK, CopyInv, NEW w \in Workers, Holds(w), Task(w),
         NEW e \in Events, e = msg[w].event, copies[e] = 0, EventInv(e)
  PROVE  EventInv(e)'
<1> USE DEF history, frame
<1>1. /\ e \in Events /\ OnItsWay(w) /\ pc[w] # "idle" /\ pc[w] # "ack"
  BY HeldType DEF Holds, EventInv
<1>2. /\ \A m \in queue : m.event # e
      /\ \A v \in Workers : Holds(v) /\ msg[v].event = e => v = w
  BY SoleMessage
<1>3. ASSUME Stays(w)
      PROVE  /\ \A m \in queue' : m.event # e
             /\ \A v \in Workers : Holds(v)' /\ msg'[v].event = e => v = w
             /\ msg'[w].event = e
  BY <1>2, <1>3 DEF Stays
<1>4. CASE LoadEvent(w)
  BY <1>1, <1>2, <1>3, <1>4, TaskStays
  DEF LoadEvent, Goto, EventInv, OnItsWay, Outcome, Open, Holds, TypeOK
<1>5. CASE LoadFails(w) \/ RetryRejected(w)
  <2>1. pc'[w] = "ack" /\ lost'[e]
    BY <1>1, <1>5 DEF LoadFails, RetryRejected, Goto, Lose, TypeOK
  <2> QED
    BY <1>1, <1>3, <1>5, <2>1, TaskStays DEF LoadFails, RetryRejected, EventInv, Holds
<1>6. CASE AttemptDelivery(w)
  <2>1. /\ pc[w] = "attempt" /\ pc'[w] = "settle"
        /\ UNCHANGED <<events, queue, announced, lost, msg>>
    BY <1>6 DEF AttemptDelivery, Goto, TypeOK
  <2>2. accepted[e] = {} /\ events[e].status = "PENDING" /\ announced[e] = {}
    BY <1>1, <2>1 DEF OnItsWay
  <2>3. verdict'[w] # "success" => accepted'[e] = {}
    <3>1. PICK answer \in Answers \cup NoPost :
            /\ verdict' = [verdict EXCEPT ![w] = Verdict(answer)]
            /\ IF answer \in NoPost
               THEN UNCHANGED <<posts, accepted>>
               ELSE /\ posts' = [posts EXCEPT ![e][msg[w].copy] = @ + 1]
                    /\ accepted' = [accepted EXCEPT ![e] = @ \cup ({answer} \cap Below400)]
      BY <1>6 DEF AttemptDelivery
    <3>2. verdict'[w] = Verdict(answer)
      BY <3>1 DEF TypeOK
    <3>3. Verdict(answer) # "success" => answer \notin Below400
      BY DEF Verdict, Below400
    <3>4. answer \notin Below400 => accepted'[e] = {}
      BY <1>1, <2>2, <3>1 DEF TypeOK
    <3> QED
      BY <3>2, <3>3, <3>4
  <2>4. OnItsWay(w)'
    BY <2>1, <2>2, <2>3 DEF OnItsWay
  <2> QED
    BY <1>3, <1>6, <2>1, <2>2, <2>4, TaskStays DEF EventInv
<1>7. CASE ScheduleRetry(w)
  <2> DEFINE next == [msg[w] EXCEPT !.retries = @ + 1]
  <2>1. /\ pc[w] = "settle" /\ pc'[w] = "ack" /\ verdict[w] = "transient"
        /\ \A v \in Workers \ {w} : pc'[v] = pc[v]
        /\ queue' = queue \cup {next}
        /\ UNCHANGED <<events, accepted, announced, lost, msg>>
    BY <1>7 DEF ScheduleRetry, Retryable, Goto, TypeOK
  <2>2. accepted[e] = {} /\ Open(e)
    BY <1>1, <2>1 DEF OnItsWay, Open
  <2>3. \A v \in Workers : ~(Holds(v)' /\ msg'[v].event = e)
    BY <1>2, <2>1 DEF Holds
  <2> QED
    BY <2>1, <2>2, <2>3 DEF EventInv, Open
<1>8. CASE Settle(w)
  BY <1>1, <1>3, <1>8, TaskStays DEF Settle, Goto, EventInv, OnItsWay, Outcome, TypeOK
<1>9. CASE ReadRecord(w)
  <2>1. /\ pc[w] = "read" /\ pc'[w] = "write" /\ record'[w] = events[e]
        /\ UNCHANGED <<events, accepted, announced, lost, msg, verdict>>
    BY <1>9 DEF ReadRecord, Goto, TypeOK
  <2>2. events[e].status = "PENDING"
    BY <1>1, <2>1 DEF OnItsWay
  <2>3. ~events[e].reason
    BY <2>2 DEF EventInv
  <2>4. OnItsWay(w)'
    BY <1>1, <2>1, <2>2, <2>3 DEF OnItsWay
  <2> QED
    BY <1>3, <1>9, <2>1, <2>4, TaskStays DEF EventInv
<1>10. CASE WriteRecord(w)
  <2>1. /\ pc[w] = "write" /\ pc'[w] = "finish"
        /\ events'[e] = [status |-> Outcome(w), attempts |-> attempt[w],
                         dead |-> verdict[w] # "success",
                         reason |-> verdict[w] # "success" \/ record[w].reason]
        /\ UNCHANGED <<accepted, announced, lost, msg, verdict>>
    BY <1>1, <1>10 DEF WriteRecord, SaveOutcome, Goto, Outcome, TypeOK
  <2>2. /\ announced[e] = {} /\ ~record[w].reason
        /\ verdict[w] # "success" => accepted[e] = {}
    BY <1>1, <2>1 DEF OnItsWay
  <2>3. OnItsWay(w)'
    BY <2>1, <2>2 DEF OnItsWay, Outcome
  <2>4. /\ events'[e].status = Outcome(w)
        /\ events'[e].dead <=> events'[e].status = "DEAD_LETTERED"
        /\ events'[e].reason <=> events'[e].dead
    <3>1. record[w].reason = FALSE
      BY <2>2 DEF TypeOK, Record
    <3>2. CASE verdict[w] = "success"
      <4> DEFINE dead == verdict[w] # "success"
      <4>2. dead = FALSE /\ (dead \/ record[w].reason) = FALSE
        BY <3>1, <3>2
      <4>3. events'[e] = [status |-> Outcome(w), attempts |-> attempt[w],
                          dead |-> dead, reason |-> dead \/ record[w].reason]
        BY <2>1
      <4>4. events'[e] = [status |-> Outcome(w), attempts |-> attempt[w],
                          dead |-> FALSE, reason |-> FALSE]
        <5> HIDE DEF dead
        <5> QED
          BY <4>2, <4>3
      <4>1. /\ events'[e].status = "DELIVERED" /\ events'[e].dead = FALSE
            /\ events'[e].reason = FALSE
        BY <3>2, <4>4 DEF Outcome
      <4> QED
        BY <3>2, <4>1 DEF Outcome
    <3>3. CASE verdict[w] # "success"
      <4> DEFINE dead == verdict[w] # "success"
      <4>2. dead = TRUE /\ (dead \/ record[w].reason) = TRUE
        BY <3>3
      <4>3. events'[e] = [status |-> Outcome(w), attempts |-> attempt[w],
                          dead |-> dead, reason |-> dead \/ record[w].reason]
        BY <2>1
      <4>4. events'[e] = [status |-> Outcome(w), attempts |-> attempt[w],
                          dead |-> TRUE, reason |-> TRUE]
        <5> HIDE DEF dead
        <5> QED
          BY <4>2, <4>3
      <4>1. /\ events'[e].status = "DEAD_LETTERED" /\ events'[e].dead = TRUE
            /\ events'[e].reason = TRUE
        BY <3>3, <4>4 DEF Outcome
      <4> QED
        BY <3>3, <4>1 DEF Outcome
    <3> QED
      BY <3>2, <3>3
  <2> QED
    BY <1>3, <1>10, <2>1, <2>2, <2>3, <2>4, TaskStays DEF EventInv, Outcome
<1>11. CASE UpdateFails(w)
  <2>1. /\ pc[w] \in {"read", "write"} /\ pc'[w] = "finish" /\ lost'[e]
        /\ UNCHANGED <<events, accepted, announced, msg, verdict>>
    BY <1>1, <1>11 DEF UpdateFails, Lose, TypeOK
  <2>2. OnItsWay(w)'
    BY <1>1, <2>1 DEF OnItsWay
  <2> QED
    BY <1>3, <1>11, <2>1, <2>2, TaskStays DEF EventInv
<1>12. CASE Finish(w)
  <2>1. /\ pc[w] = "finish" /\ pc'[w] = "ack"
        /\ UNCHANGED <<events, accepted, lost, msg>>
    BY <1>12 DEF Finish, Goto, TypeOK
  <2>2. /\ announced[e] = {}
        /\ ~lost[e] => events[e].status = Outcome(w)
        /\ Outcome(w) \in Terminal
    BY <1>1, <2>1 DEF OnItsWay, Outcome, Terminal
  <2>3. announced'[e] = {} \/ announced'[e] = {Outcome(w)}
    <3>1. CASE UNCHANGED announced
      BY <2>2, <3>1
    <3>2. CASE announced' = [announced EXCEPT ![e] = @ \cup {Outcome(w)}]
      BY <1>1, <2>2, <3>2 DEF TypeOK
    <3> QED
      BY <1>12, <3>1, <3>2 DEF Finish, Outcome
  <2>4. events[e].status = "MISSING" => FALSE
    BY <1>1 DEF CopyInv, Busy
  <2>5. \A v \in Workers : ~(Holds(v)' /\ msg'[v].event = e)
    BY <1>3, <1>12, <2>1, TaskStays DEF Holds
  <2>6. \A m \in queue' : m.event # e
    BY <1>3, <1>12, TaskStays
  <2>7. ~lost'[e] => announced'[e] \subseteq {events'[e].status}
    BY <2>1, <2>2, <2>3
  <2>8. announced'[e] = {} \/ \E s \in Terminal : announced'[e] = {s}
    BY <2>2, <2>3
  <2> QED
    BY <2>1, <2>4, <2>5, <2>6, <2>7, <2>8 DEF EventInv
<1> QED
  BY <1>1, <1>4, <1>5, <1>6, <1>7, <1>8, <1>9, <1>10, <1>11, <1>12
  DEF Task, Receive, Acknowledge, Goto

LEMMA OutcomeStep ==
  TypeOK /\ CopyInv /\ OutcomeInv /\ [Next]_vars => OutcomeInv'
<1> SUFFICES ASSUME TypeOK, CopyInv, OutcomeInv, [Next]_vars,
                    NEW e \in Events, copies'[e] = 0
             PROVE  EventInv(e)'
  BY DEF OutcomeInv
<1> USE DEF history, frame
<1>1. ASSUME NEW f \in Events, StoreEvent(f) PROVE EventInv(e)'
  <2>1. copies' = copies /\ copies[e] = 0 /\ EventInv(e)
    BY <1>1 DEF StoreEvent, OutcomeInv
  <2>2. CASE e # f
    <3>1. Untouched(e)
      BY <1>1, <2>2 DEF StoreEvent, Lose, Untouched, Holds, TypeOK
    <3> QED
      BY <2>1, <3>1, UntouchedStep
  <2>3. CASE e = f
    <3>1. /\ announced'[e] = {} /\ accepted'[e] = {} /\ events'[e] = NewRecord("PENDING")
          /\ UNCHANGED <<pc, msg>>
      BY <1>1, <2>1, <2>3 DEF StoreEvent, EventInv, TypeOK
    <3>2. \A w \in Workers : ~(Holds(w)' /\ msg'[w].event = e)
      BY <1>1, <2>3, <3>1 DEF StoreEvent, CopyInv, Holds, Busy
    <3> QED
      BY <3>1, <3>2 DEF EventInv, Open, NewRecord
  <2> QED
    BY <2>2, <2>3
<1>2. ASSUME NEW m \in queue, Redeliver(m) PROVE EventInv(e)'
  <2>1. m \in Message /\ m.event \in Events /\ NewCopy(m.event)
    BY <1>2 DEF Redeliver, TypeOK, Message
  <2>2. copies[m.event] \in Nat /\ copies'[m.event] = copies[m.event] + 1
    BY <2>1, NewCopyType
  <2>3. e # m.event /\ copies[e] = 0
    BY <2>1, <2>2, NewCopyType
  <2>4. Fresh(m).event # e
    BY <2>1, <2>3, FreshType, NewCopyType
  <2>5. Untouched(e)
    BY <1>2, <2>4 DEF Redeliver, Untouched, Holds
  <2> QED
    BY <2>3, <2>5, UntouchedStep DEF OutcomeInv
<1>3. ASSUME NEW w \in Workers, NEW m \in queue, Receive(w, m) PROVE EventInv(e)'
  <2>1. /\ queue' = queue \ {m}
        /\ pc'[w] = "load" /\ msg'[w] = m
        /\ \A v \in Workers \ {w} : pc'[v] = pc[v] /\ msg'[v] = msg[v]
        /\ UNCHANGED <<events, copies, announced, accepted, lost, verdict, record>>
    BY <1>3 DEF Receive, Goto, TypeOK
  <2>2. EventInv(e)
    BY <2>1 DEF OutcomeInv
  <2>3. m.event = e => OnItsWay(w)'
    BY <2>1, <2>2 DEF EventInv, OnItsWay, Open
  <2>4. \A v \in Workers \ {w} : Holds(v)' /\ msg'[v].event = e => OnItsWay(v)'
    BY <2>1, <2>2 DEF EventInv, OnItsWay, Outcome, Holds
  <2> QED
    BY <2>1, <2>2, <2>3, <2>4 DEF EventInv, Open
<1>4. ASSUME NEW w \in Workers, Task(w) \/ Crash(w), Busy(w) PROVE EventInv(e)'
  <2>1. msg[w] \in Message /\ msg[w].event \in Events
    BY <1>4, HeldType DEF Busy
  <2>2. CASE e # msg[w].event
    <3>1. copies[e] = 0
      <4>1. CASE Crash(w)
        BY <2>1, <2>2, <4>1, NewCopyType DEF Crash
      <4>2. CASE Task(w)
        BY <4>2 DEF Task, Receive, LoadEvent, LoadFails, AttemptDelivery, ScheduleRetry,
                    RetryRejected, Settle, ReadRecord, WriteRecord,
                    SaveOutcome, UpdateFails, Finish,
                    Acknowledge
      <4> QED
        BY <1>4, <4>1, <4>2
    <3> QED
      BY <1>4, <2>2, <3>1, OthersUntouched, UntouchedStep DEF OutcomeInv
  <2>3. CASE e = msg[w].event /\ Crash(w)
    <3>1. copies'[e] = copies[e] + 1 /\ copies[e] \in Nat
      BY <2>1, <2>3, NewCopyType DEF Crash
    <3> QED
      BY <3>1
  <2>4. CASE e = msg[w].event /\ Task(w) /\ ~Holds(w)
    <3>1. Acknowledge(w)
      BY <1>4, <2>4 DEF Task, Receive, LoadEvent, LoadFails, AttemptDelivery, ScheduleRetry,
                        RetryRejected, Settle, ReadRecord, WriteRecord,
                        SaveOutcome, UpdateFails, Finish,
                        Goto, Busy, Holds
    <3>2. Untouched(e) /\ copies' = copies
      BY <3>1 DEF Acknowledge, Drop, Untouched, Holds, TypeOK
    <3> QED
      BY <3>2, UntouchedStep DEF OutcomeInv
  <2>5. CASE e = msg[w].event /\ Task(w) /\ Holds(w)
    <3>1. copies' = copies
      BY <2>5 DEF Task, Receive, LoadEvent, LoadFails, AttemptDelivery, ScheduleRetry,
                  RetryRejected, Settle, ReadRecord, WriteRecord,
                  SaveOutcome, UpdateFails, Finish,
                  Acknowledge
    <3> QED
      BY <2>5, <3>1, OwnEvent DEF OutcomeInv
  <2> QED
    BY <1>4, <2>2, <2>3, <2>4, <2>5
<1>5. CASE UNCHANGED vars
  <2>1. Untouched(e) /\ copies' = copies
    BY <1>5 DEF vars, Untouched, Holds
  <2> QED
    BY <2>1, UntouchedStep DEF OutcomeInv
<1>6. ASSUME NEW w \in Workers, Task(w), ~Busy(w)
      PROVE  \E m \in queue : Receive(w, m)
  BY <1>6 DEF Task, LoadEvent, LoadFails, AttemptDelivery, ScheduleRetry, RetryRejected,
              Settle, ReadRecord, WriteRecord,
              SaveOutcome, UpdateFails, Finish, Acknowledge, Goto, Busy
<1> QED
  BY <1>1, <1>2, <1>3, <1>4, <1>5, <1>6 DEF Next, Crash, Busy

(* An event whose messages were delivered once has one outcome: the record, *)
(* the published event and the merchant's answers agree on it.              *)
THEOREM OneOutcome == Spec => []OneOutcomeWithoutRedelivery
<1>1. Init => OutcomeInv
  BY DEF Init, OutcomeInv, EventInv, NewRecord, Holds
<1>2. OutcomeInv => OneOutcomeWithoutRedelivery
  <2> SUFFICES ASSUME NEW e \in Events, EventInv(e)
               PROVE  /\ Cardinality(announced[e]) <= 1
                      /\ ~lost[e] => announced[e] \subseteq {events[e].status}
                      /\ events[e].status = "DEAD_LETTERED" => accepted[e] = {}
                      /\ events[e].reason => events[e].dead
    BY DEF OutcomeInv, OneOutcomeWithoutRedelivery
  <2>1. Cardinality(announced[e]) \in {0, 1}
    <3>1. CASE announced[e] = {}
      BY <3>1, FS_EmptySet
    <3>2. ASSUME NEW s \in Terminal, announced[e] = {s} PROVE Cardinality(announced[e]) = 1
      BY <3>2, FS_Singleton
    <3> QED
      BY <3>1, <3>2 DEF EventInv
  <2> QED
    BY <2>1 DEF EventInv
<1> QED
  BY <1>1, <1>2, OutcomeStep, BudgetInvariance, WebhookTypeCorrect, PTL DEF Spec

(* The outcome of an event is earned, and single without redelivery.        *)
THEOREM OutcomesAlwaysAgree == Spec => []OutcomesAgree
  BY OutcomesEarned, OneOutcome, PTL DEF OutcomesAgree

(* Nothing rewrites the final record of an event whose messages were        *)
(* delivered once: update_webhook_event never looks at the stored status.   *)
THEOREM FinalWithoutRedelivery == Spec => TerminalStableWithoutRedelivery
<1>1. Init => OutcomeInv
  BY DEF Init, OutcomeInv, EventInv, NewRecord, Holds
<1>2. ASSUME TypeOK, CopyInv, OutcomeInv, Next,
             NEW e \in Events, copies[e] = 0, events[e].status \in Terminal
      PROVE  events'[e] = events[e]
  <2>1. ASSUME NEW f \in Events, StoreEvent(f) PROVE events'[e] = events[e]
    BY <1>2, <2>1 DEF StoreEvent, Terminal, TypeOK
  <2>2. ASSUME NEW w \in Workers, WriteRecord(w) PROVE events'[e] = events[e]
    <3>1. Holds(w) /\ pc[w] = "write"
      BY <2>2 DEF WriteRecord, SaveOutcome, Goto, Holds
    <3>2. CASE msg[w].event = e
      BY <1>2, <3>1, <3>2 DEF OutcomeInv, EventInv, OnItsWay, Terminal
    <3>3. CASE msg[w].event # e
      BY <2>2, <3>3 DEF WriteRecord, SaveOutcome, TypeOK
    <3> QED
      BY <3>2, <3>3
  <2>3. ASSUME NEW w \in Workers, Task(w) \/ Crash(w), ~WriteRecord(w)
        PROVE  UNCHANGED events
    BY <2>3 DEF Task, Crash, Receive, LoadEvent, LoadFails, AttemptDelivery, ScheduleRetry,
                RetryRejected, Settle, ReadRecord, UpdateFails, Finish, Acknowledge
  <2> QED
    BY <1>2, <2>1, <2>2, <2>3 DEF Next, Redeliver
<1>3. TypeOK /\ CopyInv /\ OutcomeInv /\ [Next]_vars
      => [\A e \in Events : copies[e] = 0 /\ events[e].status \in Terminal
            => events'[e] = events[e]]_events
  BY <1>2 DEF vars
<1> QED
  BY <1>1, <1>3, OutcomeStep, BudgetInvariance, WebhookTypeCorrect, PTL
  DEF Spec, TerminalStableWithoutRedelivery
=============================================================================
