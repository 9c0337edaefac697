--------------------------- MODULE CaseLifecycle ---------------------------
(***************************************************************************)
(* Cases and their timelines: analysts create, patch, comment and close     *)
(* them over the API while generate_case tasks open them for high risk      *)
(* transactions.  Every handler is one READ COMMITTED transaction without a *)
(* row lock: it reads the case, decides on what it read, and its UPDATE of  *)
(* the changed columns goes out at commit, over whatever is there by then.  *)
(***************************************************************************)
EXTENDS Naturals, Sequences, FiniteSets, Folds

CONSTANTS Cases,         (* case ids                                        *)
          Txs,           (* persisted transactions                          *)
          Slots,         (* API requests in flight at once                  *)
          Tasks,         (* generate_case messages, risk HIGH or CRITICAL   *)
          TxOf,          (* the transaction of a message                    *)
          ScoreIdParses, (* messages whose score_id is empty or a UUID      *)
          InfoEnabled,   (* the worker's log level includes INFO            *)
          MaxEvents,     (* bound of the model: events of all cases         *)
          None

ASSUME CaseAssumption ==
  /\ TxOf \in [Tasks -> Txs]
  /\ ScoreIdParses \subseteq Tasks
  /\ InfoEnabled \in BOOLEAN
  /\ MaxEvents \in Nat
  /\ None \notin Cases /\ None \notin Txs

VARIABLES
  cases,     (* table cases                                                 *)
  events,    (* table case_events: the timeline of each case                *)
  slot,      (* the handler each API request is in                          *)
  task,      (* where each generate_case message is                         *)
  made,      (* the case a task has committed and not yet announced         *)
  announced, (* history: times case.created was published for a case        *)
  due,       (* history: cases tasks opened, less those whose announcement   *)
             (* a crash or Redis has prevented                              *)
  stale      (* history: a status was written over one its writer never saw *)

vars == <<cases, events, slot, task, made, announced, due, stale>>

Statuses == {"OPEN", "IN_REVIEW", "CONFIRMED", "FALSE_ALARM", "CLOSED"}
Active == {"OPEN", "IN_REVIEW", "CONFIRMED"}

(* _CASE_TRANSITIONS                                                        *)
Transitions == [OPEN        |-> {"IN_REVIEW", "FALSE_ALARM"},
                IN_REVIEW   |-> {"CONFIRMED", "CLOSED", "FALSE_ALARM", "OPEN"},
                CONFIRMED   |-> {"CLOSED"},
                FALSE_ALARM |-> {"CLOSED", "IN_REVIEW"},
                CLOSED      |-> {}]

(* confirmed_at and closed_at are the timeline positions of the events they *)
(* were stamped with; 0 is NULL.                                            *)
Positions == Nat
CaseRow == [status : Statuses \cup {"ABSENT"}, tx : Txs \cup {None},
            confirmed : Positions, closed : Positions, assigned : BOOLEAN]
Absent == [status |-> "ABSENT", tx |-> None, confirmed |-> 0, closed |-> 0,
           assigned |-> FALSE]
Event == [action : {"CREATED", "STATUS_CHANGED", "ASSIGNED", "COMMENT", "CLOSED"},
          from : Statuses \cup {"NONE"}, to : Statuses \cup {"NONE"}]

(* What a request asks for: a PATCH (status, assignee or both), a close or  *)
(* a comment.                                                               *)
Patches == [kind : {"patch"}, to : Statuses \cup {"NONE"}, assign : BOOLEAN]
           \ {[kind |-> "patch", to |-> "NONE", assign |-> FALSE]}
Close == [kind |-> "close", to |-> "CLOSED", assign |-> FALSE]
Comment == [kind |-> "comment", to |-> "NONE", assign |-> FALSE]
Ops == Patches \cup {Close, Comment}

(* A handler between its SELECT and its commit: the status and confirmed_at *)
(* it read, or the transaction it creates a case for and failed attempts.   *)
Idle == [stage |-> "idle", case |-> None, status |-> "NONE",
         confirmed |-> 0, tx |-> None, attempt |-> 0]
Slot == [stage : {"idle", "loaded", "creating"}, case : Cases \cup {None},
         status : Statuses \cup {"NONE"}, confirmed : Positions,
         tx : Txs \cup {None}, attempt : 0..2]

Exists(k) == cases[k].status # "ABSENT"
ActiveCases(x) == {k \in Cases : cases[k].tx = x /\ cases[k].status \in Active}

TypeOK ==
  /\ cases \in [Cases -> CaseRow]
  /\ \A k \in Cases : Exists(k) <=> cases[k].tx # None
  /\ events \in [Cases -> Seq(Event)]
  /\ slot \in [Slots -> Slot]
  /\ \A s \in Slots : /\ slot[s].stage = "creating" => slot[s].tx \in Txs
                      /\ slot[s].stage = "loaded" =>
                           /\ slot[s].case \in Cases /\ Exists(slot[s].case)
                           /\ slot[s].status \in Statuses
  /\ task \in [Tasks -> {"queued", "insert", "notify", "done", "failed"}]
  /\ made \in [Tasks -> Cases \cup {None}]
  /\ \A g \in Tasks : (made[g] # None) <=> (task[g] = "notify")
  /\ announced \in [Cases -> Nat]
  /\ due \subseteq Cases
  /\ stale \in [Cases -> BOOLEAN]

Init ==
  /\ cases = [k \in Cases |-> Absent]
  /\ events = [k \in Cases |-> <<>>]
  /\ slot = [s \in Slots |-> Idle]
  /\ task = [g \in Tasks |-> "queued"]
  /\ made = [g \in Tasks |-> None]
  /\ announced = [k \in Cases |-> 0]
  /\ due = {}
  /\ stale = [k \in Cases |-> FALSE]

-----------------------------------------------------------------------------
RoomFor(n) ==
  MapThenFoldSet(LAMBDA i, j : i + j, n, LAMBDA k : Len(events[k]),
                 LAMBDA ks : CHOOSE k \in ks : TRUE, Cases) <= MaxEvents

(* A new row and its CREATED event, in one commit.                          *)
Insert(k, x) ==
  /\ ~Exists(k)
  /\ RoomFor(1)
  /\ cases' = [cases EXCEPT ![k] = [Absent EXCEPT !.status = "OPEN", !.tx = x]]
  /\ events' = [events EXCEPT ![k] =
        <<[action |-> "CREATED", from |-> "NONE", to |-> "OPEN"]>>]

(* POST /cases: the transaction exists; up to three case numbers are tried. *)
BeginCreate(s, x) ==
  /\ slot[s] = Idle
  /\ slot' = [slot EXCEPT ![s] = [Idle EXCEPT !.stage = "creating", !.tx = x]]
  /\ UNCHANGED <<cases, events, task, made, announced, due, stale>>

CaseNoTaken(s) ==
  /\ slot[s].stage = "creating"
  /\ LET tried == slot[s].attempt IN
     slot' = [slot EXCEPT ![s] =
        IF tried < 2 THEN [@ EXCEPT !.attempt = tried + 1] ELSE Idle]
  /\ UNCHANGED <<cases, events, task, made, announced, due, stale>>

CreateCase(s, k) ==
  /\ slot[s].stage = "creating"
  /\ Insert(k, slot[s].tx)
  /\ slot' = [slot EXCEPT ![s] = Idle]
  /\ UNCHANGED <<task, made, announced, due, stale>>

-----------------------------------------------------------------------------
AcceptsAnyClose(op, status) ==
  CASE op.kind = "patch" -> op.to = "NONE" \/ op.to \in Transitions[status]
    [] OTHER -> TRUE

(* _validate_transition for a PATCH, the status check of a close.           *)
Accepts(op, status) ==
  CASE op.kind = "patch" -> op.to = "NONE" \/ op.to \in Transitions[status]
    [] op.kind = "close" -> status # "CLOSED"
    [] op.kind = "comment" -> TRUE

Load(s, k) ==
  /\ slot[s] = Idle
  /\ Exists(k)
  /\ slot' = [slot EXCEPT ![s] =
        [Idle EXCEPT !.stage = "loaded", !.case = k,
                     !.status = cases[k].status, !.confirmed = cases[k].confirmed]]
  /\ UNCHANGED <<cases, events, task, made, announced, due, stale>>

(* The events a handler adds, with the status it read as from_status.       *)
NewEvents(op, from) ==
  (IF op.to = "NONE" THEN <<>>
   ELSE <<[action |-> IF op.kind = "close" THEN "CLOSED" ELSE "STATUS_CHANGED",
           from |-> from, to |-> op.to]>>)
  \o (IF op.assign THEN <<[action |-> "ASSIGNED", from |-> "NONE", to |-> "NONE"]>>
      ELSE <<>>)
  \o (IF op.kind = "comment" THEN <<[action |-> "COMMENT", from |-> "NONE", to |-> "NONE"]>>
      ELSE <<>>)

UpdateForgettingClosedAt(row, op, confirmed, position) ==
  [row EXCEPT !.status = IF op.to = "NONE" THEN @ ELSE op.to,
              !.confirmed = IF op.to = "CONFIRMED" /\ confirmed = 0 THEN position ELSE @,
              !.closed = IF op.kind = "close" THEN position ELSE @,
              !.assigned = @ \/ op.assign]

(* The UPDATE: only columns the handler assigned, over the row as it is now.*)
Update(row, op, confirmed, position) ==
  [row EXCEPT !.status = IF op.to = "NONE" THEN @ ELSE op.to,
              !.confirmed = IF op.to = "CONFIRMED" /\ confirmed = 0 THEN position ELSE @,
              !.closed = IF op.to = "CLOSED" THEN position ELSE @,
              !.assigned = @ \/ op.assign]

(* What the request asks for is looked at only after the SELECT.            *)
Commit(s, op) ==
  LET k == slot[s].case  new == NewEvents(op, slot[s].status) IN
  /\ slot[s].stage = "loaded"
  /\ Accepts(op, slot[s].status)
  /\ RoomFor(Len(new))
  /\ cases' = [cases EXCEPT ![k] =
        Update(@, op, slot[s].confirmed, Len(events[k]) + 1)]
  /\ events' = [events EXCEPT ![k] = @ \o new]
  /\ stale' = IF op.to # "NONE" /\ cases[k].status # slot[s].status
              THEN [stale EXCEPT ![k] = TRUE] ELSE stale
  /\ slot' = [slot EXCEPT ![s] = Idle]
  /\ UNCHANGED <<task, made, announced, due>>

(* The request is refused, or a statement raises: rollback, error response. *)
Abort(s) ==
  /\ slot[s].stage # "idle"
  /\ slot' = [slot EXCEPT ![s] = Idle]
  /\ UNCHANGED <<cases, events, task, made, announced, due, stale>>

-----------------------------------------------------------------------------
(* generate_case.  The first log call passes keyword arguments to a stdlib  *)
(* logger and raises when INFO is enabled; the one in the exception handler *)
(* always raises, so a failed task is never retried.                        *)
Goto(g, from, to) ==
  /\ task[g] = from
  /\ task' = [task EXCEPT ![g] = to]

CheckFails(g) ==
  /\ Goto(g, "queued", "failed")
  /\ \/ InfoEnabled
     \/ Cardinality(ActiveCases(TxOf[g])) > 1
     \/ ActiveCases(TxOf[g]) = {} /\ g \notin ScoreIdParses
  /\ UNCHANGED <<cases, events, slot, made, announced, due, stale>>

SkipTaskAnnouncing(g) ==
  /\ Goto(g, "queued", "done")
  /\ ~InfoEnabled
  /\ Cardinality(ActiveCases(TxOf[g])) = 1
  /\ announced' = [k \in Cases |->
        IF k \in ActiveCases(TxOf[g]) THEN announced[k] + 1 ELSE announced[k]]
  /\ UNCHANGED <<cases, events, slot, made, due, stale>>

SkipTask(g) ==
  /\ Goto(g, "queued", "done")
  /\ ~InfoEnabled
  /\ Cardinality(ActiveCases(TxOf[g])) = 1
  /\ UNCHANGED <<cases, events, slot, made, announced, due, stale>>

PassCheck(g) ==
  /\ Goto(g, "queued", "insert")
  /\ ~InfoEnabled
  /\ ActiveCases(TxOf[g]) = {}
  /\ g \in ScoreIdParses
  /\ UNCHANGED <<cases, events, slot, made, announced, due, stale>>

GenerateCase(g, k) ==
  /\ Goto(g, "insert", "notify")
  /\ Insert(k, TxOf[g])
  /\ made' = [made EXCEPT ![g] = k]
  /\ due' = due \cup {k}
  /\ UNCHANGED <<slot, announced, stale>>

InsertFailsQuietly(g) ==
  /\ Goto(g, "insert", "done")
  /\ UNCHANGED <<cases, events, slot, made, announced, due, stale>>

InsertFails(g) ==
  /\ Goto(g, "insert", "failed")
  /\ UNCHANGED <<cases, events, slot, made, announced, due, stale>>

(* case.created is published, or the failure is swallowed.                  *)
Notify(g) ==
  /\ Goto(g, "notify", "done")
  /\ \/ announced' = [announced EXCEPT ![made[g]] = @ + 1] /\ UNCHANGED due
     \/ due' = due \ {made[g]} /\ UNCHANGED announced
  /\ made' = [made EXCEPT ![g] = None]
  /\ UNCHANGED <<cases, events, slot, stale>>

(* The worker dies before the acknowledgement: the message comes back, an   *)
(* uncommitted insert is rolled back, a committed one stays unannounced.    *)
Crash(g) ==
  /\ task[g] \in {"insert", "notify"}
  /\ task' = [task EXCEPT ![g] = "queued"]
  /\ made' = [made EXCEPT ![g] = None]
  /\ due' = due \ {made[g]}
  /\ UNCHANGED <<cases, events, slot, announced, stale>>

Api(s) ==
  \/ \E x \in Txs : BeginCreate(s, x)
  \/ CaseNoTaken(s)
  \/ \E k \in Cases : CreateCase(s, k)
  \/ \E k \in Cases : Load(s, k)
  \/ \E op \in Ops : Commit(s, op)
  \/ Abort(s)

Worker(g) ==
  \/ CheckFails(g) \/ SkipTask(g) \/ PassCheck(g)
  \/ \E k \in Cases : GenerateCase(g, k)
  \/ InsertFails(g) \/ Notify(g) \/ Crash(g)

Next ==
  \/ \E s \in Slots : Api(s)
  \/ \E g \in Tasks : Worker(g)

Spec == Init /\ [][Next]_vars

-----------------------------------------------------------------------------
StatusEvents(k) == {i \in 1..Len(events[k]) : events[k][i].to # "NONE"}
EventsTo(k, status) == {i \in StatusEvents(k) : events[k][i].to = status}
LastOf(positions) == CHOOSE i \in positions : \A j \in positions : j <= i

(* However requests overlap, the timeline explains the row: it starts with  *)
(* the only CREATED event, its last status event gives the status, closed_at*)
(* belongs to the last closing and confirmed_at to some confirmation.       *)
TimelineExplainsCase ==
  \A k \in Cases :
    /\ Exists(k) <=> StatusEvents(k) # {}
    /\ Exists(k) =>
         /\ {i \in 1..Len(events[k]) : events[k][i].action = "CREATED"} = {1}
         /\ cases[k].status = events[k][LastOf(StatusEvents(k))].to
    /\ (cases[k].closed = 0) <=> (EventsTo(k, "CLOSED") = {})
    /\ cases[k].closed # 0 => cases[k].closed = LastOf(EventsTo(k, "CLOSED"))
    /\ (cases[k].confirmed = 0) <=> (EventsTo(k, "CONFIRMED") = {})
    /\ cases[k].confirmed # 0 => cases[k].confirmed \in EventsTo(k, "CONFIRMED")

(* A case no request overwrote blindly has a path for a timeline: every     *)
(* status event starts where the one before ended, on an edge of the matrix *)
(* or a close; CLOSED and closed_at end it, for good.                       *)
SerialTimeline ==
  \A k \in Cases : ~stale[k] =>
    /\ \A i \in StatusEvents(k) \ {1} :
         LET before == events[k][LastOf({j \in StatusEvents(k) : j < i})].to IN
         /\ events[k][i].from = before
         /\ \/ events[k][i].to \in Transitions[before]
            \/ events[k][i].action = "CLOSED" /\ before # "CLOSED"
    /\ Cardinality(EventsTo(k, "CLOSED")) <= 1
    /\ cases[k].closed # 0 <=> cases[k].status = "CLOSED"

(* A generate_case message that was acknowledged without an error leaves    *)
(* its transaction with a case, its own or an analyst's.                    *)
HandledMeansCase ==
  \A g \in Tasks : task[g] \in {"notify", "done"} =>
    \E k \in Cases : cases[k].tx = TxOf[g]

(* A case is announced after its commit and never twice, crashes and        *)
(* redeliveries of the task included.  Each case a task has opened is       *)
(* announced, or a task is about to, unless a crash between commit and      *)
(* announcement or a failing Redis prevented it: redelivery does not make   *)
(* up for that (generate_case, _notify_case_created).                       *)
AnnouncedOnce ==
  /\ \A k \in Cases : announced[k] <= (IF Exists(k) THEN 1 ELSE 0)
  /\ \A k \in due : announced[k] = 1 \/ \E g \in Tasks : made[g] = k

(* cases.py, comment of _CASE_TRANSITIONS: CLOSED is a final status.        *)
ClosedIsTerminal ==
  \A k \in Cases : EventsTo(k, "CLOSED") # {} => cases[k].status = "CLOSED"
=============================================================================
