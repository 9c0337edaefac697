------------------------ MODULE CaseLifecycle_proofs ------------------------
(***************************************************************************)
(* Proofs about CaseLifecycle: however requests and tasks overlap, a case's *)
(* timeline explains its row, a handled message has its case, and a case is *)
(* announced once.                                                          *)
(***************************************************************************)
EXTENDS CaseLifecycle, FiniteSetTheorems, SequenceTheorems, TLAPS

LEMMA OneElement ==
  ASSUME NEW S, NEW x \in S
  PROVE  <<x>> \in Seq(S) /\ Len(<<x>>) = 1 /\ <<x>>[1] = x
  OBVIOUS

LEMMA NoElement ==
  ASSUME NEW S
  PROVE  <<>> \in Seq(S) /\ Len(<<>>) = 0
  OBVIOUS

LEMMA OpsAre ==
  ASSUME NEW op \in Ops
  PROVE  /\ op.to \in Statuses \cup {"NONE"} /\ op.assign \in BOOLEAN
         /\ op.kind \in {"patch", "close", "comment"}
         /\ op.kind = "close" => op.to = "CLOSED"
         /\ op.kind = "comment" => op.to = "NONE"
<1>1. CASE op \in Patches
  BY <1>1 DEF Patches
<1>2. CASE op = Close
  BY <1>2 DEF Close, Statuses
<1>3. CASE op = Comment
  BY <1>3 DEF Comment
<1> QED
  BY <1>1, <1>2, <1>3 DEF Ops

(* A handler's events: the status event, if any, is the first of them.      *)
LEMMA NewEventsAre ==
  ASSUME NEW op \in Ops, NEW from \in Statuses \cup {"NONE"}
  PROVE  /\ NewEvents(op, from) \in Seq(Event)
         /\ \A i \in 1..Len(NewEvents(op, from)) :
              /\ NewEvents(op, from)[i].action # "CREATED"
              /\ NewEvents(op, from)[i].to = (IF i = 1 THEN op.to ELSE "NONE")
         /\ op.to # "NONE" =>
              /\ Len(NewEvents(op, from)) > 0
              /\ NewEvents(op, from)[1].from = from
              /\ op.kind = "close" => NewEvents(op, from)[1].action = "CLOSED"
<1> DEFINE status == IF op.to = "NONE" THEN <<>>
                     ELSE <<[action |-> IF op.kind = "close" THEN "CLOSED"
                                        ELSE "STATUS_CHANGED",
                             from |-> from, to |-> op.to]>>
           assigned == IF op.assign
                       THEN <<[action |-> "ASSIGNED", from |-> "NONE", to |-> "NONE"]>>
                       ELSE <<>>
           comment == IF op.kind = "comment"
                      THEN <<[action |-> "COMMENT", from |-> "NONE", to |-> "NONE"]>>
                      ELSE <<>>
<1>1. /\ status \in Seq(Event)
      /\ op.to = "NONE" => Len(status) = 0
      /\ op.to # "NONE" =>
           /\ Len(status) = 1 /\ status[1].to = op.to /\ status[1].from = from
           /\ status[1].action # "CREATED"
           /\ op.kind = "close" => status[1].action = "CLOSED"
  <2> DEFINE event == [action |-> IF op.kind = "close" THEN "CLOSED" ELSE "STATUS_CHANGED",
                       from |-> from, to |-> op.to]
  <2>1. /\ event \in Event /\ event.to = op.to /\ event.from = from
        /\ event.action # "CREATED" /\ (op.kind = "close" => event.action = "CLOSED")
    BY OpsAre DEF Event
  <2>2. status = IF op.to = "NONE" THEN <<>> ELSE <<event>>
    OBVIOUS
  <2> HIDE DEF event, status
  <2> QED
    BY <2>1, <2>2, OneElement, NoElement
<1> DEFINE plain(action) == [action |-> action, from |-> "NONE", to |-> "NONE"]
<1>0. \A action \in {"ASSIGNED", "COMMENT"} :
        /\ plain(action) \in Event /\ plain(action).to = "NONE"
        /\ plain(action).action # "CREATED"
  BY DEF Event
<1>2. /\ assigned \in Seq(Event) /\ Len(assigned) \in {0, 1}
      /\ \A i \in 1..Len(assigned) : assigned[i].to = "NONE" /\ assigned[i].action # "CREATED"
  <2>1. assigned = IF op.assign THEN <<plain("ASSIGNED")>> ELSE <<>>
    OBVIOUS
  <2> HIDE DEF plain, assigned
  <2> QED
    BY <1>0, <2>1, OneElement, NoElement
<1>3. /\ comment \in Seq(Event) /\ Len(comment) \in {0, 1}
      /\ \A i \in 1..Len(comment) : comment[i].to = "NONE" /\ comment[i].action # "CREATED"
  <2>1. comment = IF op.kind = "comment" THEN <<plain("COMMENT")>> ELSE <<>>
    OBVIOUS
  <2> HIDE DEF plain, comment
  <2> QED
    BY <1>0, <2>1, OneElement, NoElement
<1>4. NewEvents(op, from) = (status \o assigned) \o comment
  BY DEF NewEvents
<1> HIDE DEF status, assigned, comment, plain
<1>5. /\ status \o assigned \in Seq(Event)
      /\ Len(status \o assigned) = Len(status) + Len(assigned)
      /\ \A i \in 1..(Len(status) + Len(assigned)) : (status \o assigned)[i] =
           IF i <= Len(status) THEN status[i] ELSE assigned[i - Len(status)]
  BY <1>1, <1>2, ConcatProperties
<1>6. /\ (status \o assigned) \o comment \in Seq(Event)
      /\ Len((status \o assigned) \o comment) = Len(status \o assigned) + Len(comment)
      /\ \A i \in 1..(Len(status \o assigned) + Len(comment)) :
           ((status \o assigned) \o comment)[i] =
           IF i <= Len(status \o assigned) THEN (status \o assigned)[i]
           ELSE comment[i - Len(status \o assigned)]
  BY <1>3, <1>5, ConcatProperties
<1>7. Len(status) \in {0, 1}
  BY <1>1
<1>8. ASSUME NEW i \in 1..Len(NewEvents(op, from))
      PROVE  /\ NewEvents(op, from)[i].action # "CREATED"
             /\ NewEvents(op, from)[i].to = (IF i = 1 THEN op.to ELSE "NONE")
  <2>1. CASE i <= Len(status)
    <3>1. i = 1 /\ Len(status) = 1 /\ op.to # "NONE" /\ NewEvents(op, from)[i] = status[1]
      BY <1>1, <1>2, <1>3, <1>4, <1>5, <1>6, <1>7, <2>1
    <3> QED
      BY <1>1, <3>1
  <2>2. ASSUME i > Len(status)
        PROVE  \/ \E j \in 1..Len(assigned) : NewEvents(op, from)[i] = assigned[j]
               \/ \E j \in 1..Len(comment) : NewEvents(op, from)[i] = comment[j]
    <3>1. CASE i <= Len(status) + Len(assigned)
      <4>1. NewEvents(op, from)[i] = assigned[i - Len(status)]
        BY <1>2, <1>3, <1>4, <1>5, <1>6, <1>7, <2>2, <3>1
      <4>2. i - Len(status) \in 1..Len(assigned)
        BY <1>2, <1>7, <2>2, <3>1
      <4> QED
        BY <4>1, <4>2
    <3>2. CASE i > Len(status) + Len(assigned)
      <4>1. NewEvents(op, from)[i] = comment[i - (Len(status) + Len(assigned))]
        BY <1>2, <1>3, <1>4, <1>5, <1>6, <1>7, <2>2, <3>2
      <4>2. i - (Len(status) + Len(assigned)) \in 1..Len(comment)
        BY <1>2, <1>3, <1>4, <1>5, <1>6, <1>7, <3>2
      <4> QED
        BY <4>1, <4>2
    <3> QED
      BY <1>2, <1>7, <3>1, <3>2
  <2>3. i > Len(status) => (IF i = 1 THEN op.to ELSE "NONE") = "NONE"
    BY <1>1
  <2> QED
    BY <1>2, <1>3, <1>7, <2>1, <2>2, <2>3
<1>9. op.to # "NONE" => NewEvents(op, from)[1] = status[1]
  BY <1>1, <1>2, <1>3, <1>4, <1>5, <1>6
<1> QED
  BY <1>1, <1>2, <1>3, <1>4, <1>5, <1>6, <1>8, <1>9

(* The row after a handler's UPDATE.                                        *)
LEMMA UpdateIs ==
  ASSUME NEW row \in CaseRow, NEW op \in Ops, NEW confirmed \in Nat, NEW position \in Nat
  PROVE  /\ Update(row, op, confirmed, position) \in CaseRow
         /\ Update(row, op, confirmed, position).status =
              (IF op.to = "NONE" THEN row.status ELSE op.to)
         /\ Update(row, op, confirmed, position).tx = row.tx
         /\ Update(row, op, confirmed, position).confirmed =
              (IF op.to = "CONFIRMED" /\ confirmed = 0 THEN position ELSE row.confirmed)
         /\ Update(row, op, confirmed, position).closed =
              (IF op.to = "CLOSED" THEN position ELSE row.closed)
<1> DEFINE assigned == row.assigned \/ op.assign
<1>1. assigned \in BOOLEAN
  BY OpsAre DEF CaseRow
<1>2. Update(row, op, confirmed, position) =
        [row EXCEPT !.status = IF op.to = "NONE" THEN row.status ELSE op.to,
                    !.confirmed = IF op.to = "CONFIRMED" /\ confirmed = 0
                                  THEN position ELSE row.confirmed,
                    !.closed = IF op.to = "CLOSED" THEN position ELSE row.closed,
                    !.assigned = assigned]
  BY DEF Update
<1> HIDE DEF assigned
<1> QED
  BY <1>1, <1>2, OpsAre DEF CaseRow, Positions

-----------------------------------------------------------------------------
CreatedEvent == [action |-> "CREATED", from |-> "NONE", to |-> "OPEN"]

(* A new row and its timeline.                                              *)
LEMMA InsertIs ==
  ASSUME TypeOK, NEW k \in Cases, NEW x \in Txs, Insert(k, x)
  PROVE  /\ cases' \in [Cases -> CaseRow] /\ events' \in [Cases -> Seq(Event)]
         /\ cases[k].status = "ABSENT" /\ cases[k].tx = None
         /\ cases'[k].status = "OPEN" /\ cases'[k].tx = x
         /\ cases'[k].confirmed = 0 /\ cases'[k].closed = 0
         /\ Len(events'[k]) = 1 /\ events'[k][1] = CreatedEvent
         /\ \A j \in Cases \ {k} : cases'[j] = cases[j] /\ events'[j] = events[j]
<1> DEFINE row == [Absent EXCEPT !.status = "OPEN", !.tx = x]
<1>1. /\ row \in CaseRow /\ row.status = "OPEN" /\ row.tx = x
      /\ row.confirmed = 0 /\ row.closed = 0
  BY DEF Absent, CaseRow, Positions, Statuses
<1>2. /\ <<CreatedEvent>> \in Seq(Event) /\ Len(<<CreatedEvent>>) = 1
      /\ <<CreatedEvent>>[1] = CreatedEvent
  <2>1. CreatedEvent \in Event
    BY DEF CreatedEvent, Event, Statuses
  <2> QED
    BY <2>1, OneElement
<1>3. /\ cases' = [cases EXCEPT ![k] = row]
      /\ events' = [events EXCEPT ![k] = <<CreatedEvent>>]
      /\ cases[k].status = "ABSENT"
  BY DEF Insert, Exists, CreatedEvent
<1>4. cases[k].tx = None
  BY <1>3 DEF TypeOK, Exists
<1> HIDE DEF row
<1> QED
  BY <1>1, <1>2, <1>3, <1>4 DEF TypeOK

LEMMA IdleType == Idle \in Slot
  BY DEF Idle, Slot, Positions

LEMMA ExistsStays ==
  TypeOK /\ [Next]_vars => \A k \in Cases : Exists(k) => Exists(k)'
<1> SUFFICES ASSUME TypeOK, [Next]_vars, NEW k \in Cases, Exists(k) PROVE Exists(k)'
  OBVIOUS
<1>1. ASSUME NEW j \in Cases, NEW x, Insert(j, x) PROVE Exists(k)'
  BY <1>1 DEF Insert, Exists, TypeOK
<1>2. ASSUME NEW s \in Slots, NEW op \in Ops, Commit(s, op) PROVE Exists(k)'
  <2> DEFINE j == slot[s].case
             row == Update(cases[j], op, slot[s].confirmed, Len(events[j]) + 1)
  <2>1. j \in Cases /\ cases[j] \in CaseRow /\ slot[s].confirmed \in Nat /\ Exists(j)
        /\ Len(events[j]) + 1 \in Nat
    BY <1>2 DEF Commit, TypeOK, Slot, Positions
  <2>2. row.status = (IF op.to = "NONE" THEN cases[j].status ELSE op.to)
    BY <2>1, UpdateIs
  <2>3. row.status # "ABSENT"
    BY <2>1, <2>2, OpsAre DEF Exists, Statuses
  <2>4. cases' = [cases EXCEPT ![j] = row]
    BY <1>2 DEF Commit
  <2> HIDE DEF row
  <2> QED
    BY <2>1, <2>3, <2>4 DEF Exists, TypeOK
<1>3. CASE UNCHANGED cases
  BY <1>3 DEF Exists
<1> QED
  BY <1>1, <1>2, <1>3
  DEF Next, Api, Worker, BeginCreate, CaseNoTaken, CreateCase, Load, Abort, CheckFails, SkipTask,
      PassCheck, GenerateCase, InsertFails, Notify, Crash, vars

LEMMA TypeStep == TypeOK /\ [Next]_vars => TypeOK'
<1> SUFFICES ASSUME TypeOK, [Next]_vars PROVE TypeOK'
  OBVIOUS
<1> USE CaseAssumption
<1> DEFINE SlotOK(v) ==
             /\ v \in Slot
             /\ v.stage = "creating" => v.tx \in Txs
             /\ v.stage = "loaded" =>
                  v.case \in Cases /\ Exists(v.case) /\ v.status \in Statuses
<1>1. SlotOK(Idle) /\ \A s \in Slots : SlotOK(slot[s])
  BY IdleType DEF Idle, TypeOK
<1>2. ASSUME NEW s \in Slots, NEW v, SlotOK(v), slot' = [slot EXCEPT ![s] = v]
      PROVE  /\ slot' \in [Slots -> Slot]
             /\ \A r \in Slots : /\ slot'[r].stage = "creating" => slot'[r].tx \in Txs
                                 /\ slot'[r].stage = "loaded" =>
                                      /\ slot'[r].case \in Cases /\ Exists(slot[r].case)'
                                      /\ slot'[r].status \in Statuses
  <2>1. slot'[s] = v /\ \A r \in Slots \ {s} : slot'[r] = slot[r]
    BY <1>2 DEF TypeOK
  <2>2. \A r \in Slots : SlotOK(slot'[r])
    BY <1>1, <1>2, <2>1
  <2>3. slot' \in [Slots -> Slot]
    BY <1>2 DEF TypeOK
  <2> QED
    BY <2>2, <2>3, ExistsStays
<1>3. ASSUME NEW s \in Slots, NEW x \in Txs, BeginCreate(s, x) PROVE TypeOK'
  <2>1. SlotOK([Idle EXCEPT !.stage = "creating", !.tx = x])
    BY IdleType DEF Slot
  <2> QED
    BY <1>2, <1>3, <2>1 DEF BeginCreate, TypeOK, Exists
<1>4. ASSUME NEW s \in Slots, CaseNoTaken(s) PROVE TypeOK'
  <2>1. CASE slot[s].attempt < 2
    <3>1. SlotOK([slot[s] EXCEPT !.attempt = @ + 1])
      <4>1. slot[s] \in Slot /\ slot[s].stage = "creating" /\ slot[s].tx \in Txs
        BY <1>1, <1>4 DEF CaseNoTaken
      <4>2. slot[s].attempt \in 0..2 /\ slot[s].attempt + 1 \in 0..2
        BY <2>1, <4>1 DEF Slot
      <4> QED
        BY <4>1, <4>2 DEF Slot
    <3>2. slot' = [slot EXCEPT ![s] = [slot[s] EXCEPT !.attempt = @ + 1]]
      BY <1>4, <2>1 DEF CaseNoTaken
    <3> QED
      BY <1>2, <1>4, <3>1, <3>2 DEF CaseNoTaken, TypeOK, Exists
  <2>2. CASE ~(slot[s].attempt < 2)
    <3>1. slot' = [slot EXCEPT ![s] = Idle]
      BY <1>4, <2>2 DEF CaseNoTaken
    <3> QED
      BY <1>1, <1>2, <1>4, <3>1 DEF CaseNoTaken, TypeOK, Exists
  <2> QED
    BY <2>1, <2>2
<1>5. ASSUME NEW s \in Slots, Abort(s) PROVE TypeOK'
  BY <1>1, <1>2, <1>5 DEF Abort, TypeOK, Exists
<1>6. ASSUME NEW s \in Slots, NEW k \in Cases, CreateCase(s, k) PROVE TypeOK'
  <2>1. Insert(k, slot[s].tx) /\ slot[s].tx \in Txs
    BY <1>1, <1>6 DEF CreateCase
  <2>2. /\ cases' \in [Cases -> CaseRow] /\ events' \in [Cases -> Seq(Event)]
        /\ cases'[k].status = "OPEN" /\ cases'[k].tx \in Txs
        /\ \A j \in Cases \ {k} : cases'[j] = cases[j]
    BY <2>1, InsertIs
  <2> QED
    BY <1>1, <1>2, <1>6, <2>2 DEF CreateCase, TypeOK, Exists
<1>7. ASSUME NEW s \in Slots, NEW k \in Cases, Load(s, k) PROVE TypeOK'
  <2> DEFINE v == [Idle EXCEPT !.stage = "loaded", !.case = k,
                               !.status = cases[k].status, !.confirmed = cases[k].confirmed]
  <2>1. cases[k] \in CaseRow /\ cases[k].status \in Statuses
    BY <1>7 DEF Load, Exists, TypeOK, CaseRow
  <2>2. SlotOK(v)
    <3>1. cases[k].confirmed \in Positions
      BY <2>1 DEF CaseRow
    <3>2. Exists(k)
      BY <1>7 DEF Load
    <3> QED
      BY <2>1, <3>1, <3>2, IdleType DEF Slot
  <2>3. slot' = [slot EXCEPT ![s] = v]
    BY <1>7 DEF Load
  <2> HIDE DEF v
  <2> QED
    BY <1>2, <1>7, <2>2, <2>3 DEF Load, TypeOK, Exists
<1>8. ASSUME NEW s \in Slots, NEW op \in Ops, Commit(s, op) PROVE TypeOK'
  <2> DEFINE k == slot[s].case
             new == NewEvents(op, slot[s].status)
             row == Update(cases[k], op, slot[s].confirmed, Len(events[k]) + 1)
  <2>1. /\ k \in Cases /\ slot[s].status \in Statuses /\ slot[s].confirmed \in Nat
        /\ cases[k] \in CaseRow /\ events[k] \in Seq(Event)
    BY <1>1, <1>8 DEF Commit, Slot, Positions, TypeOK
  <2>2. /\ row \in CaseRow /\ row.tx = cases[k].tx
        /\ row.status = (IF op.to = "NONE" THEN cases[k].status ELSE op.to)
    BY <2>1, UpdateIs
  <2>3. new \in Seq(Event) /\ events[k] \o new \in Seq(Event)
    BY <2>1, NewEventsAre, ConcatProperties
  <2>4. /\ cases' = [cases EXCEPT ![k] = row]
        /\ events' = [events EXCEPT ![k] = events[k] \o new]
        /\ slot' = [slot EXCEPT ![s] = Idle]
        /\ UNCHANGED <<task, made, announced, due>>
    BY <1>8 DEF Commit
  <2>5. stale' \in [Cases -> BOOLEAN]
    BY <1>8, <2>1 DEF Commit, TypeOK
  <2>6. Exists(k) /\ row.status # "ABSENT"
    <3>1. Exists(k)
      BY <1>1, <1>8 DEF Commit
    <3> QED
      BY <2>2, <3>1, OpsAre DEF Exists, Statuses
  <2> HIDE DEF k, new, row
  <2>7. \A j \in Cases : Exists(j)' <=> cases'[j].tx # None
    BY <2>1, <2>2, <2>4, <2>6 DEF TypeOK, Exists
  <2>8. cases' \in [Cases -> CaseRow] /\ events' \in [Cases -> Seq(Event)]
    BY <2>1, <2>2, <2>3, <2>4 DEF TypeOK
  <2> QED
    BY <1>1, <1>2, <2>4, <2>5, <2>7, <2>8 DEF TypeOK
<1>9. ASSUME NEW g \in Tasks, \/ CheckFails(g) \/ SkipTask(g) \/ PassCheck(g)
                              \/ InsertFails(g) \/ Crash(g)
      PROVE  TypeOK'
  <2>1. /\ task' \in [Tasks -> {"queued", "insert", "notify", "done", "failed"}]
        /\ made' \in [Tasks -> Cases \cup {None}]
        /\ \A h \in Tasks : (made'[h] # None) <=> (task'[h] = "notify")
    BY <1>9 DEF CheckFails, SkipTask, PassCheck, InsertFails, Crash, Goto, TypeOK
  <2> QED
    BY <1>9, <2>1 DEF CheckFails, SkipTask, PassCheck, InsertFails, Crash, TypeOK, Exists
<1>10. ASSUME NEW g \in Tasks, NEW k \in Cases, GenerateCase(g, k) PROVE TypeOK'
  <2>1. Insert(k, TxOf[g]) /\ TxOf[g] \in Txs
    BY <1>10 DEF GenerateCase
  <2>2. /\ cases' \in [Cases -> CaseRow] /\ events' \in [Cases -> Seq(Event)]
        /\ cases'[k].status = "OPEN" /\ cases'[k].tx \in Txs
        /\ \A j \in Cases \ {k} : cases'[j] = cases[j]
    BY <2>1, InsertIs
  <2>3. /\ task' \in [Tasks -> {"queued", "insert", "notify", "done", "failed"}]
        /\ made' \in [Tasks -> Cases \cup {None}]
        /\ \A h \in Tasks : (made'[h] # None) <=> (task'[h] = "notify")
    BY <1>10 DEF GenerateCase, Goto, TypeOK
  <2>4. /\ due' \subseteq Cases
        /\ UNCHANGED <<slot, announced, stale>>
    BY <1>10 DEF GenerateCase, TypeOK
  <2>5. /\ \A j \in Cases : Exists(j)' <=> cases'[j].tx # None
        /\ \A j \in Cases : Exists(j) => Exists(j)'
    BY <2>2, CaseAssumption DEF TypeOK, Exists
  <2> QED
    BY <2>2, <2>3, <2>4, <2>5 DEF TypeOK
<1>11. ASSUME NEW g \in Tasks, Notify(g) PROVE TypeOK'
  <2>1. /\ task' \in [Tasks -> {"queued", "insert", "notify", "done", "failed"}]
        /\ made' \in [Tasks -> Cases \cup {None}]
        /\ \A h \in Tasks : (made'[h] # None) <=> (task'[h] = "notify")
    BY <1>11 DEF Notify, Goto, TypeOK
  <2>2. announced' \in [Cases -> Nat]
    <3>1. made[g] \in Cases
      BY <1>11 DEF Notify, Goto, TypeOK
    <3>2. announced[made[g]] + 1 \in Nat
      BY <3>1 DEF TypeOK
    <3> QED
      BY <1>11, <3>1, <3>2 DEF Notify, TypeOK
  <2> QED
    BY <1>11, <2>1, <2>2 DEF Notify, TypeOK, Exists
<1>12. CASE UNCHANGED vars
  BY <1>12 DEF vars, TypeOK, Exists
<1> QED
  BY <1>3, <1>4, <1>5, <1>6, <1>7, <1>8, <1>9, <1>10, <1>11, <1>12 DEF Next, Api, Worker

(* Every state has its type: a handler that loaded a case has one that      *)
(* exists, a task about to announce has a case it made.                     *)
THEOREM CaseTypeCorrect == Spec => []TypeOK
<1>1. Init => TypeOK
  <2> SUFFICES ASSUME Init PROVE TypeOK
    OBVIOUS
  <2>1. Absent \in CaseRow
    BY DEF Absent, CaseRow, Positions
  <2>2. events \in [Cases -> Seq(Event)]
    BY NoElement DEF Init
  <2>3. \A k \in Cases : ~Exists(k) /\ cases[k].tx = None
    BY DEF Init, Exists, Absent
  <2>4. slot \in [Slots -> Slot] /\ \A s \in Slots : slot[s].stage = "idle"
    BY IdleType DEF Init, Idle
  <2> QED
    BY <2>1, <2>2, <2>3, <2>4, CaseAssumption DEF Init, TypeOK
<1> QED
  BY <1>1, TypeStep, PTL DEF Spec

-----------------------------------------------------------------------------
(* A case once written keeps its transaction.                               *)
LEMMA TxStays ==
  TypeOK /\ [Next]_vars =>
    \A k \in Cases : cases[k].tx # None => cases'[k].tx = cases[k].tx
<1> SUFFICES ASSUME TypeOK, [Next]_vars, NEW k \in Cases, cases[k].tx # None
             PROVE  cases'[k].tx = cases[k].tx
  OBVIOUS
<1>1. ASSUME NEW j \in Cases, NEW x, Insert(j, x) PROVE cases'[k].tx = cases[k].tx
  BY <1>1 DEF Insert, Exists, TypeOK
<1>2. ASSUME NEW s \in Slots, NEW op \in Ops, Commit(s, op)
      PROVE  cases'[k].tx = cases[k].tx
  <2> DEFINE j == slot[s].case
             row == Update(cases[j], op, slot[s].confirmed, Len(events[j]) + 1)
  <2>1. j \in Cases /\ cases[j] \in CaseRow /\ slot[s].confirmed \in Nat
        /\ Len(events[j]) + 1 \in Nat
    <3>1. j \in Cases /\ slot[s] \in Slot
      BY <1>2 DEF Commit, TypeOK
    <3>2. cases[j] \in CaseRow /\ events[j] \in Seq(Event)
      BY <3>1 DEF TypeOK
    <3>3. slot[s].confirmed \in Nat
      BY <3>1 DEF Slot, Positions
    <3>4. Len(events[j]) \in Nat
      BY <3>2
    <3>5. Len(events[j]) + 1 \in Nat
      BY <3>4
    <3> HIDE DEF j
    <3> QED
      BY <3>1, <3>2, <3>3, <3>5
  <2>2. row.tx = cases[j].tx
    <3>1. ASSUME NEW r \in CaseRow, NEW confirmed \in Nat, NEW position \in Nat
          PROVE  Update(r, op, confirmed, position).tx = r.tx
      BY <3>1, UpdateIs
    <3> QED
      BY <2>1, <3>1
  <2>3. cases' = [cases EXCEPT ![j] = row]
    BY <1>2 DEF Commit
  <2> HIDE DEF row
  <2> QED
    BY <2>1, <2>2, <2>3 DEF TypeOK
<1>3. CASE UNCHANGED cases
  BY <1>3
<1> QED
  BY <1>1, <1>2, <1>3
  DEF Next, Api, Worker, BeginCreate, CaseNoTaken, CreateCase, Load, Abort, CheckFails, SkipTask,
      PassCheck, GenerateCase, InsertFails, Notify, Crash, vars

(* A message acknowledged without an error has left its transaction with a  *)
(* case.                                                                    *)
THEOREM HandledHasCase == Spec => []HandledMeansCase
<1>1. Init => HandledMeansCase
  BY DEF Init, HandledMeansCase
<1>2. TypeOK /\ HandledMeansCase /\ [Next]_vars => HandledMeansCase'
  <2> SUFFICES ASSUME TypeOK, HandledMeansCase, [Next]_vars,
                      NEW g \in Tasks, task'[g] \in {"notify", "done"}
               PROVE  \E k \in Cases : cases'[k].tx = TxOf[g]
    BY DEF HandledMeansCase
  <2>1. TxOf[g] \in Txs /\ TxOf[g] # None
    BY CaseAssumption
  <2>2. ASSUME NEW k \in Cases, cases[k].tx = TxOf[g] PROVE cases'[k].tx = TxOf[g]
    BY <2>1, <2>2, TxStays
  <2>3. CASE task[g] \in {"notify", "done"}
    BY <2>2, <2>3 DEF HandledMeansCase
  <2>4. CASE task[g] \notin {"notify", "done"}
    <3>1. SkipTask(g) \/ \E k \in Cases : GenerateCase(g, k)
      BY <2>4 DEF Next, Api, Worker, BeginCreate, CaseNoTaken, CreateCase, Load, Commit, Abort,
                  CheckFails, SkipTask, PassCheck, GenerateCase, InsertFails, Notify, Crash,
                  Goto, vars, TypeOK
    <3>2. CASE SkipTask(g)
      <4>1. ActiveCases(TxOf[g]) # {}
        BY <3>2, FS_EmptySet DEF SkipTask
      <4> QED
        BY <2>2, <4>1 DEF ActiveCases
    <3>3. ASSUME NEW k \in Cases, GenerateCase(g, k) PROVE cases'[k].tx = TxOf[g]
      BY <2>1, <3>3, InsertIs DEF GenerateCase
    <3> QED
      BY <3>1, <3>2, <3>3
  <2> QED
    BY <2>3, <2>4
<1> QED
  BY <1>1, <1>2, CaseTypeCorrect, PTL DEF Spec

-----------------------------------------------------------------------------
(* The case a task is about to announce is its own and not yet announced.   *)
AnnounceInv ==
  /\ \A k \in Cases : announced[k] <= 1 /\ (announced[k] = 1 => Exists(k))
  /\ \A g \in Tasks : made[g] # None => Exists(made[g]) /\ announced[made[g]] = 0
  /\ \A g, h \in Tasks : made[g] # None /\ made[g] = made[h] => g = h
  /\ \A k \in due : announced[k] = 1 \/ \E g \in Tasks : made[g] = k

LEMMA AnnounceStep == TypeOK /\ AnnounceInv /\ [Next]_vars => AnnounceInv'
<1> SUFFICES ASSUME TypeOK, AnnounceInv, [Next]_vars PROVE AnnounceInv'
  OBVIOUS
<1>1. /\ \A k \in Cases : Exists(k) => Exists(k)'
      /\ \A k \in Cases : announced[k] \in Nat
      /\ \A g \in Tasks : made[g] \in Cases \cup {None}
  BY ExistsStays DEF TypeOK
<1>2. CASE UNCHANGED <<made, announced, due>>
  BY <1>1, <1>2 DEF AnnounceInv
<1>3. ASSUME NEW g \in Tasks, NEW k \in Cases, GenerateCase(g, k) PROVE AnnounceInv'
  <2>1. /\ ~Exists(k) /\ made' = [made EXCEPT ![g] = k] /\ UNCHANGED announced
        /\ due' = due \cup {k}
    BY <1>3 DEF GenerateCase, Insert
  <2>2. Exists(k)'
    BY <1>3, InsertIs, CaseAssumption DEF GenerateCase, Exists
  <2>3. announced[k] = 0 /\ \A h \in Tasks : made[h] # k
    BY <1>1, <2>1, CaseAssumption DEF AnnounceInv
  <2>4. made'[g] = k /\ \A h \in Tasks \ {g} : made'[h] = made[h]
    BY <2>1 DEF TypeOK
  <2>5. made[g] = None
    BY <1>3 DEF GenerateCase, Goto, TypeOK
  <2>6. ASSUME NEW j \in due' PROVE announced'[j] = 1 \/ \E h \in Tasks : made'[h] = j
    <3>1. CASE j = k
      BY <2>4, <3>1
    <3>2. CASE j # k
      BY <1>1, <2>1, <2>4, <2>5, <3>2, CaseAssumption DEF AnnounceInv, TypeOK
    <3> QED
      BY <3>1, <3>2
  <2> QED
    BY <1>1, <2>1, <2>2, <2>3, <2>4, <2>6 DEF AnnounceInv
<1>4. ASSUME NEW g \in Tasks, Notify(g) PROVE AnnounceInv'
  <2>1. /\ made[g] \in Cases /\ Exists(made[g]) /\ announced[made[g]] = 0
    BY <1>1, <1>4 DEF Notify, Goto, TypeOK, AnnounceInv
  <2>2. made'[g] = None /\ \A h \in Tasks \ {g} : made'[h] = made[h]
    BY <1>4 DEF Notify, TypeOK
  <2>3. \A k \in Cases : announced'[k] = announced[k] \/ (k = made[g] /\ announced'[k] = 1)
    BY <1>4, <2>1 DEF Notify, TypeOK
  <2>4. ASSUME NEW j \in due' PROVE announced'[j] = 1 \/ \E h \in Tasks : made'[h] = j
    <3>1. j \in due /\ j \in Cases
      BY <1>4 DEF Notify, TypeOK
    <3>2. CASE j = made[g]
      <4>1. announced' = [announced EXCEPT ![made[g]] = @ + 1]
        BY <1>4, <3>2 DEF Notify
      <4> QED
        BY <2>1, <3>2, <4>1 DEF TypeOK
    <3>3. CASE j # made[g]
      <4>1. announced[j] = 1 \/ \E h \in Tasks \ {g} : made[h] = j
        BY <3>1, <3>3 DEF AnnounceInv
      <4>2. announced'[j] = announced[j]
        BY <2>3, <3>1, <3>3
      <4> QED
        BY <2>2, <4>1, <4>2
    <3> QED
      BY <3>2, <3>3
  <2> QED
    BY <1>1, <2>1, <2>2, <2>3, <2>4 DEF AnnounceInv
<1>5. ASSUME NEW g \in Tasks, Crash(g) PROVE AnnounceInv'
  <2>1. /\ UNCHANGED announced
        /\ made'[g] = None /\ \A h \in Tasks \ {g} : made'[h] = made[h]
    BY <1>5 DEF Crash, TypeOK
  <2>2. ASSUME NEW j \in due' PROVE announced'[j] = 1 \/ \E h \in Tasks : made'[h] = j
    <3>1. j \in due /\ j # made[g]
      BY <1>5 DEF Crash
    <3>2. announced[j] = 1 \/ \E h \in Tasks \ {g} : made[h] = j
      BY <3>1 DEF AnnounceInv
    <3> QED
      BY <2>1, <3>2
  <2> QED
    BY <1>1, <2>1, <2>2 DEF AnnounceInv
<1> QED
  BY <1>2, <1>3, <1>4, <1>5
  DEF Next, Api, Worker, BeginCreate, CaseNoTaken, CreateCase, Load, Commit, Abort, CheckFails,
      SkipTask, PassCheck, InsertFails, vars

(* A case is announced after its commit, never twice, and dropped only by a *)
(* crash or a failing Redis.                                                *)
THEOREM CaseAnnouncedOnce == Spec => []AnnouncedOnce
<1>1. Init => AnnounceInv
  BY DEF Init, AnnounceInv
<1>2. TypeOK /\ AnnounceInv => AnnouncedOnce
  BY DEF TypeOK, AnnounceInv, AnnouncedOnce
<1> QED
  BY <1>1, <1>2, AnnounceStep, CaseTypeCorrect, PTL DEF Spec

-----------------------------------------------------------------------------
(* What a timeline E explains of a row, with the positions named: the status*)
(* is that of a last status event, closed_at the last closing, confirmed_at *)
(* some confirmation.                                                       *)
StatusExplained(row, E) ==
  \E i \in 1..Len(E) : /\ E[i].to = row.status
                       /\ \A j \in 1..Len(E) : j > i => E[j].to = "NONE"

ClosedExplained(row, E) ==
  \/ row.closed = 0 /\ \A i \in 1..Len(E) : E[i].to # "CLOSED"
  \/ /\ row.closed \in 1..Len(E) /\ E[row.closed].to = "CLOSED"
     /\ \A i \in 1..Len(E) : i > row.closed => E[i].to # "CLOSED"

ConfirmedExplained(row, E) ==
  \/ row.confirmed = 0 /\ \A i \in 1..Len(E) : E[i].to # "CONFIRMED"
  \/ row.confirmed \in 1..Len(E) /\ E[row.confirmed].to = "CONFIRMED"

CreatedFirst(E) ==
  /\ Len(E) > 0 /\ E[1].action = "CREATED" /\ E[1].to = "OPEN"
  /\ \A i \in 1..Len(E) : i > 1 => E[i].action # "CREATED"

Explained(row, E) ==
  /\ row.status \in Statuses
  /\ CreatedFirst(E)
  /\ StatusExplained(row, E) /\ ClosedExplained(row, E) /\ ConfirmedExplained(row, E)

(* The inductive invariant.  The second part is why a handler that read no  *)
(* confirmed_at may overwrite one, but one that read it never leaves none.  *)
Untouched(row, E) == Len(E) = 0 /\ row.closed = 0 /\ row.confirmed = 0

TimelineInv ==
  /\ \A k \in Cases : IF Exists(k) THEN Explained(cases[k], events[k])
                      ELSE Untouched(cases[k], events[k])
  /\ \A s \in Slots : slot[s].stage = "loaded" /\ slot[s].confirmed # 0 =>
       cases[slot[s].case].confirmed # 0

(* What a commit of op makes of the row and the timeline of its case, for a *)
(* handler that had read from and confirmed.                                *)
Commits(op, from, confirmed, row, E, new, F) ==
  /\ Len(F) >= Len(E)
  /\ \A i \in 1..Len(E) : F[i] = E[i]
  /\ \A i \in 1..Len(F) : i > Len(E) =>
       /\ F[i].action # "CREATED"
       /\ F[i].to = (IF i = Len(E) + 1 THEN op.to ELSE "NONE")
  /\ op.to # "NONE" =>
       /\ Len(F) > Len(E)
       /\ F[Len(E) + 1].from = from
       /\ op.kind = "close" => F[Len(E) + 1].action = "CLOSED"
  /\ new.status = (IF op.to = "NONE" THEN row.status ELSE op.to)
  /\ new.confirmed = (IF op.to = "CONFIRMED" /\ confirmed = 0 THEN Len(E) + 1
                      ELSE row.confirmed)
  /\ new.closed = (IF op.to = "CLOSED" THEN Len(E) + 1 ELSE row.closed)

LEMMA CommitIs ==
  ASSUME TypeOK, NEW s \in Slots, NEW op \in Ops, Commit(s, op), NEW k, k = slot[s].case
  PROVE  /\ k \in Cases /\ Exists(k) /\ slot[s].status \in Statuses /\ slot[s].confirmed \in Nat
         /\ cases[k] \in CaseRow /\ cases'[k] \in CaseRow
         /\ events[k] \in Seq(Event) /\ events'[k] \in Seq(Event)
         /\ \A j \in Cases \ {k} : cases'[j] = cases[j] /\ events'[j] = events[j]
         /\ Commits(op, slot[s].status, slot[s].confirmed, cases[k], events[k],
                    cases'[k], events'[k])
<1>0. PICK from, E, F, row, new :
        /\ from = slot[s].status /\ E = events[k] /\ F = events'[k]
        /\ row = cases[k] /\ new = cases'[k]
  OBVIOUS
<1> DEFINE G == NewEvents(op, from)
<1>1. /\ k \in Cases /\ from \in Statuses /\ Exists(k) /\ slot[s] \in Slot
      /\ row \in CaseRow /\ E \in Seq(Event)
  <2>1. slot[s].stage = "loaded" /\ k \in Cases /\ from \in Statuses /\ Exists(k)
    BY <1>0 DEF Commit, TypeOK
  <2> QED
    BY <1>0, <2>1 DEF TypeOK
<1>2. slot[s].confirmed \in Nat
  BY <1>1 DEF Slot, Positions
<1>3. Len(E) \in Nat /\ Len(E) + 1 \in Nat /\ Len(E) + 1 > 0
  BY <1>1
<1>4. /\ new = Update(row, op, slot[s].confirmed, Len(E) + 1) /\ F = E \o G
      /\ \A j \in Cases \ {k} : cases'[j] = cases[j] /\ events'[j] = events[j]
  BY <1>0, <1>1 DEF Commit, TypeOK
<1>5. /\ G \in Seq(Event) /\ Len(G) \in Nat
      /\ \A i \in 1..Len(G) : /\ G[i].action # "CREATED"
                              /\ G[i].to = (IF i = 1 THEN op.to ELSE "NONE")
      /\ op.to # "NONE" => /\ Len(G) > 0 /\ G[1].from = from
                           /\ op.kind = "close" => G[1].action = "CLOSED"
  BY <1>1, NewEventsAre
<1> HIDE DEF G
<1>6. /\ E \o G \in Seq(Event) /\ Len(E \o G) = Len(E) + Len(G)
      /\ \A i \in 1..(Len(E) + Len(G)) :
           (E \o G)[i] = IF i <= Len(E) THEN E[i] ELSE G[i - Len(E)]
  BY <1>1, <1>5, ConcatProperties
<1>7. \A i \in 1..Len(E) : F[i] = E[i]
  BY <1>3, <1>4, <1>5, <1>6
<1>8. ASSUME NEW i \in 1..Len(F), i > Len(E)
      PROVE  /\ F[i].action # "CREATED"
             /\ F[i].to = (IF i = Len(E) + 1 THEN op.to ELSE "NONE")
  <2>1. i - Len(E) \in 1..Len(G) /\ F[i] = G[i - Len(E)]
    BY <1>3, <1>4, <1>5, <1>6, <1>8
  <2>2. (i - Len(E) = 1) <=> (i = Len(E) + 1)
    BY <1>3
  <2> QED
    BY <1>5, <2>1, <2>2
<1>9. op.to # "NONE" => Len(F) > Len(E) /\ F[Len(E) + 1] = G[1]
  <2> SUFFICES ASSUME op.to # "NONE" PROVE Len(F) > Len(E) /\ F[Len(E) + 1] = G[1]
    OBVIOUS
  <2>1. Len(E) + 1 \in 1..(Len(E) + Len(G)) /\ (Len(E) + 1) - Len(E) = 1
    BY <1>3, <1>5
  <2> QED
    BY <1>3, <1>4, <1>5, <1>6, <2>1
<1>10. ASSUME NEW r \in CaseRow, NEW c \in Nat, NEW p \in Nat
       PROVE  /\ Update(r, op, c, p) \in CaseRow
              /\ Update(r, op, c, p).status = (IF op.to = "NONE" THEN r.status ELSE op.to)
              /\ Update(r, op, c, p).confirmed =
                   (IF op.to = "CONFIRMED" /\ c = 0 THEN p ELSE r.confirmed)
              /\ Update(r, op, c, p).closed = (IF op.to = "CLOSED" THEN p ELSE r.closed)
  BY <1>10, UpdateIs
<1>11. /\ new \in CaseRow
       /\ new.status = (IF op.to = "NONE" THEN row.status ELSE op.to)
       /\ new.confirmed = (IF op.to = "CONFIRMED" /\ slot[s].confirmed = 0 THEN Len(E) + 1
                           ELSE row.confirmed)
       /\ new.closed = (IF op.to = "CLOSED" THEN Len(E) + 1 ELSE row.closed)
  <2> DEFINE c == slot[s].confirmed
             p == Len(E) + 1
  <2>1. c \in Nat /\ p \in Nat /\ row \in CaseRow /\ new = Update(row, op, c, p)
    BY <1>1, <1>2, <1>3, <1>4
  <2> HIDE DEF c, p
  <2>2. /\ new \in CaseRow
        /\ new.status = (IF op.to = "NONE" THEN row.status ELSE op.to)
        /\ new.confirmed = (IF op.to = "CONFIRMED" /\ c = 0 THEN p ELSE row.confirmed)
        /\ new.closed = (IF op.to = "CLOSED" THEN p ELSE row.closed)
    BY <1>10, <2>1
  <2> QED
    BY <2>2 DEF c, p
<1>12. F \in Seq(Event) /\ Len(F) >= Len(E)
  BY <1>3, <1>4, <1>5, <1>6
<1>13. op.to # "NONE" =>
         /\ Len(F) > Len(E) /\ F[Len(E) + 1].from = from
         /\ op.kind = "close" => F[Len(E) + 1].action = "CLOSED"
  BY <1>5, <1>9
<1>14. Commits(op, from, slot[s].confirmed, row, E, new, F)
  BY <1>7, <1>8, <1>11, <1>12, <1>13, Zenon DEF Commits
<1>15. Commits(op, slot[s].status, slot[s].confirmed, cases[k], events[k],
               cases'[k], events'[k])
  BY <1>0, <1>14, Zenon
<1> QED
  BY <1>0, <1>1, <1>2, <1>4, <1>11, <1>12, <1>15, Zenon

(* A handler's events and its UPDATE keep the row explained, whatever the   *)
(* handler had read.                                                        *)
LEMMA CommitExplains ==
  ASSUME NEW E \in Seq(Event), NEW F \in Seq(Event), NEW op \in Ops, NEW from,
         NEW row \in CaseRow, NEW new \in CaseRow, NEW confirmed \in Nat,
         Explained(row, E), Commits(op, from, confirmed, row, E, new, F),
         confirmed # 0 => row.confirmed # 0
  PROVE  Explained(new, F)
<1> DEFINE to == op.to
<1>c. /\ to \in Statuses \cup {"NONE"}
      /\ Len(F) >= Len(E) /\ (to # "NONE" => Len(F) > Len(E))
      /\ \A i \in 1..Len(E) : F[i] = E[i]
      /\ \A i \in 1..Len(F) : i > Len(E) =>
           /\ F[i].action # "CREATED"
           /\ F[i].to = (IF i = Len(E) + 1 THEN to ELSE "NONE")
      /\ new.status = (IF to = "NONE" THEN row.status ELSE to)
      /\ new.confirmed = (IF to = "CONFIRMED" /\ confirmed = 0 THEN Len(E) + 1
                          ELSE row.confirmed)
      /\ new.closed = (IF to = "CLOSED" THEN Len(E) + 1 ELSE row.closed)
  BY OpsAre DEF Commits
<1> HIDE DEF to
<1> USE <1>c
<1>0. /\ Len(E) \in Nat /\ Len(F) \in Nat /\ Len(E) > 0
      /\ \A i \in 1..Len(F) : i > Len(E) \/ i \in 1..Len(E)
      /\ to # "NONE" => Len(E) + 1 \in 1..Len(F) /\ F[Len(E) + 1].to = to
      /\ \A i \in 1..Len(E) : i \in 1..Len(F)
  BY DEF Explained, CreatedFirst
<1>1. new.status \in Statuses
  BY DEF Explained
<1>2. CreatedFirst(F)
  <2>1. 1 \in 1..Len(E) /\ Len(F) > 0
    BY <1>0
  <2> QED
    BY <1>0, <2>1 DEF Explained, CreatedFirst
<1>3. StatusExplained(new, F)
  <2>1. CASE to # "NONE"
    <3>1. \A j \in 1..Len(F) : j > Len(E) + 1 => F[j].to = "NONE"
      BY <1>0
    <3> QED
      BY <1>0, <2>1, <3>1 DEF StatusExplained
  <2>2. CASE to = "NONE"
    <3>1. PICK i \in 1..Len(E) : /\ E[i].to = row.status
                                 /\ \A j \in 1..Len(E) : j > i => E[j].to = "NONE"
      BY DEF Explained, StatusExplained
    <3>2. \A j \in 1..Len(F) : j > i => F[j].to = "NONE"
      BY <1>0, <2>2, <3>1
    <3> QED
      BY <1>0, <2>2, <3>1, <3>2 DEF StatusExplained
  <2> QED
    BY <2>1, <2>2
<1>4. ClosedExplained(new, F)
  <2>1. CASE to = "CLOSED"
    <3>1. \A i \in 1..Len(F) : i > Len(E) + 1 => F[i].to # "CLOSED"
      BY <1>0
    <3> QED
      BY <1>0, <2>1, <3>1 DEF ClosedExplained
  <2>2. CASE to # "CLOSED"
    <3>1. \A i \in 1..Len(F) : i > Len(E) => F[i].to # "CLOSED"
      BY <2>2
    <3>2. ClosedExplained(row, E) /\ new.closed = row.closed
      BY <2>2 DEF Explained
    <3> QED
      BY <1>0, <3>1, <3>2 DEF ClosedExplained
  <2> QED
    BY <2>1, <2>2
<1>5. ConfirmedExplained(new, F)
  <2>1. CASE to = "CONFIRMED" /\ confirmed = 0
    BY <1>0, <2>1 DEF ConfirmedExplained
  <2>2. CASE to = "CONFIRMED" /\ confirmed # 0
    BY <1>0, <2>2 DEF Explained, ConfirmedExplained
  <2>3. CASE to # "CONFIRMED"
    <3>1. \A i \in 1..Len(F) : i > Len(E) => F[i].to # "CONFIRMED"
      BY <2>3
    <3>2. ConfirmedExplained(row, E) /\ new.confirmed = row.confirmed
      BY <2>3 DEF Explained
    <3> QED
      BY <1>0, <3>1, <3>2 DEF ConfirmedExplained
  <2> QED
    BY <2>1, <2>2, <2>3
<1> QED
  BY <1>1, <1>2, <1>3, <1>4, <1>5 DEF Explained

LEMMA TimelineInsert ==
  ASSUME TypeOK, TimelineInv, NEW k \in Cases, NEW x \in Txs, Insert(k, x)
  PROVE  /\ \A j \in Cases : IF Exists(j)' THEN Explained(cases'[j], events'[j])
                             ELSE Untouched(cases'[j], events'[j])
         /\ \A j \in Cases : Exists(j) => cases'[j] = cases[j]
<1>1. Explained(cases'[k], events'[k])
  <2>1. /\ cases'[k].status = "OPEN" /\ cases'[k].confirmed = 0 /\ cases'[k].closed = 0
        /\ Len(events'[k]) = 1 /\ events'[k][1] = CreatedEvent
    BY InsertIs
  <2>2. CreatedEvent.action = "CREATED" /\ CreatedEvent.to = "OPEN"
    BY DEF CreatedEvent
  <2>3. \A i \in 1..Len(events'[k]) : i = 1 /\ events'[k][i].to = "OPEN"
    BY <2>1, <2>2
  <2>4. 1 \in 1..Len(events'[k])
    BY <2>1
  <2>5. CreatedFirst(events'[k])
    BY <2>1, <2>2, <2>3 DEF CreatedFirst
  <2>6. StatusExplained(cases'[k], events'[k])
    BY <2>1, <2>3, <2>4 DEF StatusExplained
  <2>7. ClosedExplained(cases'[k], events'[k])
    BY <2>1, <2>3 DEF ClosedExplained
  <2>8. ConfirmedExplained(cases'[k], events'[k])
    BY <2>1, <2>3 DEF ConfirmedExplained
  <2> QED
    BY <2>1, <2>5, <2>6, <2>7, <2>8 DEF Explained, Statuses
<1>2. /\ cases'[k].status = "OPEN" /\ cases[k].status = "ABSENT"
      /\ \A j \in Cases \ {k} : cases'[j] = cases[j] /\ events'[j] = events[j]
  BY InsertIs
<1> QED
  BY <1>1, <1>2 DEF TimelineInv, Exists

LEMMA TimelineCommit ==
  ASSUME TypeOK, TimelineInv, NEW s \in Slots, NEW op \in Ops, Commit(s, op)
  PROVE  /\ \A j \in Cases : IF Exists(j)' THEN Explained(cases'[j], events'[j])
                             ELSE Untouched(cases'[j], events'[j])
         /\ \A j \in Cases : cases[j].confirmed # 0 => cases'[j].confirmed # 0
<1> DEFINE k == slot[s].case
           confirmed == slot[s].confirmed
<1>1. /\ k \in Cases /\ Exists(k) /\ confirmed \in Nat
      /\ cases[k] \in CaseRow /\ cases'[k] \in CaseRow
      /\ events[k] \in Seq(Event) /\ events'[k] \in Seq(Event)
      /\ \A j \in Cases \ {k} : cases'[j] = cases[j] /\ events'[j] = events[j]
      /\ Commits(op, slot[s].status, confirmed, cases[k], events[k], cases'[k], events'[k])
  BY CommitIs
<1>2. confirmed # 0 => cases[k].confirmed # 0
  BY DEF TimelineInv, Commit
<1>3. Explained(cases[k], events[k])
  BY <1>1 DEF TimelineInv
<1>4. Explained(cases'[k], events'[k])
  BY <1>1, <1>2, <1>3, CommitExplains
<1>5. cases[k].confirmed # 0 => cases'[k].confirmed # 0
  BY <1>1 DEF Commits
<1> HIDE DEF k, confirmed
<1> QED
  BY <1>1, <1>3, <1>4, <1>5 DEF TimelineInv, Exists, Explained, Statuses

LEMMA TimelineStep == TypeOK /\ TimelineInv /\ [Next]_vars => TimelineInv'
<1> SUFFICES ASSUME TypeOK, TimelineInv, [Next]_vars PROVE TimelineInv'
  OBVIOUS
<1> DEFINE Rows == \A j \in Cases : IF Exists(j) THEN Explained(cases[j], events[j])
                                    ELSE Untouched(cases[j], events[j])
           Reads(v) == v.stage = "loaded" /\ v.confirmed # 0 =>
                         v.case \in Cases /\ Exists(v.case) /\ cases[v.case].confirmed # 0
           Kept == \A j \in Cases : Exists(j) /\ cases[j].confirmed # 0 =>
                     cases'[j].confirmed # 0
<1>1. Rows /\ (\A s \in Slots : Reads(slot[s])) /\ Reads(Idle)
  BY DEF TimelineInv, TypeOK, Idle
<1>2. ASSUME Rows', Kept, NEW s \in Slots, NEW v, Reads(v), slot' = [slot EXCEPT ![s] = v]
      PROVE  TimelineInv'
  <2>1. \A r \in Slots : slot'[r] = slot[r] \/ slot'[r] = v
    BY <1>2 DEF TypeOK
  <2> QED
    BY <1>1, <1>2, <2>1 DEF TimelineInv
<1>3. ASSUME Rows', Kept, UNCHANGED slot PROVE TimelineInv'
  BY <1>1, <1>3 DEF TimelineInv
<1>4. ASSUME UNCHANGED <<cases, events>> PROVE Rows' /\ Kept
  BY <1>1, <1>4 DEF Exists
<1>5. ASSUME NEW s \in Slots, NEW x \in Txs, BeginCreate(s, x) PROVE TimelineInv'
  <2>1. Reads([Idle EXCEPT !.stage = "creating", !.tx = x])
    BY DEF Idle
  <2> QED
    BY <1>2, <1>4, <1>5, <2>1 DEF BeginCreate
<1>6. ASSUME NEW s \in Slots, CaseNoTaken(s) PROVE TimelineInv'
  <2>1. PICK v : Reads(v) /\ slot' = [slot EXCEPT ![s] = v]
    <3>1. CASE slot[s].attempt < 2
      <4>1. slot' = [slot EXCEPT ![s] = [slot[s] EXCEPT !.attempt = slot[s].attempt + 1]]
        BY <1>6, <3>1 DEF CaseNoTaken
      <4>2. Reads([slot[s] EXCEPT !.attempt = slot[s].attempt + 1])
        <5>1. slot[s] \in Slot /\ slot[s].stage = "creating"
          BY <1>6 DEF CaseNoTaken, TypeOK
        <5> QED
          BY <5>1 DEF Slot
      <4> QED
        BY <4>1, <4>2
    <3>2. CASE ~(slot[s].attempt < 2)
      BY <1>1, <1>6, <3>2 DEF CaseNoTaken
    <3> QED
      BY <3>1, <3>2
  <2> QED
    BY <1>2, <1>4, <1>6, <2>1 DEF CaseNoTaken
<1>7. ASSUME NEW s \in Slots, NEW k \in Cases, CreateCase(s, k) PROVE TimelineInv'
  <2>1. Insert(k, slot[s].tx) /\ slot[s].tx \in Txs
    BY <1>7 DEF CreateCase, TypeOK
  <2>2. Rows' /\ Kept
    BY <2>1, TimelineInsert
  <2> QED
    BY <1>1, <1>2, <1>7, <2>2 DEF CreateCase
<1>8. ASSUME NEW s \in Slots, NEW k \in Cases, Load(s, k) PROVE TimelineInv'
  <2> DEFINE v == [Idle EXCEPT !.stage = "loaded", !.case = k,
                               !.status = cases[k].status, !.confirmed = cases[k].confirmed]
  <2>1. Reads(v)
    BY <1>8 DEF Load, Idle
  <2>2. slot' = [slot EXCEPT ![s] = v]
    BY <1>8 DEF Load
  <2> QED
    BY <1>2, <1>4, <1>8, <2>1, <2>2 DEF Load
<1>9. ASSUME NEW s \in Slots, NEW op \in Ops, Commit(s, op) PROVE TimelineInv'
  <2>1. Rows' /\ Kept
    BY <1>9, TimelineCommit
  <2>2. slot' = [slot EXCEPT ![s] = Idle]
    BY <1>9 DEF Commit
  <2> QED
    BY <1>1, <1>2, <2>1, <2>2
<1>10. ASSUME NEW s \in Slots, Abort(s) PROVE TimelineInv'
  BY <1>1, <1>2, <1>4, <1>10 DEF Abort
<1>11. ASSUME NEW g \in Tasks, NEW k \in Cases, GenerateCase(g, k) PROVE TimelineInv'
  <2>1. Insert(k, TxOf[g]) /\ TxOf[g] \in Txs
    BY <1>11, CaseAssumption DEF GenerateCase
  <2>2. Rows' /\ Kept
    BY <2>1, TimelineInsert
  <2> QED
    BY <1>3, <1>11, <2>2 DEF GenerateCase
<1>12. CASE UNCHANGED <<cases, events, slot>>
  BY <1>3, <1>4, <1>12
<1> QED
  BY <1>5, <1>6, <1>7, <1>8, <1>9, <1>10, <1>11, <1>12
  DEF Next, Api, Worker, CheckFails, SkipTask, PassCheck, InsertFails, Notify, Crash, vars

LEMMA LastIs ==
  ASSUME NEW P \in SUBSET Nat, NEW m \in P, \A j \in P : j <= m
  PROVE  LastOf(P) = m
<1>1. PICK i : i = LastOf(P)
  OBVIOUS
<1>2. i \in P /\ \A j \in P : j <= i
  <2>1. \E x \in P : \A j \in P : j <= x
    OBVIOUS
  <2> QED
    BY <1>1, <2>1, Zenon DEF LastOf
<1>3. i <= m /\ m <= i /\ i \in Nat /\ m \in Nat
  BY <1>2
<1>4. i = m
  BY <1>3
<1> QED
  BY <1>1, <1>4

(* What the invariant says of a row is what TimelineExplainsCase says.      *)
LEMMA ExplainedMeans == TypeOK /\ TimelineInv => TimelineExplainsCase
<1> SUFFICES ASSUME TypeOK, TimelineInv, NEW k \in Cases
    PROVE  /\ Exists(k) <=> StatusEvents(k) # {}
           /\ Exists(k) =>
                /\ {i \in 1..Len(events[k]) : events[k][i].action = "CREATED"} = {1}
                /\ cases[k].status = events[k][LastOf(StatusEvents(k))].to
           /\ (cases[k].closed = 0) <=> (EventsTo(k, "CLOSED") = {})
           /\ cases[k].closed # 0 => cases[k].closed = LastOf(EventsTo(k, "CLOSED"))
           /\ (cases[k].confirmed = 0) <=> (EventsTo(k, "CONFIRMED") = {})
           /\ cases[k].confirmed # 0 => cases[k].confirmed \in EventsTo(k, "CONFIRMED")
  BY DEF TimelineExplainsCase
<1> DEFINE E == events[k]
           row == cases[k]
<1>1. E \in Seq(Event) /\ Len(E) \in Nat /\ row \in CaseRow
  BY DEF TypeOK
<1>2. /\ StatusEvents(k) = {i \in 1..Len(E) : E[i].to # "NONE"}
      /\ EventsTo(k, "CLOSED") = {i \in 1..Len(E) : E[i].to = "CLOSED"}
      /\ EventsTo(k, "CONFIRMED") = {i \in 1..Len(E) : E[i].to = "CONFIRMED"}
  BY DEF StatusEvents, EventsTo
<1>3. CASE ~Exists(k)
  <2>1. Len(E) = 0 /\ row.closed = 0 /\ row.confirmed = 0
    BY <1>3 DEF TimelineInv, Untouched
  <2>2. StatusEvents(k) = {} /\ EventsTo(k, "CLOSED") = {} /\ EventsTo(k, "CONFIRMED") = {}
    BY <1>2, <2>1
  <2> QED
    BY <1>3, <2>1, <2>2
<1>4. CASE Exists(k)
  <2>1. Explained(row, E)
    BY <1>4 DEF TimelineInv
  <2>2. PICK m \in 1..Len(E) : /\ E[m].to = row.status
                               /\ \A j \in 1..Len(E) : j > m => E[j].to = "NONE"
    BY <2>1 DEF Explained, StatusExplained
  <2>3. m \in StatusEvents(k)
    BY <1>2, <2>1, <2>2 DEF Explained, Statuses
  <2>4. LastOf(StatusEvents(k)) = m
    <3>1. StatusEvents(k) \in SUBSET Nat /\ \A j \in StatusEvents(k) : j <= m
      BY <1>1, <1>2, <2>2
    <3> QED
      BY <2>3, <3>1, LastIs
  <2>5. {i \in 1..Len(E) : E[i].action = "CREATED"} = {1}
    BY <1>1, <2>1 DEF Explained, CreatedFirst
  <2>6. /\ (row.closed = 0) <=> (EventsTo(k, "CLOSED") = {})
        /\ row.closed # 0 => row.closed = LastOf(EventsTo(k, "CLOSED"))
    <3>1. CASE row.closed = 0 /\ \A i \in 1..Len(E) : E[i].to # "CLOSED"
      BY <1>2, <3>1
    <3>2. CASE /\ row.closed \in 1..Len(E) /\ E[row.closed].to = "CLOSED"
               /\ \A i \in 1..Len(E) : i > row.closed => E[i].to # "CLOSED"
      <4>1. row.closed \in EventsTo(k, "CLOSED")
        BY <1>2, <3>2
      <4>2. /\ EventsTo(k, "CLOSED") \in SUBSET Nat
            /\ \A j \in EventsTo(k, "CLOSED") : j <= row.closed
        BY <1>1, <1>2, <3>2
      <4>3. LastOf(EventsTo(k, "CLOSED")) = row.closed
        BY <4>1, <4>2, LastIs
      <4> QED
        BY <3>2, <4>1, <4>3
    <3> QED
      BY <2>1, <3>1, <3>2 DEF Explained, ClosedExplained
  <2>7. /\ (row.confirmed = 0) <=> (EventsTo(k, "CONFIRMED") = {})
        /\ row.confirmed # 0 => row.confirmed \in EventsTo(k, "CONFIRMED")
    BY <1>2, <2>1 DEF Explained, ConfirmedExplained
  <2> QED
    BY <1>4, <2>2, <2>3, <2>4, <2>5, <2>6, <2>7
<1> QED
  BY <1>3, <1>4

LEMMA TimelineInit == Init => TimelineInv
<1> SUFFICES ASSUME Init PROVE TimelineInv
  OBVIOUS
<1>1. \A k \in Cases : ~Exists(k) /\ Untouched(cases[k], events[k])
  BY DEF Init, Exists, Absent, Untouched
<1>2. \A s \in Slots : slot[s].stage = "idle"
  BY DEF Init, Idle
<1> QED
  BY <1>1, <1>2 DEF TimelineInv

(* However requests and tasks overlap, blind writes included, the timeline  *)
(* of a case explains its status, closed_at and confirmed_at.               *)
THEOREM TimelineAlwaysExplains == Spec => []TimelineExplainsCase
<1> QED
  BY TimelineInit, CaseTypeCorrect, TimelineStep, ExplainedMeans, PTL DEF Spec

-----------------------------------------------------------------------------
(* While no request overwrote a case blindly its timeline is a path: every  *)
(* later status event starts where the last one before it ended, and after  *)
(* a CLOSED one there is none.                                              *)
Follows(E, i) ==
  \E p \in 1..Len(E) :
    /\ p < i /\ E[p].to \in Statuses /\ E[p].to = E[i].from
    /\ \A j \in 1..Len(E) : p < j /\ j < i => E[j].to = "NONE"
    /\ \/ E[i].to \in Transitions[E[p].to]
       \/ E[i].action = "CLOSED" /\ E[p].to # "CLOSED"

ClosedEnds(E) ==
  \A i \in 1..Len(E) : E[i].to = "CLOSED" =>
    \A j \in 1..Len(E) : j > i => E[j].to = "NONE"

Serial(row, E) ==
  /\ \A i \in 1..Len(E) : i # 1 /\ E[i].to # "NONE" => Follows(E, i)
  /\ ClosedEnds(E)
  /\ (row.closed # 0) <=> (row.status = "CLOSED")

SerialInv == \A k \in Cases : ~stale[k] /\ Exists(k) => Serial(cases[k], events[k])

LEMMA AcceptsMeans ==
  ASSUME NEW op \in Ops, NEW status \in Statuses, Accepts(op, status), op.to # "NONE"
  PROVE  /\ status # "CLOSED"
         /\ op.to \in Transitions[status] \/ op.kind = "close"
<1>1. CASE op.kind = "patch"
  <2>1. op.to \in Transitions[status]
    BY <1>1, Zenon DEF Accepts
  <2>2. Transitions["CLOSED"] = {}
    BY DEF Transitions
  <2> QED
    BY <2>1, <2>2
<1>2. CASE op.kind = "close"
  <2>1. status # "CLOSED"
    <3>1. op.kind # "patch" /\ op.kind # "comment"
      BY <1>2
    <3> QED
      BY <1>2, <3>1, Zenon DEF Accepts
  <2> QED
    BY <1>2, <2>1
<1> QED
  BY <1>1, <1>2, OpsAre

LEMMA CommitKeepsSerial ==
  ASSUME NEW E \in Seq(Event), NEW F \in Seq(Event), NEW op \in Ops, NEW from \in Statuses,
         NEW row \in CaseRow, NEW new \in CaseRow, NEW confirmed \in Nat,
         Explained(row, E), Serial(row, E), Accepts(op, from),
         Commits(op, from, confirmed, row, E, new, F),
         op.to # "NONE" => row.status = from
  PROVE  Serial(new, F)
<1> DEFINE to == op.to
           close == op.kind = "close"
<1>1. /\ to \in Statuses \cup {"NONE"} /\ (close => to = "CLOSED")
      /\ Len(E) \in Nat /\ Len(F) \in Nat
      /\ Len(F) >= Len(E) /\ \A i \in 1..Len(E) : F[i] = E[i]
      /\ \A i \in 1..Len(F) : i > Len(E) =>
           F[i].to = (IF i = Len(E) + 1 THEN to ELSE "NONE")
      /\ to # "NONE" => Len(F) > Len(E) /\ F[Len(E) + 1].from = from
      /\ to # "NONE" /\ close => F[Len(E) + 1].action = "CLOSED"
      /\ new.status = (IF to = "NONE" THEN row.status ELSE to)
      /\ new.closed = (IF to = "CLOSED" THEN Len(E) + 1 ELSE row.closed)
  BY OpsAre DEF Commits
<1>2. to # "NONE" => /\ from # "CLOSED" /\ row.status = from
                     /\ to \in Transitions[from] \/ close
  BY AcceptsMeans
<1> HIDE DEF to, close
<1>3. PICK m \in 1..Len(E) : /\ E[m].to = row.status
                             /\ \A j \in 1..Len(E) : j > m => E[j].to = "NONE"
  BY DEF Explained, StatusExplained
<1>4. row.status \in Statuses /\ "NONE" \notin Statuses
  BY DEF Explained, Statuses
<1>5. \A i \in 1..Len(E) : i \in 1..Len(F)
  BY <1>1
<1>6. \A i \in 1..Len(F) : i \in 1..Len(E) \/ i > Len(E)
  BY <1>1
<1>7. ASSUME NEW i \in 1..Len(F), i # 1, F[i].to # "NONE"
      PROVE  Follows(F, i)
  <2>1. CASE i \in 1..Len(E)
    <3>1. PICK p \in 1..Len(E) :
            /\ p < i /\ E[p].to \in Statuses /\ E[p].to = E[i].from
            /\ \A j \in 1..Len(E) : p < j /\ j < i => E[j].to = "NONE"
            /\ \/ E[i].to \in Transitions[E[p].to]
               \/ E[i].action = "CLOSED" /\ E[p].to # "CLOSED"
      BY <1>1, <1>7, <2>1 DEF Serial, Follows
    <3>2. \A j \in 1..Len(F) : p < j /\ j < i => F[j].to = "NONE"
      BY <1>1, <2>1, <3>1
    <3>3. F[p] = E[p] /\ F[i] = E[i] /\ p \in 1..Len(F)
      BY <1>1, <1>5, <2>1
    <3> QED
      BY <3>1, <3>2, <3>3 DEF Follows
  <2>2. CASE i > Len(E)
    <3>1. i = Len(E) + 1 /\ to # "NONE" /\ F[i].to = to
      BY <1>1, <1>7, <2>2
    <3>2. m \in 1..Len(F) /\ m < i /\ F[m] = E[m]
      BY <1>1, <1>5, <3>1
    <3>3. \A j \in 1..Len(F) : m < j /\ j < i => F[j].to = "NONE"
      BY <1>1, <1>3, <3>1
    <3>4. F[m].to = from /\ F[i].from = from
      BY <1>1, <1>2, <1>3, <3>1, <3>2
    <3>5. F[i].to \in Transitions[from] \/ (F[i].action = "CLOSED" /\ from # "CLOSED")
      BY <1>1, <1>2, <3>1
    <3> QED
      BY <3>2, <3>3, <3>4, <3>5 DEF Follows
  <2> QED
    BY <1>6, <2>1, <2>2
<1>8. to # "NONE" => \A i \in 1..Len(E) : E[i].to # "CLOSED"
  <2> SUFFICES ASSUME to # "NONE", NEW i \in 1..Len(E), E[i].to = "CLOSED" PROVE FALSE
    OBVIOUS
  <2>1. ~(i > m) /\ ~(m > i)
    BY <1>3, <1>4 DEF Serial, ClosedEnds
  <2>2. i = m
    BY <1>1, <2>1
  <2> QED
    BY <1>2, <1>3, <2>2
<1>9. ClosedEnds(F)
  <2>1. CASE to = "NONE"
    BY <1>1, <1>5, <1>6, <2>1 DEF Serial, ClosedEnds
  <2>2. CASE to # "NONE"
    <3>1. \A i \in 1..Len(F) : F[i].to = "CLOSED" => i > Len(E)
      BY <1>1, <1>6, <1>8, <2>2
    <3>2. \A i, j \in 1..Len(F) : i > Len(E) /\ j > i => F[j].to = "NONE"
      BY <1>1
    <3> QED
      BY <3>1, <3>2 DEF ClosedEnds
  <2> QED
    BY <2>1, <2>2
<1>10. (new.closed # 0) <=> (new.status = "CLOSED")
  <2>1. (row.closed # 0) <=> (row.status = "CLOSED")
    BY DEF Serial
  <2> QED
    BY <1>1, <1>2, <2>1
<1> QED
  BY <1>7, <1>9, <1>10 DEF Serial

(* Insert opens a timeline of one event.                                    *)
LEMMA InsertIsSerial ==
  ASSUME TypeOK, NEW k \in Cases, NEW x \in Txs, Insert(k, x)
  PROVE  /\ Serial(cases'[k], events'[k])
         /\ \A j \in Cases \ {k} : cases'[j] = cases[j] /\ events'[j] = events[j]
<1>1. /\ cases'[k].status = "OPEN" /\ cases'[k].closed = 0
      /\ Len(events'[k]) = 1 /\ events'[k][1] = CreatedEvent
      /\ \A j \in Cases \ {k} : cases'[j] = cases[j] /\ events'[j] = events[j]
  BY InsertIs
<1>2. \A i \in 1..Len(events'[k]) : i = 1
  BY <1>1
<1>3. ClosedEnds(events'[k])
  BY <1>2 DEF ClosedEnds
<1> QED
  BY <1>1, <1>2, <1>3 DEF Serial

LEMMA SerialStep == TypeOK /\ TimelineInv /\ SerialInv /\ [Next]_vars => SerialInv'
<1> SUFFICES ASSUME TypeOK, TimelineInv, SerialInv, [Next]_vars PROVE SerialInv'
  OBVIOUS
<1>1. ASSUME NEW k \in Cases, NEW x \in Txs, Insert(k, x), UNCHANGED stale PROVE SerialInv'
  <2>1. /\ Serial(cases'[k], events'[k])
        /\ \A j \in Cases \ {k} : cases'[j] = cases[j] /\ events'[j] = events[j]
    BY <1>1, InsertIsSerial
  <2> QED
    BY <1>1, <2>1 DEF SerialInv, Exists
<1>2. ASSUME NEW s \in Slots, NEW op \in Ops, Commit(s, op) PROVE SerialInv'
  <2> DEFINE k == slot[s].case
             from == slot[s].status
             confirmed == slot[s].confirmed
  <2>1. /\ k \in Cases /\ Exists(k) /\ from \in Statuses /\ confirmed \in Nat
        /\ cases[k] \in CaseRow /\ cases'[k] \in CaseRow
        /\ events[k] \in Seq(Event) /\ events'[k] \in Seq(Event)
        /\ \A j \in Cases \ {k} : cases'[j] = cases[j] /\ events'[j] = events[j]
        /\ Commits(op, from, confirmed, cases[k], events[k], cases'[k], events'[k])
    BY <1>2, CommitIs
  <2>2. Explained(cases[k], events[k])
    BY <2>1 DEF TimelineInv
  <2>3. /\ Accepts(op, from)
        /\ stale' = IF op.to # "NONE" /\ cases[k].status # from
                    THEN [stale EXCEPT ![k] = TRUE] ELSE stale
    BY <1>2 DEF Commit
  <2> HIDE DEF k, from, confirmed
  <2>4. /\ \A j \in Cases : ~stale'[j] => ~stale[j]
        /\ ~stale'[k] => op.to = "NONE" \/ cases[k].status = from
    BY <2>1, <2>3 DEF TypeOK
  <2>5. ASSUME ~stale'[k] PROVE Serial(cases'[k], events'[k])
    <3>1. Serial(cases[k], events[k]) /\ (op.to # "NONE" => cases[k].status = from)
      BY <2>1, <2>4, <2>5 DEF SerialInv
    <3> QED
      BY <2>1, <2>2, <2>3, <3>1, CommitKeepsSerial
  <2> QED
    BY <2>1, <2>4, <2>5 DEF SerialInv, Exists
<1>3. CASE UNCHANGED <<cases, events, stale>>
  BY <1>3 DEF SerialInv, Exists
<1>4. ASSUME NEW s \in Slots, NEW k \in Cases, CreateCase(s, k) PROVE SerialInv'
  BY <1>1, <1>4 DEF CreateCase, TypeOK
<1>5. ASSUME NEW g \in Tasks, NEW k \in Cases, GenerateCase(g, k) PROVE SerialInv'
  BY <1>1, <1>5, CaseAssumption DEF GenerateCase
<1> QED
  BY <1>2, <1>3, <1>4, <1>5
  DEF Next, Api, Worker, BeginCreate, CaseNoTaken, Load, Abort, CheckFails, SkipTask,
      PassCheck, InsertFails, Notify, Crash, vars

LEMMA SerialMeans == TypeOK /\ TimelineInv /\ SerialInv => SerialTimeline
<1> SUFFICES ASSUME TypeOK, TimelineInv, SerialInv, NEW k \in Cases, ~stale[k]
    PROVE  /\ \A i \in StatusEvents(k) \ {1} :
                LET before == events[k][LastOf({j \in StatusEvents(k) : j < i})].to IN
                /\ events[k][i].from = before
                /\ \/ events[k][i].to \in Transitions[before]
                   \/ events[k][i].action = "CLOSED" /\ before # "CLOSED"
           /\ Cardinality(EventsTo(k, "CLOSED")) <= 1
           /\ cases[k].closed # 0 <=> cases[k].status = "CLOSED"
  BY DEF SerialTimeline
<1> DEFINE E == events[k]
           row == cases[k]
<1>1. E \in Seq(Event) /\ Len(E) \in Nat /\ row \in CaseRow
  BY DEF TypeOK
<1>2. /\ StatusEvents(k) = {i \in 1..Len(E) : E[i].to # "NONE"}
      /\ EventsTo(k, "CLOSED") = {i \in 1..Len(E) : E[i].to = "CLOSED"}
  BY DEF StatusEvents, EventsTo
<1>3. CASE ~Exists(k)
  <2>1. Len(E) = 0 /\ row.closed = 0 /\ row.status = "ABSENT"
    BY <1>3 DEF TimelineInv, Untouched, Exists
  <2>2. StatusEvents(k) = {} /\ EventsTo(k, "CLOSED") = {}
    BY <1>2, <2>1
  <2>3. Cardinality(EventsTo(k, "CLOSED")) <= 1
    BY <2>2, FS_EmptySet
  <2>4. cases[k].closed = 0 /\ cases[k].status # "CLOSED"
    BY <2>1
  <2> HIDE DEF E, row
  <2>5. StatusEvents(k) \ {1} = {}
    BY <2>2
  <2> QED
    BY <2>3, <2>4, <2>5
<1>4. CASE Exists(k)
  <2>1. Serial(row, E)
    BY <1>4 DEF SerialInv
  <2>2. ASSUME NEW i \in StatusEvents(k) \ {1}
        PROVE  LET before == E[LastOf({j \in StatusEvents(k) : j < i})].to IN
               /\ E[i].from = before
               /\ \/ E[i].to \in Transitions[before]
                  \/ E[i].action = "CLOSED" /\ before # "CLOSED"
    <3>1. i \in 1..Len(E) /\ i # 1 /\ E[i].to # "NONE"
      BY <1>2, <2>2
    <3>2. PICK p \in 1..Len(E) :
            /\ p < i /\ E[p].to \in Statuses /\ E[p].to = E[i].from
            /\ \A j \in 1..Len(E) : p < j /\ j < i => E[j].to = "NONE"
            /\ \/ E[i].to \in Transitions[E[p].to]
               \/ E[i].action = "CLOSED" /\ E[p].to # "CLOSED"
      BY <2>1, <3>1 DEF Serial, Follows
    <3> DEFINE P == {j \in StatusEvents(k) : j < i}
    <3>3. P \in SUBSET Nat /\ p \in P /\ \A j \in P : j <= p
      BY <1>1, <1>2, <3>1, <3>2 DEF Statuses
    <3>4. LastOf(P) = p
      BY <3>3, LastIs
    <3> QED
      BY <3>2, <3>4
  <2>3. Cardinality(EventsTo(k, "CLOSED")) <= 1
    <3>1. CASE EventsTo(k, "CLOSED") = {}
      BY <3>1, FS_EmptySet
    <3>2. ASSUME NEW i \in EventsTo(k, "CLOSED") PROVE Cardinality(EventsTo(k, "CLOSED")) = 1
      <4>1. ASSUME NEW j \in EventsTo(k, "CLOSED") PROVE j = i
        <5>1. i \in Nat /\ j \in Nat /\ ~(j > i) /\ ~(i > j)
          BY <1>2, <2>1 DEF Serial, ClosedEnds
        <5> QED
          BY <5>1
      <4>2. EventsTo(k, "CLOSED") = {i}
        BY <4>1
      <4> QED
        BY <4>2, FS_Singleton
    <3> QED
      BY <3>1, <3>2
  <2> QED
    BY <2>1, <2>2, <2>3 DEF Serial
<1> QED
  BY <1>3, <1>4

(* While no request writes a status over one it never read, the timeline of *)
(* a case is a path along the matrix that CLOSED and closed_at end.         *)
THEOREM TimelineIsSerial == Spec => []SerialTimeline
<1>1. Init => TimelineInv
  BY TimelineInit
<1>2. Init => SerialInv
  BY DEF Init, SerialInv, Exists, Absent
<1> QED
  BY <1>1, <1>2, CaseTypeCorrect, TimelineStep, SerialStep, SerialMeans, PTL DEF Spec
=============================================================================
