---------------------------- MODULE DataSubject ----------------------------
(***************************************************************************)
(* The rights of one data subject: consents to one purpose, and the         *)
(* deletion of what scoring has stored, against anti money laundering       *)
(* reports that forbid it.  delete_data checks for holds in one transaction *)
(* and deletes in another, which reads what it then deletes; scoring, SHAP  *)
(* requests and reports go on meanwhile.                                    *)
(*                                                                          *)
(* A worker's log call above the configured level raises, because it passes *)
(* keyword arguments to a stdlib logger: a task that logs a warning or an   *)
(* error ends there, with what it has committed and without its retry.      *)
(***************************************************************************)
EXTENDS Naturals

CONSTANTS Txs,        (* the subject's transactions                           *)
          Reports,    (* AML reports about the subject                        *)
          Requests,   (* deletion requests, each with one delete_data message *)
          Rectifications, (* rectification requests                           *)
          MaxRuns,    (* bound: how often a message is run                    *)
          MaxGrants,  (* bound: grants in flight                              *)
          InfoEnabled (* the worker's log level includes INFO                 *)

ASSUME DataSubjectAssumption ==
  /\ Requests \cap Rectifications = {}
  /\ MaxRuns \in Nat \ {0}
  /\ MaxGrants \in Nat \ {0}
  /\ InfoEnabled \in BOOLEAN

VARIABLES
  link,     (* how each report is attributed to the subject                   *)
  report,   (* aml_reports.status; LAPSED is ACCEPTED before the cutoff       *)
  row,      (* transactions: deleted is metadata.deleted_at                   *)
  scores,   (* transactions with a scores row                                 *)
  shap,     (* shap_explanations; one inserted after a deletion had looked for*)
            (* explanations, or without its score, is unseen                  *)
  request,  (* deletion_requests.status                                       *)
  granted,  (* consent_records with consent_status GRANTED                    *)
  cached,   (* score_cache, by when the entry was written                     *)
  copies,   (* the transactions in the subject's last export, kept for 30 days*)
  scoring,  (* transactions persisted whose cache entry is still to be written*)
  loading,  (* transactions whose SHAP request has loaded the score           *)
  granting, (* grants that have found no granted consent                      *)
  together, (* history: grants in flight after the last one had looked        *)
  task,     (* where each delete_data message is                              *)
  todo,     (* the cache keys its SCAN has still to visit                     *)
  runs,     (* how often each message was received                            *)
  waived,   (* messages sent with legal_hold_check=False                      *)
  marking,  (* the transactions a deletion has read and is about to mark      *)
  removing, (* those of them whose explanation it has found                   *)
  dirty,    (* history: tasks that have deleted rows and not cleaned the cache*)
  late      (* history: reports filed since the check of a task that may delete*)

stored == <<row, scores, shap>>
redis == <<cached, copies>>
tables == <<link, report, stored, request, granted>>
requests == <<scoring, loading>>
consents == <<granting, together>>
deletion == <<marking, removing>>
worker == <<task, todo, runs, waived, deletion, dirty>>
vars == <<tables, redis, requests, consents, worker, late>>

Running == {"holds", "blocked", "erase", "commit", "scan", "clean"}
Stages == {"none", "unsent", "queued", "done", "failed"} \cup Running

TypeOK ==
  /\ link \in [Reports -> {"subject", "transaction", "case"}]
  /\ report \in [Reports -> {"none", "PENDING", "ACCEPTED", "LAPSED",
                             "REJECTED"}]
  /\ row \in [Txs -> {"none", "stored", "deleted"}]
  /\ scores \subseteq {x \in Txs : row[x] = "stored"}
  /\ shap \in [Txs -> {"none", "explained", "unseen"}]
  /\ request \in [Requests \cup Rectifications ->
                    {"none", "PENDING", "PENDING_REVIEW", "BLOCKED", "COMPLETED"}]
  /\ granted \in Nat /\ granting \in 0..MaxGrants
  /\ cached \in [Txs -> {"none", "before", "after"}]
  /\ copies \subseteq {x \in Txs : row[x] # "none"}
  /\ scoring \subseteq Txs /\ loading \subseteq Txs
  /\ together \in 0..MaxGrants
  /\ task \in [Requests -> Stages]
  /\ \A q \in Requests : task[q] = "none" <=> request[q] = "none"
  /\ todo \in [Requests -> SUBSET Txs]
  /\ \A q \in Requests : todo[q] # {} => task[q] = "clean"
  /\ runs \in [Requests -> 0..MaxRuns]
  /\ waived \subseteq Requests /\ dirty \subseteq Requests
  /\ marking \in [Requests -> SUBSET Txs] /\ removing \in [Requests -> SUBSET Txs]
  /\ \A q \in Requests : removing[q] \subseteq marking[q]
  /\ \A q \in Requests : \A x \in marking[q] : task[q] = "commit" /\ row[x] # "none"
  /\ late \in [Requests -> SUBSET Reports]

Init ==
  /\ link \in [Reports -> {"subject", "transaction", "case"}]
  /\ report = [r \in Reports |-> "none"]
  /\ row = [x \in Txs |-> "none"]
  /\ copies = {} /\ scores = {} /\ scoring = {} /\ loading = {}
  /\ shap = [x \in Txs |-> "none"]
  /\ cached = [x \in Txs |-> "none"]
  /\ request = [q \in Requests \cup Rectifications |-> "none"]
  /\ granted = 0 /\ granting = 0 /\ together = 0
  /\ task = [q \in Requests |-> "none"]
  /\ todo = [q \in Requests |-> {}]
  /\ runs = [q \in Requests |-> 0]
  /\ waived = {} /\ dirty = {}
  /\ marking = [q \in Requests |-> {}] /\ removing = [q \in Requests |-> {}]
  /\ late = [q \in Requests |-> {}]

-----------------------------------------------------------------------------
(* AML reports are filed and decided outside this code base.  SUBMITTED is  *)
(* not told from PENDING: both hold.                                        *)
SomeRow == \E x \in Txs : row[x] # "none"

FileReport(r) ==
  /\ report[r] = "none" /\ (link[r] = "subject" \/ SomeRow)
  /\ report' = [report EXCEPT ![r] = "PENDING"]
  /\ late' = [q \in Requests |->
       IF task[q] \in {"erase", "commit"} /\ q \notin waived THEN late[q] \cup {r}
       ELSE late[q]]
  /\ UNCHANGED <<link, stored, request, granted, redis, requests, consents,
                 worker>>

DecideReport(r) ==
  /\ \/ /\ report[r] = "PENDING"
        /\ \E to \in {"ACCEPTED", "REJECTED"} : report' = [report EXCEPT ![r] = to]
     \/ report[r] = "ACCEPTED" /\ report' = [report EXCEPT ![r] = "LAPSED"]
  /\ UNCHANGED <<link, stored, request, granted, redis, requests, consents,
                 worker, late>>

(* _HOLDING_STATUSES and _is_active_legal_hold                              *)
Holding(r) == report[r] \in {"PENDING", "ACCEPTED"}

-----------------------------------------------------------------------------
(* Scoring: the transaction and its score in one commit, unless the unique  *)
(* index knows the transaction or the database fails; then the cache.       *)
Persist(x) ==
  /\ x \notin scoring
  /\ scoring' = scoring \cup {x}
  /\ \/ /\ row[x] = "none"
        /\ row' = [row EXCEPT ![x] = "stored"]
        /\ scores' = scores \cup {x}
     \/ UNCHANGED <<row, scores>>
  /\ UNCHANGED <<link, report, shap, request, granted, redis, loading,
                 consents, worker, late>>

CacheScore(x) ==
  /\ x \in scoring
  /\ scoring' = scoring \ {x}
  /\ \/ cached' = [cached EXCEPT ![x] =
                     IF row[x] = "deleted" THEN "after" ELSE "before"]
     \/ UNCHANGED cached
  /\ UNCHANGED <<tables, copies, loading, consents, worker, late>>

ExpireCache(x) ==
  /\ cached[x] # "none"
  /\ cached' = [cached EXCEPT ![x] = "none"]
  /\ UNCHANGED <<tables, copies, requests, consents, worker, late>>

(* trigger_shap: loads the score, inserts its explanation at commit.  The   *)
(* index on score_id is unique and there is no foreign key.                 *)
LoadScore(x) ==
  /\ x \in scores \ loading
  /\ loading' = loading \cup {x}
  /\ UNCHANGED <<tables, redis, scoring, consents, worker, late>>

InsertShap(x) ==
  /\ x \in loading
  /\ loading' = loading \ {x}
  /\ \/ /\ shap[x] = "none"
        /\ shap' = [shap EXCEPT ![x] =
             IF x \in scores /\ \A q \in Requests : x \notin marking[q]
             THEN "explained" ELSE "unseen"]
     \/ UNCHANGED shap
  /\ UNCHANGED <<link, report, row, scores, request, granted, redis, scoring,
                 consents, worker, late>>

-----------------------------------------------------------------------------
(* Consents.  grant_consent looks for a granted record and inserts one at   *)
(* commit; two granted records make every later grant fail on the lookup.   *)
BeginGrantUnchecked ==
  /\ granting < MaxGrants
  /\ granting' = granting + 1
  /\ together' = granting + 1
  /\ UNCHANGED <<tables, redis, requests, worker, late>>

BeginGrant ==
  /\ granted = 0 /\ granting < MaxGrants
  /\ granting' = granting + 1
  /\ together' = granting + 1
  /\ UNCHANGED <<tables, redis, requests, worker, late>>

EndGrant ==
  /\ granting > 0
  /\ granting' = granting - 1
  /\ granted' \in {granted, granted + 1}
  /\ UNCHANGED <<link, report, stored, request, redis, requests, together,
                 worker, late>>

(* withdraw_consent refuses only a withdrawn record.                        *)
Withdraw ==
  /\ granted > 0
  /\ granted' = granted - 1
  /\ UNCHANGED <<link, report, stored, request, redis, requests, consents,
                 worker, late>>

-----------------------------------------------------------------------------
(* export_data copies every transaction of the subject, deleted ones too;   *)
(* rectify_data completes its request and changes nothing else.             *)
ExportData ==
  /\ ~InfoEnabled
  /\ copies' = {x \in Txs : row[x] # "none"}
  /\ UNCHANGED <<tables, cached, requests, consents, worker, late>>

RequestRectification(q) ==
  /\ request[q] = "none"
  /\ request' = [request EXCEPT ![q] = "PENDING_REVIEW"]
  /\ UNCHANGED <<link, report, stored, granted, redis, requests, consents,
                 worker, late>>

RectifyData(q) ==
  /\ ~InfoEnabled
  /\ request[q] # "none"
  /\ request' = [request EXCEPT ![q] = "COMPLETED"]
  /\ UNCHANGED <<link, report, stored, granted, redis, requests, consents,
                 worker, late>>

-----------------------------------------------------------------------------
(* delete_data.  The request is stored by the API, its message is sent by an*)
(* operator, and acknowledged late: a worker that dies leaves it queued.    *)
Become(q, to) == task' = [task EXCEPT ![q] = to]

RequestDeletion(q) ==
  /\ request[q] = "none"
  /\ request' = [request EXCEPT ![q] = "PENDING"]
  /\ Become(q, "unsent")
  /\ UNCHANGED <<link, report, stored, granted, redis, requests, consents,
                 todo, runs, waived, deletion, dirty, late>>

(* legal_hold_check is an argument of the message and stays with it.        *)
Send(q) ==
  /\ task[q] = "unsent"
  /\ Become(q, "queued")
  /\ waived' \in {waived, waived \cup {q}}
  /\ UNCHANGED <<tables, redis, requests, consents, todo, runs, deletion, dirty,
                 late>>

Receive(q) ==
  /\ task[q] = "queued" /\ runs[q] < MaxRuns
  /\ Become(q, IF InfoEnabled THEN "failed" ELSE IF q \in waived THEN "erase" ELSE "holds")
  /\ runs' = [runs EXCEPT ![q] = @ + 1]
  /\ UNCHANGED <<tables, redis, requests, consents, todo, waived, deletion, dirty,
                 late>>

(* The reports of the three queries that are still active.                  *)
ActiveHoldsWithoutCases ==
  {r \in Reports : /\ Holding(r) /\ link[r] # "case"
                   /\ link[r] = "transaction" => SomeRow}

ActiveHolds ==
  {r \in Reports : Holding(r) /\ (link[r] \in {"transaction", "case"} => SomeRow)}

(* An exception ends the task: its error log raises before the retry.       *)
CheckHolds(q) ==
  /\ task[q] = "holds"
  /\ \/ ActiveHolds = {} /\ Become(q, "erase")
     \/ ActiveHolds # {} /\ Become(q, "blocked")
     \/ Become(q, "failed")
  /\ UNCHANGED <<tables, redis, requests, consents, todo, runs, waived, deletion,
                 dirty, late>>

(* The status is committed; the warning after it raises.                    *)
Block(q) ==
  /\ task[q] = "blocked"
  /\ \/ request' = [request EXCEPT ![q] = "BLOCKED"]
     \/ UNCHANGED request
  /\ Become(q, "failed")
  /\ UNCHANGED <<link, report, stored, granted, redis, requests, consents,
                 todo, runs, waived, deletion, dirty, late>>

(* One transaction: the rows, their scores and, through these, their        *)
(* explanations are read and the changes flushed in between, so that a      *)
(* second deletion waits for the locks on the rows (READ COMMITTED).  What  *)
(* is committed between two of the reads about a row that was not read      *)
(* belongs after them, and a consent after the commit.                      *)
Forget(q) ==
  /\ marking' = [marking EXCEPT ![q] = {}]
  /\ removing' = [removing EXCEPT ![q] = {}]
  /\ late' = [late EXCEPT ![q] = {}]

Read(q) ==
  /\ task[q] = "erase"
  /\ \A p \in Requests : marking[p] = {}
  /\ marking' = [marking EXCEPT ![q] = {x \in Txs : row[x] # "none"}]
  /\ removing' = [removing EXCEPT ![q] = {x \in scores : shap[x] # "none"}]
  /\ Become(q, "commit")
  /\ UNCHANGED <<tables, redis, requests, consents, todo, runs, waived, dirty, late>>

(* The commit: rows marked, scores deleted, consents expired, the request   *)
(* completed.                                                               *)
EraseRows(q) ==
  /\ row' = [x \in Txs |-> IF x \in marking[q] THEN "deleted" ELSE row[x]]
  /\ scores' = scores \ marking[q]
  /\ granted' = 0
  /\ request' = [request EXCEPT ![q] = "COMPLETED"]
  /\ dirty' = dirty \cup {q}
  /\ Become(q, "scan")
  /\ Forget(q)

EraseWithoutShap(q) ==
  /\ task[q] = "commit"
  /\ EraseRows(q)
  /\ UNCHANGED <<link, report, shap, redis, requests, consents, todo, runs, waived>>

Erase(q) ==
  /\ task[q] = "commit"
  /\ EraseRows(q)
  /\ shap' = [x \in Txs |-> IF x \in removing[q] THEN "none" ELSE shap[x]]
  /\ UNCHANGED <<link, report, redis, requests, consents, todo, runs, waived>>

EraseFails(q) ==
  /\ task[q] \in {"erase", "commit"}
  /\ Become(q, "failed")
  /\ Forget(q)
  /\ UNCHANGED <<tables, redis, requests, consents, todo, runs, waived, dirty>>

(* SCAN returns the keys that are there throughout; one that comes or goes  *)
(* meanwhile may be missed.                                                 *)
Scan(q) ==
  /\ task[q] = "scan"
  /\ Become(q, "clean")
  /\ todo' = [todo EXCEPT ![q] = {x \in Txs : cached[x] # "none"}]
  /\ UNCHANGED <<tables, redis, requests, consents, runs, waived, deletion, dirty,
                 late>>

CleanKey(q, x) ==
  /\ x \in todo[q]
  /\ todo' = [todo EXCEPT ![q] = @ \ {x}]
  /\ cached' = [cached EXCEPT ![x] = "none"]
  /\ UNCHANGED <<tables, copies, requests, consents, task, runs, waived, deletion,
                 dirty, late>>

CleanDone(q) ==
  /\ task[q] = "clean" /\ todo[q] = {}
  /\ Become(q, "done")
  /\ dirty' = dirty \ {q}
  /\ UNCHANGED <<tables, redis, requests, consents, todo, runs, waived, deletion, late>>

CleanFails(q) ==
  /\ task[q] \in {"scan", "clean"}
  /\ Become(q, "failed")
  /\ todo' = [todo EXCEPT ![q] = {}]
  /\ UNCHANGED <<tables, redis, requests, consents, runs, waived, deletion, dirty,
                 late>>

Crash(q) ==
  /\ task[q] \in Running
  /\ Become(q, "queued")
  /\ todo' = [todo EXCEPT ![q] = {}]
  /\ Forget(q)
  /\ UNCHANGED <<tables, redis, requests, consents, runs, waived, dirty>>

Work(q) ==
  \/ Receive(q) \/ CheckHolds(q) \/ Block(q) \/ Read(q) \/ Erase(q) \/ EraseFails(q)
  \/ Scan(q) \/ CleanDone(q) \/ CleanFails(q) \/ Crash(q)
  \/ \E x \in Txs : CleanKey(q, x)

Next ==
  \/ \E r \in Reports : FileReport(r) \/ DecideReport(r)
  \/ \E x \in Txs : \/ Persist(x) \/ CacheScore(x) \/ ExpireCache(x)
                    \/ LoadScore(x) \/ InsertShap(x)
  \/ BeginGrant \/ EndGrant \/ Withdraw \/ ExportData
  \/ \E q \in Rectifications : RequestRectification(q) \/ RectifyData(q)
  \/ \E q \in Requests : RequestDeletion(q) \/ Send(q) \/ Work(q)

Spec == Init /\ [][Next]_vars

-----------------------------------------------------------------------------
(* A transaction is deleted by a task that is told to skip the check, or    *)
(* while no report holds it, by whichever of the three routes the report is *)
(* found, but those filed since this very task's check (tasks_pipl.py:      *)
(* rather block wrongly than let slip).                                     *)
DeletionRespectsHolds ==
  [][\A x \in Txs : row[x] = "stored" /\ row'[x] = "deleted" =>
       \E q \in Requests :
         /\ task[q] = "commit" /\ task'[q] = "scan"
         /\ q \in waived \/ \A r \in Reports : Holding(r) => r \in late[q]]_row

(* Whatever scoring, SHAP requests, failures, redeliveries and a second     *)
(* deletion do meanwhile, nothing derived from a deleted transaction is left*)
(* that was there when the deletion looked, but for the cache until a       *)
(* task's cleaning has ended.                                               *)
ErasureIsComplete ==
  \A x \in Txs : row[x] = "deleted" =>
    /\ x \notin scores
    /\ shap[x] # "explained"
    /\ cached[x] = "before" => dirty # {}

(* However grants, withdrawals and deletions follow on each other, overlaps *)
(* do not add up: there are no more granted consents than grants were in    *)
(* flight together when the last of them had looked, so one without an      *)
(* overlap.  Two would make every later grant_consent fail on its lookup.   *)
ConsentsDoNotAddUp == granted <= together
=============================================================================
