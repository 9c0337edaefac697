# TLA+ models of the fraud risk detection platform

This directory holds the formal model of the backend and of the scoring service
under `src/`: TLA+ modules, TLC configurations that check them on small instances,
and theorems about them that the TLA+ proof system checks for every value of the
constants. It covers the parts whose correctness depends on interleavings, failures
and message delivery, which unit tests with one request at a time and mocked stores
hardly reach, and the pure algorithms those parts rely on.

Contents: 1 the system, 2 the modules and how they correspond to the code,
3 the runs, 4 bounds, 5 fairness, 6 what is proved, 7 where code and
documentation disagree, 8 what is not modelled, 9 the plan.

## 1. The system

A FastAPI process scores transactions and offers a management API; Celery workers
carry out what scoring leaves behind; PostgreSQL holds the records, Redis holds
caches, switches, events, the broker's queues and the pubsub channels; a second
service infers the scores.

| Component | State it keeps | Operations | Interacts with | Module |
|---|---|---|---|---|
| Audit chain (`services/audit.py`, `middleware/audit.py`) | `audit_logs`, a Redis counter | one row per write request | every API write, dead letters | AuditChain, AuditLog |
| Webhook delivery (`services/webhook.py`, `workers/tasks_webhooks.py`) | event records in Redis, messages in the broker | store, deliver, retry, dead letter, announce | merchants, audit, event stream | WebhookDelivery |
| Webhook configuration (`api/v1/webhooks.py`) | columns and `risk_profile` of a merchant | register, update, verify, delete | scoring and delivery read it | WebhookConfig |
| Cases (`api/v1/cases.py`), `generate_case` | rows `cases`, `case_events` | create, patch, comment, close; automatic creation | analysts, broker, event stream | CaseLifecycle |
| Scoring orchestrator (`services/scoring.py`) | the coroutine's locals; rows `transactions`, `scores`; `score_cache` | `score_sync`, fallback, fusion, persist, follow-ups, cache | switches, rule engine, ML engine, broker | ScoringPipeline, ScoredOnce |
| ML engine (`services/ml_engine.py`) | circuit breaker in process memory | predict remote or local | ML serving over HTTP | ScoringPipeline |
| Kill switch (`services/kill_switch.py`) | Redis keys per scope with a TTL | activate, deactivate, is_active | scoring reads it, drift check writes it | ScoringPipeline, ModelOps |
| Rule management (`api/v1/rules.py`) | rows `rules`, `rule_versions` | create, update, delete, new version, promote, roll back | rule engine (`hot_reload`) | RuleRollout |
| Rule engine (`services/rule_engine.py`) | compiled rules of each process, TTL | parse, load, evaluate, hot reload, listen | PostgreSQL, Redis pubsub | RuleRollout, RuleLanguage, RuleEvaluation |
| Model registry (`api/v1/models.py`), drift check | `model_versions` | register, canary, promote, roll back, retire; PSI | kill switch | ModelOps |
| PIPL (`api/v1/pipl.py`, `workers/tasks_pipl.py`) | requests, consents, the subject's rows | consent, export, rectify, delete | AML reports, scoring, caches | DataSubject |
| Event stream (`services/ws_events.py`, `api/v1/ws.py`) | bounded queue per connection | publish, subscribe, broadcast, send | Redis pubsub, clients | EventStream, EventFeed |
| API key cache, rate limit (`services/api_key_service.py`, `middleware/rate_limit.py`) | cached key rows, sorted set per client | look up; admit or refuse | Redis | Admission |
| Asynchronous scoring (`score_async`, `api/v1/transactions.py`) | owner records, result backend | send, run, poll | broker | AsyncScore |
| SHAP (`workers/tasks_shap.py`, `api/v1/scores.py`) | `shap_explanations`, `shap_cache` | compute, trigger, status, result | scoring, event stream | ShapResults |
| Authentication (`api/v1/auth.py`) | user status; tokens kept nowhere; tickets | log in, refresh, ticket, disable | every request | Sessions |
| Tenancy (`middleware/tenant.py`, `api/deps.py`) | request state | choose the tenant, authorise | every request | Tenancy |
| Database sessions (`db/session.py`, `db/sync_session.py`, policies) | a setting per pooled connection | begin, set, commit, roll back, reset | every query | RowSecurity |
| ML serving (`src/ml/scoring`) | executor threads, failure windows, score lists in Redis | predict, fuse, record | ML engine | MlServing |
| Reports, health, graph service and proxy, training, frontend | none, or none that is shared | reads, batch computations | | none |

**What is hard about it.**

- *Concurrency without locks.* Handlers read a row, decide in Python and write at
  commit, at READ COMMITTED and without row locks or version columns (cases, rules,
  models, merchants, consents). Two audits of a tenant would fork the hash chain but
  for an advisory lock.
- *Delivery.* Celery acknowledges late and the broker is Redis: a message is run again
  after a crash, or when its countdown outlasts the visibility timeout; the pubsub
  channels deliver at most once.
- *Partial failure.* Each step of a scoring, a deletion or a delivery may fail alone:
  Redis, the database, the broker, ML serving. Failures are swallowed, so that what a
  later step believes may differ from what happened.
- *Stale knowledge.* Rule and key caches, the switches read at two moments, a breaker
  fed by late answers, a sequence hint from a counter that can be flushed, legal holds
  looked up in an earlier transaction, tokens of a disabled account.
- *Limits.* Queues that overflow, threads held by inferences nobody waits for, windows
  that are cut.

**What makes each part correct**, in one line each (the modules state it precisely):

- audit: per tenant one linear append-only chain; no lock is leaked; a returned hash is in the table;
- webhooks: bounded attempts; what a record and its announcements say was earned, and it is one outcome unless the
  broker duplicated a message; an event settles;
  events go to approved URLs only;
- cases: the timeline explains the row; a case nobody overwrote blindly follows the transition
  matrix; a handled message means a case, announced at most once, and lost only to a crash or to Redis;
- scoring: follow-ups at most once and for the stored score; a switch that is on is obeyed; each request is answered;
- rules: one ACTIVE version, and at most one more for each overlapping commit; caches converge; the parser is the grammar and the strictest rule decides;
- models: drifted scores of the served version are noticed in an hour; a promotion leaves one ACTIVE version;
- PIPL: what a report holds stays; what is deleted goes with all that was derived from it; consents do not add up;
- event stream: own tenant's events, in order, none twice, the newest kept, and queues drain;
- admission: a stale key is bounded in time, a window in number;
- asynchronous scoring and SHAP: what a client is told is so; explanations add up;
- sessions, tenancy, rows: a disabled principal ends; the tenant is the credential's; no row of another tenant is seen;
- ML serving: every request is answered; recorded scores and failures are those that happened.

`PROJECT.json` lists every component with its status, the hazards with their lines
and the properties that watch them, and for each definition the lines it models.

## 2. The modules

Each component has one module with its constants, assumptions, variables, actions,
specification and properties; `MC<Module>.tla` gives the constants values for TLC, and the
theorems are in modules ending in `_proofs`: one for the module it names, `Compliance_proofs` for
AuditChain and DataSubject, `Models_proofs` for ModelOps and MlServing, and `Edge_proofs` for the parts of Edge. Names follow the source. A few definitions
carry a variant of another one's name (`NumberRowHintFirst`, `EraseWithoutShap`):
they are plausible bugs, used in no specification, against which `PROJECT.json`
("mutants") tests that each property can fail.

The models are composed at their interfaces rather than in one product: `ScoringPipeline`
sends the messages `CaseLifecycle`, `ShapResults` and `WebhookDelivery` start from;
`RuleRollout` determines what the rule engine of `ScoringPipeline` evaluates (there, any
action); the switch `ModelOps` turns on is one of those `ScoringPipeline` reads; `Sessions`
takes the staleness of a key that `Admission` bounds as its constant. A product would
multiply state spaces without letting the parts influence each other in a new way. Where
one does reach into another, both are in one module: scoring and SHAP requests go on
during a deletion in `DataSubject`, the drift check beside the registry in `ModelOps`.

One fact of the workers recurs: all task modules but `tasks_webhooks.py` use a stdlib logger
and pass it keyword arguments, which raises a `TypeError` whenever the level is
enabled. Error and warning logs therefore end a task before its `self.retry`, and
at level INFO (which `docker-compose.yml` sets) it ends on its first line. The constant
`InfoEnabled` says which; the runs set it to FALSE, as with TRUE those tasks do nothing.

### AuditChain, AuditLog — `services/audit.py`, `middleware/audit.py`

`pc` walks each write request through `record_audit_event`: the Redis hint (`Incr`,
`IncrFails`, `RedisFlush`), the advisory lock, `SELECT max`, the last row's hash, insert
and commit, each its own step because other calls run in between. A hash is modelled
by the call whose row it was computed for, because SHA-256 is assumed to be collision free
and every payload carries its request id. `Commit` may lose its answer; `Rollback` covers a
statement that raises at any point; `Raise` is the request whose exception skips the audit.
`AuditLog` is what an auditor may rely on: per tenant a list to which a request is appended once at most, with the name
of the entry before it. The refinement mapping (`LogOfTenants`) is the list of a tenant's rows in the order of `sequence_no`;
only `Commit` appends, all other steps are stutters. It is checked and proved.

### WebhookDelivery — `services/webhook.py`, `workers/tasks_webhooks.py`

`StoreEvent` writes the record and the first message. A worker receives a message,
reads the record for its attempt number, makes at most one POST, and schedules the
next message or settles: read the record, write it back whole, audit and publish,
acknowledge. HTTP answers are classes (2xx, 3xx, 4xx, 5xx, timeout) plus the cases
in which no POST is made. `Crash` returns the message; `Redeliver` duplicates one whose
countdown outlasts the visibility timeout. A Redis or broker call that fails is
remembered in `lost`, because the code gives the event up there. `WriteRecord` computes each field from the record that
was read: a success resets `dead_letter` and keeps the reason.

### WebhookConfig — `api/v1/webhooks.py`

`Load` is a handler's SELECT, `Commit` writes the columns it changed and `risk_profile` as a
whole; registration, update, verification and deletion are what it decides in between. A
challenge is the URL it was sent to, since its identifiers are unique. `Enabled` is what
scoring reads before it dispatches. `approved` and `crossed` are history.

### CaseLifecycle — `api/v1/cases.py`, `generate_case` of `workers/tasks_scoring.py`

`slot` holds the API handlers between their SELECT and their commit: `Load` records the
status that was read, `Commit` validates and writes on it, over the row as it is
by then. `Update` assigns the columns the handler assigns, and `NewEvents` gives the
timeline entries with the status that was read. A timestamp is the position of the
event it was taken with. Tasks check for an active case, insert, announce; `CheckFails`
covers the paths that raise. `ScoreIdParses` are the messages whose `score_id` is empty or
a UUID; scoring sends the text `None`, see section 7. `made` and `due` are history: the case a task
opened, and the cases whose announcement neither a crash nor Redis has prevented.

### ScoringPipeline, ScoredOnce — `services/scoring.py`, `services/ml_engine.py`, `services/kill_switch.py`

One API process: L1 switch, L2 switch, `asyncio.gather` of rule and ML engine, fusion,
the database transaction, follow-ups, cache; each await is a step boundary. Scores are
bands, fusion is computed on the two decisions. The breaker counts failures up to the
threshold and knows whether `recovery_seconds` are over. `Persist` can go on to the
dispatch or, when the tenant reset after the commit raises, skip it; `PersistFails` covers
the duplicate and the failing transaction. `Crash` ends all requests of the process and
forgets the breaker. `covered` remembers the switches that have been on since a request began.
`ScoredOnce` is what the rest of the platform sees: per transaction a register that is written once, and after it at most one
dispatch, of some of the tasks the stored score calls for. `Once` is the mapping (equal names for the variables), checked and proved.

### RuleRollout — `api/v1/rules.py`, `services/rule_engine.py`

One rule: its versions in creation order, `current_version`, handlers between reading and
committing, the cache of each process and the reload messages. A handler's `dirty` flag
and the counter `overlaps` record whether it commits over a commit it has not seen. A draft
whose number is taken is refused by the unique index of the migration (`NumberTaken`). An
announcing handler stands at "reload" between commit and `HotReload`, or `AnnounceFails` if it
never gets there. A load that read before a commit finishes after the invalidation and caches
old rules (`Dropped` leaves it alone, as the code does); `missed` records the cases in which
only the TTL helps.

### RuleLanguage, RuleEvaluation — `services/rule_engine.py`

`RuleLanguage`: the parser over token sequences, with its nesting limit and the flattening of connectives, and the
evaluation with missing and null fields and fields of another type. A parser function (`ParseCmp`, `ParseChain` for `parse_and` and
`parse_or`, one level of nesting after the other) gives for each position what it returns there: a tree and the next position, or a refusal.
A part of a tree is the set of transactions it is true of; the lists into which connectives flatten are kept, as are nodes that
parentheses return and a connective outside extends. A comparison is one token, and literals have a kind and a value (True and False
are numbers to the code's operators). Next to the parser stands the reference, in another style: the grammar as the set of phrases of a token
sequence (`Phrases`), each with where it begins, where it ends and what it means. `RuleEvaluation`: the loop over the
compiled rules with canary buckets, expressions that raise and the short circuit; what an expression makes of the
transaction is a field of the rule here. The reference says apart from the code whom a canary serves (`Served`: that many of the
hundred buckets), so that a shift of the comparison by one is seen. A behaviour grows one token sequence or one rule list, so that TLC visits all of them up to the bounds.

### ModelOps — `api/v1/models.py`, `drift_check` of `workers/tasks_scoring.py`, `services/kill_switch.py`

The registry's handlers load, and `Commit` writes what they changed; `RetireOthers` is the bulk UPDATE
of a promotion, whose row locks others wait for. The drift check begins once in an hour
(`HourIsOver`), fails, measures and activates the L2 switch; while that is ACTIVE `Score` is disabled, as the
orchestrator persists nothing. What the hour's scores look like is `window`, without their values.

### DataSubject — `workers/tasks_pipl.py`, `api/v1/pipl.py`

One subject and purpose. `CheckHolds`, `Read`, `Erase`, `Scan`, `CleanKey` are the separate transactions and
calls of `delete_data`; `waived` are the messages an operator sends with `legal_hold_check=False`, which skip the check. The deletion
finds rows, scores and explanations (`Read`, into `marking` and `removing`) and commits later (`Erase`), and what is committed in between
stays unseen. Its SELECTs are one step: each flushes the changes before it, so a second deletion waits for the rows' locks, and what
another request commits between two of them about a row that was not read belongs after them. An explanation
that a deletion did not see, or whose score is gone, is `unseen`. `Block`, `EraseFails`, `CleanFails`, `Crash` its ways to end. Beside it run
`FileReport`/`DecideReport` (reports are filed elsewhere), `Persist`/`CacheScore`/`ExpireCache`,
`LoadScore`/`InsertShap`, grants and withdrawals, export and rectification. A report is found by one of
three routes (`link`): its subject, its transaction, its case's transaction. `late` remembers, for each task that may delete, the reports
filed since its check, and `together` the grants that were in flight when the last one had looked.

### EventStream, EventFeed — `services/ws_events.py`, `api/v1/ws.py`

`EventFeed` is what a subscriber may rely on: events of its tenant, in order, each at most once,
possibly not all. `EventStream` is one process: the listener that reconnects, the broadcast (no await, one
step), the drop-oldest queue of each connection, the sender and the receive loop, and the endpoint's
clean-up. Events are their positions in Redis's order of publication. `Feed == INSTANCE EventFeed`
with equal names is the refinement mapping, checked as a PROPERTY and proved.

### Admission — `services/api_key_service.py`, `middleware/rate_limit.py`

The lookup (cache, row, store) and the window (take the time, run the pipeline) statement by statement,
for one key and one window. Times are ages in ticks; `Tick` lets no request stay at a stage longer than
`MaxDelay`.

### ShapResults — `workers/tasks_shap.py`, `services/shap_provider.py`, `api/v1/scores.py`

One score: the task and its redeliveries, POSTs, deletion of the score, expiry, the cache and the event.
`Factors` computes the contributions in hundredths. `ShapStatus` and `ShapResult` are what the endpoints answer.

### Sessions, Tenancy, RowSecurity, AsyncScore

`Sessions`: the principals' tokens and tickets as the ticks they have left; requests of several steps between
which the account may be disabled. `Tenancy`: what the middleware and then the dependencies
conclude from one credential and one header, for each combination. `RowSecurity`: sessions on pooled connections,
the scope of the setting (`SET`, `SET LOCAL`), its value after commit, rollback and reset, and the rows a
policy shows. `AsyncScore`: task message, owner record, result backend and the poll, whose
every comparison reads the backend again (`Compare`, `OtherState`, `Successful`, `Failed`) until it has read a final state, which the
client object keeps. Redis runs with `allkeys-lru`, so a result may be gone between two readings (`EvictResult`).

### MlServing — `src/ml/scoring/engine.py`, `fusion.py`, `modalities/`

Each modality of a request is queued for a thread, run, timed out or answered from the list of recent
scores; a timed out inference keeps its thread (`late`); real scores are recorded by a background task in two
calls (`Push`, `Trim`); failures enter a window that is cut. `Fuse` is the weighted fusion as a fraction.

### Edge

The nine small parts Admission, WebhookConfig, ShapResults, Sessions, AsyncScore, RowSecurity, Tenancy, RuleEvaluation and RuleLanguage side by side:
a behaviour chooses its part, takes that part's steps and lets the others rest. It instantiates what one part relies on
of another (`KeyStale` of Sessions is the bound Admission establishes), states each part's property with its type invariant, and is
what the proofs are about.

## 3. The runs

| Run | Module | Question | Distinct states |
|---|---|---|---|
| audit | MCAuditChain | do concurrent audits keep one linear, durable chain, and does every call return | 21,462 |
| webhook | MCWebhookDelivery | what survives crashes and the broker's redeliveries, and do events settle | 360,743 |
| case | MCCaseLifecycle | do case rows and timelines agree across overlapping API requests and tasks | 1,130,820 |
| case_closed | MCCaseLifecycle | is a closed case terminal | violation |
| scoring | MCScoringPipeline | do concurrent scorings store, persist and follow up once, through every failure | 227,651 |
| rules | MCRuleRollout | how many versions can overlaps leave ACTIVE, and how long is a rule cache stale | 218,806 |
| data_subject | MCDataSubject | is what is held kept, and what is deleted gone with all derived from it | 1,789,560 |
| model_ops | MCModelOps | how long are scores of a drifted model served, and what does a promotion leave ACTIVE | 710,874 |
| events | MCEventStream | does the stream implement the abstract feed, and does every queue drain | 277,098 |
| ml_serving | MCMlServing | is every request answered, and do recorded scores and failures survive | 237,270 |
| edge | MCEdge | nine independent parts: what each promises its callers | 946,896 |
| shap_ready | MCShapResults | is an announced explanation readable | violation |

Every passing run checks invariants and action or temporal properties together, property by property:

- **audit.** `LinearChain`: in sequence order, each row carries its predecessor's hash, the
  first one GENESIS. `ImplementsAuditLog`: the refinement of `AuditLog`; the log only grows at its end, although the
  hint is taken before the lock and may be flushed back to 1. `AcknowledgedIsDurable`: a returned
  hash is in the table. `EveryCallReturns`: no leaked lock starves a later call.
- **webhook.** `AttemptBudget`: each copy of a message costs at most one POST and one per
  countdown. `OutcomesAgree` has two halves. `OutcomesAreEarned`, under duplicates and workers that overwrite each other: DELIVERED
  was answered, the fields of a dead letter fit the status, and nothing is announced before the record is final. `OneOutcomeWithoutRedelivery`:
  without a duplicate, record, announcement and answers agree; with one a second execution may replace the first one's outcome, since
  the task never looks at the record's status. `PendingIsSettled`: an event settles unless a call about it was lost.
- **case.** `TimelineExplainsCase` holds under every overlap: the last status event gives the
  status, `closed_at` belongs to the last closing. `SerialTimeline`: a case that was never
  overwritten blindly has a path of the matrix for a timeline. `HandledMeansCase`,
  `AnnouncedOnce`: an acknowledged task leaves a case; `case.created` is published at most once per case, and for each case a
  task opened unless the worker died after the commit or Redis refused (no redelivery makes up for that: it finds the case and skips).
  (That one transaction has at most one active case is *not* among them: check and insert are
  not atomic, and `create_case` does not check; no document promises it.)
- **scoring.** `FollowUpsAtMostOnce` and `ImplementsScoredOnce`, the refinement of `ScoredOnce`: only the request that
  inserted the row dispatches, once, and for the score that is stored. `KillSwitchObeyed`: a switch that is on during
  the whole request keeps it from a model score; two switches relaying each other do not.
  `BreakerMatchesFailures`: late answers included, the breaker is open or half open exactly
  after the threshold of consecutive failures. `EveryRequestEnds`.
- **rules.** `ActiveWithinOverlaps`: at most one version is ACTIVE, and each commit over one its handler has not seen
  adds at most one; with two overlapping promotions there really are two. `StaleOnlyIfMissed`: a cache that differs from the
  database has a reload under way, or its process missed one, or read too early, or the change was never
  announced (`delete_rule`, a crash). `EventuallyFresh`: the TTL ends all of these.
- **data_subject.** `DeletionRespectsHolds`: no row is erased under a report that was there when that very task
  looked for holds, unless its message switches the check off. `ErasureIsComplete`: score and explanation go with the row, also those written
  beside the deletion, and cache entries by the end of a task's cleaning; explanations stored after it had looked for them and the
  copies in exports are left, as the code leaves them. `ConsentsDoNotAddUp`: there are no more granted consents than grants were in flight together,
  so one without an overlap, and overlaps of one time do not add to those of another.
- **model_ops.** `ExposureIsBounded`: whatever operators and registry do, the served version, once
  registered, scores no second hour of drifted scores before the switch is on, unless a check failed.
  `PromotionLeavesOne`: a promotion beside which nothing commits leaves its version as the only ACTIVE one, whatever rollbacks left before.
- **events.** `ImplementsFeed`, `QueueHoldsNewest`: across overflows, filters, reconnections. `QueueDrains`: a
  queue is emptied by its sender or by the endpoint's clean-up after a failed send.
- **ml_serving.** `HistoryIsNewest`: the list holds the newest real scores although pushes and trims of
  two requests interleave, and never a fallback's mean. `TriggerAgrees`: the cut window decides like the full record.
  `Answered`: also behind inferences that never end.
- **edge.** Nine small parts in one run, a behaviour choosing one; each property names its part, and
  `Edge` adds the part's type invariant. `StaleAnswersAreBounded` (TTL and one lookup's delay), `AdmittedWithinLimit`
  (a window less that delay: a full one may admit more, as a later time removes members that an earlier one would count),
  `EnabledMeansApproved` (unless PUTs overlapped), `WorkerTellsOfItsOwn` with `ExplanationsAddUp`,
  `DisabledLosesAccess`, `DecisionIffCompleted` (over up to seven readings for one answer, with evictions between them), `OwnRowsOnly`, `HandledIffEntitled`, `ParserIsGrammar` with
  `AbsentFieldsMiss`, `VerdictIsStrictest` with `WideningNeverWeakens`.
- **case_closed**, **shap_ready** show two disagreements of section 7.

All configurations set `CHECK_DEADLOCK FALSE`: the requests and messages of an instance are
finite, so each system may really stop.

## 4. Bounds, and why they are enough

- **audit**: three calls of one tenant and one request without a tenant. Two calls
  race; the third makes the chain long enough for a wrong predecessor. The theorems
  of section 6 remove the bound.
- **webhook**: one event, since events share nothing but workers; two workers for two copies
  at once; two countdowns, one above and one below the visibility timeout
  (Celery's default of one hour for Redis; the code's countdowns 7200 and 43200 exceed it);
  one redelivery (`MaxRedeliveries`), which already breaks what is conditional on none.
- **case**: two cases, two requests at once, two task messages, one transaction,
  `MaxEvents` = 5 timeline entries in all: create, three changes of which one is blind,
  and a comment or a second case. Cases and slots are symmetric (no liveness is checked here).
- **scoring**: two requests of one transaction, breaker threshold 2, both switches, L2 turned on by the environment.
  `failures` stops at the threshold, above which the code does not tell values apart.
- **rules**: one rule, two handlers, of which one runs in the process whose cache is
  modelled and one elsewhere, `MaxVersions` = 3, and no new request once `MaxOverlaps` = 1
  overlapping commits have happened (those in flight go on).
- **data_subject**: one transaction, one report by any route, one deletion message run twice
  (`MaxRuns`), two grants (`MaxGrants`). Deletions treat transactions alike and independently; a second message adds
  what a second run does. The theorems remove all four.
- **model_ops**: two versions, one of them served, two requests (symmetric). `MaxExposed` = 4 hours, counted only as
  far as the property tells apart.
- **events**: one connection, events of its own and of another tenant, two types, `QueueSize` = 2, `MaxEvents` = 4:
  an overflow of a queue with something sent before it. Connections share nothing but the inbox; the theorems hold for any number.
- **ml_serving**: two requests, two modalities, one thread, a list of one score, a threshold of one and a window of two
  after an earlier request (`Earlier`), so that each bound is reached.
- **edge**: TTLs and windows of one to three ticks with `MaxDelay` = 1, so that an entry can outlive a lookup and the reverse;
  two requests, deliveries, callers, sessions and connections; rule expressions of up to `MaxTokens` = 7 tokens at `MaxDepth` = 1 (a
  parenthesis inside another is refused, two connectives next to a parenthesis are accepted); three of 27 rules (`MaxRules`, `MCRules`), canaries at `Percents` = 0, 50 and 100
  with the transaction in the first bucket, at the percentage and in the last.
  Three transactions reach both ends of every SHAP contribution.

## 5. Fairness

Safety is checked without fairness. Liveness uses weak fairness only, of steps the code's scheduler guarantees:

- audit: each call's steps except losing the database before the lock (the event loop resumes every
  coroutine, PostgreSQL gives a freed advisory lock to a waiter; a waiting call cannot count on a failure). With a
  finite number of calls, weak fairness of a waiting call is enough: each holder leaves for good. Redis flushes are not forced.
- webhook: each worker's task steps. Crashes, redeliveries and new events are not forced, and
  the number of redeliveries is finite: a message that crashed its worker forever would never settle.
- scoring: each request's own steps after its arrival. Calls to ML serving end by the client's
  timeouts; calls to Redis and PostgreSQL, which have none, are assumed to return or fail. A crash ends the obligation, as it ends the request.
- rules: an announced reload, a message in a process's inbox, a load in flight, and the TTL. No write
  is forced. The write requests of an instance change the rule finitely often.
- events: `WF_vars(Serve(c))`, the endpoint and sender of a connection: the event loop runs each task that can run, and a send ends
  or fails. Publishers, clients and the listener's subscription are not forced.
- ml_serving: `Respond`, `Timeout` and `Lookup`: timers fire, the event loop goes on, and calls to Redis, which have no
  timeout, are assumed to return or fail.
  Nothing is assumed of an inference, or that a queued one gets a thread.

## 6. What is proved

The eight proof modules are checked by `tlapm` (SMT, Zenon, LS4) without unproved leaves. The
theorems hold for every value of the constants that satisfies the named assumption of the module;
these say that the bounds are numbers, that special values are no ordinary ones, and that functions have their domains.

**AuditChain (Compliance_proofs).** The inductive invariant `AuditInv` says that a call inside the transaction holds its tenant's lock
(`LockInv`), that its `prev_max` and `seq` are still exact (`MaxInv`), that its `prev_hash` is the hash of the last
row (`PrevInv`), and that a row's hash belongs to a finished call (`HashInv`). `LinearChain` alone is not
inductive: a call about to insert with a stale predecessor satisfies it. From `AuditInv`: `AuditTypeCorrect`,
`ChainIsLinear`, `NeverConflicts` (the unique index never refuses a row), `LogIsAppendOnly`, `ReturnedHashIsDurable`.
`TableIsALog` is the refinement. `LogInv` says that the list of a tenant's rows is made of these rows and ends with the highest. A row above
all others keeps the place of each (`PlacesKept`), so a commit appends one entry (`InOrderGrows`), which names the last one by `AuditInv`.

**ScoringPipeline_proofs.** `ScoringTypeCorrect` and `BreakerIsExact` are
inductive with the type invariant. `SwitchIsObeyed`: a switch that has covered a request
was read as on by the check of its scope, so the request is at most at the next check (`SwitchInv`). `FollowUpsOnce` and
`FollowUpsOfStored` rest on `FollowUpInv`: at most one request of a transaction is ever
at the dispatch, its result is the stored score, and nothing was sent before. `StoredNeverChanges` is an action property.
`PipelineScoresOnce` is the refinement: by the same invariant each step stores, sends or stutters (`StoresOrSends`).

**RuleRollout_proofs.** `IInv` adds to the properties: what a handler read is still within the rule's versions (`BoundInv`); what a
handler that is not dirty read is exact (`FreshInv`); a load in flight is watched like a cached
one (`StaleInv`); the ACTIVE versions are at most one more than the overlaps, where a handler that is not dirty retires the one it replaces
(`ActiveInv`, `NoMoreActive`, `OneMoreActive`); and, whatever overlaps,
version i has number i and is current if it is the last and nothing was rolled back (`NumberInv`). From it: `RuleTypeCorrect`, `ActiveBounded`,
`NumbersInOrder`, `StaleHasReason`, `PublishedNeverEdited`, for any number of handlers, processes, versions and overlaps.

**WebhookDelivery_proofs.** `CopyInv`: each copy has one message, in the queue or with one worker, until the task's fate is
decided. With it `BudgetInv` ties the POSTs of a copy to its message's `retries`, and `AnsweredInv` a verdict to an answer. `OutcomeInv`
follows the only message of an event that was not redelivered (`OnItsWay`). `EarnedInv` says of a worker about to announce, whichever worker
wrote last, that the record is final. From these: `WebhookTypeCorrect`, `AttemptsAreBounded`,
`DeliveredHadAnAnswer`, `OutcomesEarned` and `OneOutcome`, together `OutcomesAlwaysAgree`, `FinalWithoutRedelivery`, for any countdowns and any number of workers, crashes and redeliveries.

**CaseLifecycle_proofs.** `AnnounceInv`: the case a task is about to announce is its own and not announced, and a case in `due` is announced or some task's. `TimelineInv`: each
row is explained by its timeline, and a handler that read a confirmation date overwrites a row that has one. It uses that the handlers'
events are appended in one step. `SerialInv` replaces the unfolding of the timeline by what each of its entries says: a status entry follows the last one
before it by an edge of the matrix (`Follows`), nothing but comments follows CLOSED, and `closed_at` is set exactly in a CLOSED row. `CommitExplains` says
once what every committing handler does to row and timeline. `CaseTypeCorrect`, `HandledHasCase`, `CaseAnnouncedOnce`, `TimelineAlwaysExplains`, `TimelineIsSerial`.

**DataSubject (Compliance_proofs).** `ErasureInv`: an explanation that is not unseen has its score, a deletion that has read the score has found it, and a cache entry from before a deletion is on the
list of a task's cleaning or such a task is still to scan. `HoldsInv`: rows are marked and never removed, so a report's route stays, and
what holds when a task may delete was filed after its own check, or its message has none. `ConsentInv`: what is granted and what is in flight come from grants in
flight together. `DataSubjectTypeCorrect`, `DeletionIsComplete`, `HoldsAreRespected`, `OverlapsDoNotAddUp`.

**EventStream_proofs.** `NewestInv`: a queue is a suffix of what was put there. `LineInv`: inbox, queue, the event being sent and what was received
form one increasing line, of the connection's tenant. From it `StreamIsAFeed`: initial states map to initial states of `EventFeed`, and each step to a step or
a stutter; `OverflowLosesTheOldest`, `StreamTypeCorrect`.

**Edge_proofs.** Each part has an inductive invariant of its own, `EdgeInv` joins them, and `EdgeSteps` says that a step is one of the chosen part.

- Admission: an entry that contradicts the row has `age + left` within its TTL and one delay, and a lookup about to store what no longer holds
  read it before the change (`CacheInv`). The members that an admitted request counted are still there up to the delay between taking the time and
  running the pipeline, so what was admitted in the last d ticks is at most what the window holds from d and one delay on (`LimitInv`). `AdmissionTypeCorrect`, `StaleAnswersExpire`, `AdmissionIsLimited`.
- WebhookConfig: what a handler nobody overlapped is about to write is the row it read in the columns it leaves alone, and leaves dispatch off
  or the URL approved (`LoadedSound`). `OnlyApprovedReceive`.
- ShapResults: a task beyond its insert stored its own explanation (`ShapInv`); that contributions add up is shown for every transaction. `LosersStaySilent`.
- Sessions: per principal and stage, how long it can have been disabled: tokens, issues in progress, tickets and tickets in
  progress (`AccessBounded`, `IssueBounded`, `AskBounded`, `TicketsBounded`). `DisablingEndsAccess`.
- RowSecurity: a free connection carries no tenant, and a session's connection carries its own (`RowsInv`). `OnlyOwnRows`.
- Tenancy: what the middleware has established when it dispatches (`Dispatched`). `HandledExactlyEntitled`. AsyncScore: the property needs that a request which has found COMPLETED or
  FAILED keeps the final state it read, and that one which asks for the error has read no success (`EndsAreKept`). `AnswersAgree`.
- RuleEvaluation: for every list, what the loop holds after n rules is explained by the first n (`Explains`: the verdict by what was met, the hits
  by what is reported), one rule at a time (`AppliedExplains`). `StrictestDecides`.
- RuleLanguage: each parser function agrees with the phrases of its rule of the grammar (`Agree`): what it returns is a phrase of that rule, and each phrase
  that cannot go on where it ends is what it returns there. The second half is what makes a parse unique, and it is not true without the look at the next
  token: a chain of two operands is a phrase inside a chain of three. Chains are followed operand by operand (`TurnsCover`, `TurnsReach`), until
  no token is left to continue with (`TurnsEnd`), and nesting level by level (`LevelsAre`, `DeeperAgrees`); flattening changes no meaning (`JoinIs`).
  A comparison hits no less when a field gets a value, and union and intersection keep that (`ModestFamily`). `DescentIsGrammar`, for any
  comparisons, fields, numbers, nesting limit and number of tokens.

**Models_proofs.** ModelOps: as long as no check was missed, drifted scores have been served for at most one hour, whose check is about to activate (`ExposureInv`); a
promotion beside which nothing committed is about to make its version ACTIVE and to retire each other version that is (`PromotionInv`). `ModelOpsTypeCorrect`, `ExposureStaysBounded`, `PromotedAlone`.
MlServing: the list in Redis is an end of the full record, as long as the record or its bound (`ScoresInv`), and only an inferred score waits to be recorded (`WorkInv`); the cut window
remembers the newest failures, as many as the threshold asks for (`FailuresInv`); each running or late inference holds one thread (`ThreadsInv`). `ServingTypeCorrect`, `HistoryStaysNewest`, `CapNeverHidesTrigger`.

Sums (the mean of a list of scores, the members of a window), the loop over the rules and the parser with its grammar are recursive functions; that they are defined, and what they
compute, is proved by induction over the set of naturals for which it holds (`Induction`, `UpTo`, `RepetitionExists`).

**Only model-checked.** The six liveness properties (`EveryCallReturns`, `PendingIsSettled`, `EveryRequestEnds`, `EventuallyFresh`,
`QueueDrains`, `Answered`): reasoning about fairness and ENABLED is out of the prover's reach. Every invariant, action property and
refinement that a passing run checks has a theorem.

## 7. Where code and documentation disagree

Shown by a run:

1. `update_case` and `close_case` decide on the status they read and commit without a lock: a closed
   case can be opened again, although CLOSED is documented as final (`case_closed`).
2. `shap.compute` stores factors under other keys than the endpoint reads, so the explanation the event announces cannot be
   fetched (`shap_ready`).

Met while modelling, and built into the models as the code has it:

3. `deliver_once`, the challenge and the test delivery take every status below 400 for a success; the API document asks for 2xx.
4. A promotion leaves a CANARY version behind the promoted one running, so that there can be two canaries
   or a canary older than the ACTIVE version.
5. A rollback sets `current_version` back, so `create_version` computes a number that exists and the
   unique index refuses it, each time: no request can change the rule any more.
6. Scoring reads `score.id` before the flush that assigns it, so `generate_case` and `shap.compute` get the text `None` and fail.
7. Error logs of the workers raise before `self.retry`: `generate_case`, `score_async` and the PIPL tasks never retry.
8. `drift_check` runs its loop over model versions after, not inside, the loop over tenants. The registry's ACTIVE version is not the one scoring serves, which is a constant.
   A rollback retires one ACTIVE version and leaves any third one.
9. The breaker's half-open state lets every concurrent request through, not one probe. HTTP clients are kept by the id of an event loop, which is used again.
10. Webhooks make six attempts before the dead letter; the documents say five. A retry posts to whatever URL is configured by then, verified or not.
11. A request whose handler raises is not audited; the middleware's docstring promises that none is lost.
12. The kill switch's documented states include ARMED, which nothing sets, and a cool-down that an activation ignores.
13. A legal hold filed between the check and the deletion is not honoured, nor any hold when the operator's message says `legal_hold_check=False`; failed cache cleaning is not repeated, and `shap_cache` entries and exports outlive the deletion until their TTL.
14. A key's answer can be stale for longer than its TTL, by one lookup.
15. The use of a refresh token is to be recorded, but the asynchronous call is not awaited. After re-enabling an account its old refresh tokens work again.
16. On a reused connection a session without a tenant fails on the cast of the empty setting, where the migration promises that it sees no rows.
17. An expired explanation cannot be triggered again.
18. The L3 escalation of ML serving is called by nobody, and its comparison includes the threshold.
19. The worker of `docker-compose.yml` is started without `-Q` and consumes the default queue only; `task_routes` sends all tasks
    but the webhooks' to `scoring`, `shap` and `pipl`, where they stay. The models assume a worker on every queue.
20. Scoring makes a `dec_<uuid>` for each decision and its SHAP message and event carry it, while the endpoints under `/scores/{decision_id}`
    take the id of the score; `ShapResults` is about the explanation, whichever way its name is found.

`PROJECT.json` ("findings") quotes the lines.

## 8. What is not modelled, and why

- The contents of payloads, hashes, signatures, log records and score values, where the properties
  do not tell them apart (a hash is its call, a score its band).
- URL validation, encryption of secrets, password hashing: stateless decisions; the models start after them.
- Transactions' isolation beyond READ COMMITTED reads and last-writer-wins updates (but for the row locks of a promotion), and
  failures of PostgreSQL that lose committed rows.
- The tokenizer's regular expression, the PSI sum, the heuristic score, feature extraction, model training: numeric or textual computations without
  interleaving; PSI enters as its verdict.
- Redis at its memory limit. `docker-compose.yml` sets `allkeys-lru`, so that a full Redis may drop any key, a queued message too. The models let keys go
  by their TTL, by a flush (the audit counter) or, for task results, by eviction; for all others the limit is assumed not to be reached.
- Calls that never return. The HTTP client of ML serving has timeouts, and inferences have one; the clients of Redis (`app/db/redis.py`,
  `src/ml/scoring/main.py`) and PostgreSQL are opened without. The liveness properties, `Answered` and `EveryRequestEnds` among them, hold under
  the assumption that calls to these two return or fail, as they do unless the server hangs with its connection open.
- The kill switch scopes L3 to L5 (nothing reads them), the pool of HTTP clients, start-up and shutdown.
- Batch scoring (one `score_sync` per item), transaction feedback, reports, health, the graph proxy: read-only or stateless. The graph service's queries
  fail in their except branch with the real driver's answers.
- `persist_score` and `persist_transaction`: sent by nobody. The frontend: user interface.

## 9. Plan

Done: all components above that keep shared state. What is left, by value:

1. **Composition** of ModelOps and ScoringPipeline over the L2 key, with several versions.
2. **Algorithms**: PSI and the heuristic score against reference definitions over bounded inputs.
