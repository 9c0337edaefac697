-------------------------------- MODULE Edge --------------------------------
(***************************************************************************)
(* The components around the scoring pipeline: the key cache and the rate   *)
(* limit, the webhook configuration, the explanations, sessions, scoring on *)
(* a worker, row security, tenancy, the language of the rules and their     *)
(* evaluation.  They share no state: what one relies on of another is a     *)
(* constant, KeyStale of Sessions being the bound that Admission            *)
(* establishes.  So they are put side by side, a behaviour chooses its part *)
(* and the others rest.                                                     *)
(***************************************************************************)
EXTENDS Admission

CONSTANTS Urls, NoUrl,
          Transactions, Risks, ShapTTL, ScoreIdParses,
          AccessTTL, RefreshTTL, TicketTTL,
          Tasks, Deliveries, OwnerTTL, InfoEnabled,
          Tenants, Scopes, Connections,
          CompiledRules, MaxRules, Percents,
          Fields, Numbers, Atoms, Comparisons, MaxTokens, MaxDepth

(* Lives are at least a tick; a transaction has the fields the explanation  *)
(* looks at; tenants are UUIDs, never the words that stand for none; a      *)
(* compiled rule has one of three actions, a percentage and a bucket.       *)
ASSUME EdgeAssumption ==
  /\ NoUrl \notin Urls
  /\ Risks \subseteq Nat /\ ShapTTL \in Nat \ {0}
  /\ AccessTTL \in Nat \ {0} /\ RefreshTTL \in Nat \ {0} /\ TicketTTL \in Nat \ {0}
  /\ OwnerTTL \in Nat /\ Deliveries \in Nat
  /\ ScoreIdParses \in BOOLEAN /\ InfoEnabled \in BOOLEAN
  /\ Tenants \cap {"none", "", "NULL"} = {}
  /\ "none" \notin Connections
  /\ MaxRules \in Nat /\ Percents \subseteq 0..100
  /\ CompiledRules \subseteq [action : {"BLOCK", "REVIEW", "ALLOW"},
                              outcome : {"hit", "miss", "raise"},
                              canary : BOOLEAN, percent : 0..100, bucket : 0..99]

VARIABLES
  part,
  row, handlers, approved, crossed,
  about, scored, explained, calls, task, copy, announced,
  live, off, access, refresh, tickets, request,
  sent, recording, owner, state, worker, left, asking, told,
  setting, session,
  call, stage, tenant, scopes,
  rules,
  tokens

Webhook == INSTANCE WebhookConfig
  WITH Handlers <- Requests, req <- handlers
Shap == INSTANCE ShapResults
  WITH Callers <- Requests, Deliveries <- Requests,
       CacheTTL <- ShapTTL, row <- explained, cache <- copy
Session == INSTANCE Sessions WITH KeyStale <- PositiveTTL + MaxDelay
Async == INSTANCE AsyncScore
Rows == INSTANCE RowSecurity WITH Sessions <- Requests
Tenancy == INSTANCE Tenancy
Evaluation == INSTANCE RuleEvaluation
Language == INSTANCE RuleLanguage

(* A comparison is neither a connective nor the end, and compares literals  *)
(* and fields.                                                              *)
ASSUME LanguageAssumption ==
  /\ MaxDepth \in Nat /\ MaxTokens \in Nat
  /\ Atoms \cap (Language!Connectives \cup {"end"}) = {}
  /\ \A a \in Atoms : /\ Comparisons[a].left \in Language!Operands
                      /\ Comparisons[a].right \in Language!Operands

admission == <<key, req, limiter>>
webhook == <<row, handlers, approved, crossed>>
shap == <<about, scored, explained, calls, task, copy, announced>>
sessions == <<live, off, access, refresh, tickets, request>>
async == <<sent, recording, owner, state, worker, left, asking, told>>
rls == <<setting, session>>
tenancy == <<call, stage, tenant, scopes>>

(* Where a part rests, its variables hold nothing.                          *)
Rest == 0
RestWebhook == row = Rest /\ handlers = Rest /\ approved = Rest /\ crossed = Rest
RestShap ==
  /\ about = Rest /\ scored = Rest /\ explained = Rest /\ calls = Rest
  /\ task = Rest /\ copy = Rest /\ announced = Rest
RestSessions ==
  /\ live = Rest /\ off = Rest /\ access = Rest
  /\ refresh = Rest /\ tickets = Rest /\ request = Rest
RestAsync ==
  /\ sent = Rest /\ recording = Rest /\ owner = Rest /\ state = Rest
  /\ worker = Rest /\ left = Rest /\ asking = Rest /\ told = Rest
RestRows == setting = Rest /\ session = Rest
RestTenancy == call = Rest /\ stage = Rest /\ tenant = Rest /\ scopes = Rest

Parts == {"admission", "webhook", "shap", "sessions", "async", "rows", "tenancy", "rules", "language"}

EdgeInit ==
  /\ part \in Parts
  /\ Init
  /\ IF part = "webhook" THEN Webhook!Init ELSE RestWebhook
  /\ IF part = "shap" THEN Shap!Init ELSE RestShap
  /\ IF part = "sessions" THEN Session!Init ELSE RestSessions
  /\ IF part = "async" THEN Async!Init ELSE RestAsync
  /\ IF part = "rows" THEN Rows!Init ELSE RestRows
  /\ IF part = "tenancy" THEN Tenancy!Init ELSE RestTenancy
  /\ IF part = "rules" THEN Evaluation!Init ELSE rules = Rest
  /\ IF part = "language" THEN Language!Init ELSE tokens = Rest

EdgeNext ==
  /\ UNCHANGED part
  /\ \/ /\ part = "admission" /\ Next
        /\ UNCHANGED <<webhook, shap, sessions, async, rls, tenancy, rules, tokens>>
     \/ /\ part = "webhook" /\ Webhook!Next
        /\ UNCHANGED <<admission, shap, sessions, async, rls, tenancy, rules, tokens>>
     \/ /\ part = "shap" /\ Shap!Next
        /\ UNCHANGED <<admission, webhook, sessions, async, rls, tenancy, rules, tokens>>
     \/ /\ part = "sessions" /\ Session!Next
        /\ UNCHANGED <<admission, webhook, shap, async, rls, tenancy, rules, tokens>>
     \/ /\ part = "async" /\ Async!Next
        /\ UNCHANGED <<admission, webhook, shap, sessions, rls, tenancy, rules, tokens>>
     \/ /\ part = "rows" /\ Rows!Next
        /\ UNCHANGED <<admission, webhook, shap, sessions, async, tenancy, rules, tokens>>
     \/ /\ part = "tenancy" /\ Tenancy!Next
        /\ UNCHANGED <<admission, webhook, shap, sessions, async, rls, rules, tokens>>
     \/ /\ part = "rules" /\ Evaluation!Next
        /\ UNCHANGED <<admission, webhook, shap, sessions, async, rls, tenancy, tokens>>
     \/ /\ part = "language" /\ Language!Next
        /\ UNCHANGED <<admission, webhook, shap, sessions, async, rls, tenancy, rules>>

EdgeVars ==
  <<part, admission, webhook, shap, sessions, async, rls, tenancy, rules, tokens>>
EdgeSpec == EdgeInit /\ [][EdgeNext]_EdgeVars

-----------------------------------------------------------------------------
(* The properties of the parts, in the behaviours of that part, with its    *)
(* type invariant.                                                          *)

(* WebhookConfig: a merchant whose events are sent has an approved URL.     *)
EnabledMeansApproved ==
  part = "webhook" => Webhook!TypeOK /\ Webhook!EnabledMeansApproved

(* ShapResults: what the task caches and announces is stored, and every     *)
(* explanation adds up to the risk that was scored.                         *)
WorkerTellsOfItsOwn ==
  part = "shap" => Shap!TypeOK /\ Shap!WorkerTellsOfItsOwn /\ Shap!ExplanationsAddUp

(* Sessions: a disabled principal loses its tokens and tickets in time.     *)
DisabledLosesAccess ==
  part = "sessions" => Session!TypeOK /\ Session!DisabledLosesAccess

(* AsyncScore: a decision comes with COMPLETED, and only with it.           *)
DecisionIffCompleted ==
  part = "async" => Async!TypeOK /\ Async!DecisionIffCompleted

(* RowSecurity: a statement sees its own tenant's rows.                     *)
OwnRowsOnly == part = "rows" => Rows!TypeOK /\ Rows!OwnRowsOnly

(* Tenancy: middleware and dependencies agree with the credential.          *)
HandledIffEntitled ==
  part = "tenancy" => Tenancy!TypeOK /\ Tenancy!HandledIffEntitled

(* RuleEvaluation: the strictest applicable rule decides, and a wider       *)
(* canary never weakens a verdict.                                          *)
VerdictIsStrictest ==
  part = "rules" =>
    Evaluation!TypeOK /\ Evaluation!VerdictIsStrictest /\ Evaluation!WideningNeverWeakens

(* RuleLanguage: the parser is the grammar, with its meaning, and absent    *)
(* fields never make a rule hit.                                            *)
ParserIsGrammar ==
  part = "language" =>
    Language!TypeOK /\ Language!ParserIsGrammar /\ Language!AbsentFieldsMiss
=============================================================================
