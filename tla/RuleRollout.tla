---------------------------- MODULE RuleRollout ----------------------------
(***************************************************************************)
(* One rule of one tenant: its versions in PostgreSQL, the API handlers     *)
(* that draft, promote, roll back and delete them, and the compiled rules   *)
(* each API process caches, dropped after a TTL or by a Redis pubsub        *)
(* broadcast that a process may miss.                                       *)
(*                                                                          *)
(* A handler reads the rule and its latest version, decides on what it read *)
(* and commits; between the two, other handlers commit.  Versions are in    *)
(* the order of their commits (created_at may swap two overlapping drafts). *)
(***************************************************************************)
EXTENDS Naturals, Sequences, FiniteSets

CONSTANTS Handlers,    (* write requests in flight at once                   *)
          Processes,   (* the API processes whose evaluations are modelled   *)
          ProcessOf,   (* the process of a handler, one of these or not      *)
          MaxVersions, (* bound of the model: versions of the rule           *)
          MaxOverlaps, (* bound: no request begins after so many overlaps    *)
          Nothing      (* an empty cache, no load in flight, an idle handler *)

ASSUME RuleAssumption ==
  /\ DOMAIN ProcessOf = Handlers
  /\ MaxVersions \in Nat \ {0}
  /\ MaxOverlaps \in Nat \ {0}

VARIABLES
  versions,   (* rule_versions in the order of created_at                    *)
  current,    (* rules.current_version; 0 once the rule is deleted           *)
  handler,    (* what an API handler has read                                *)
  cache,      (* each process: _compiled_cache, or a load that has read      *)
  inbox,      (* a process has a reload message to handle                    *)
  missed,     (* history: a change that will not invalidate the process      *)
  overlaps,   (* history: commits of handlers over what they had not seen    *)
  rolledBack  (* history: a rollback has committed                           *)

vars == <<versions, current, handler, cache, inbox, missed, overlaps, rolledBack>>
engine == <<cache, inbox, missed>>

Statuses == {"DRAFT", "CANARY", "ACTIVE", "RETIRED"}
(* no is the number in "v{no}"; edited, whether the expression was replaced *)
(* after the version left DRAFT.                                            *)
Version == [no : 1..MaxVersions, status : Statuses, edited : BOOLEAN]
Draft(n) == [no |-> n, status |-> "DRAFT", edited |-> FALSE]

(* What evaluate runs: the position of the latest ACTIVE version, if any,   *)
(* and that of the latest CANARY version.                                   *)
Rules == [ACTIVE : SUBSET (1..MaxVersions), CANARY : SUBSET (1..MaxVersions)]
Engine == [stage : {"loading", "cached"}, rules : Rules]

(* A handler that has read stands at "loaded", dirty if another one has     *)
(* committed since; one that committed a change it announces, at "reload".  *)
Handler == [stage : {"loaded"}, latest : 1..MaxVersions, status : Statuses,
            current : 1..MaxVersions, dirty : BOOLEAN]
           \cup [stage : {"reload"}]

ASSUME NothingAssumption == Nothing \notin Handler \cup Engine

TypeOK ==
  /\ versions \in Seq(Version) /\ Len(versions) <= MaxVersions
  /\ current \in 0..MaxVersions
  /\ (current = 0) <=> (versions = <<>>)
  /\ handler \in [Handlers -> Handler \cup {Nothing}]
  /\ cache \in [Processes -> Engine \cup {Nothing}]
  /\ inbox \in [Processes -> BOOLEAN]
  /\ missed \in [Processes -> BOOLEAN]
  /\ overlaps \in Nat
  /\ rolledBack \in BOOLEAN

(* create_rule: version v1, a draft.                                        *)
Init ==
  /\ versions = <<Draft(1)>>
  /\ current = 1
  /\ handler = [h \in Handlers |-> Nothing]
  /\ cache = [p \in Processes |-> Nothing]
  /\ inbox = [p \in Processes |-> FALSE]
  /\ missed = [p \in Processes |-> FALSE]
  /\ overlaps = 0
  /\ rolledBack = FALSE

WithStatus(status) == {i \in 1..Len(versions) : versions[i].status = status}
LatestOf(positions) == {i \in positions : \A j \in positions : j <= i}

(* _load_rules_from_store                                                   *)
Effective == [ACTIVE |-> LatestOf(WithStatus("ACTIVE")),
              CANARY |-> LatestOf(WithStatus("CANARY"))]

-----------------------------------------------------------------------------
(* A handler's SELECTs: _load_rule and _latest_version.                     *)
Load(h) ==
  /\ handler[h] = Nothing
  /\ overlaps < MaxOverlaps
  /\ current # 0
  /\ handler' = [handler EXCEPT ![h] =
        [stage |-> "loaded", latest |-> Len(versions),
         status |-> versions[Len(versions)].status, current |-> current,
         dirty |-> FALSE]]
  /\ UNCHANGED <<versions, current, engine, overlaps, rolledBack>>

Loaded(h) == handler[h] # Nothing /\ handler[h].stage = "loaded"

(* The handler's commit, after which it ends or announces the change.  A    *)
(* handler whose rows are gone updates none of them and fails.              *)
Commit(h, next) ==
  /\ current # 0
  /\ Loaded(h)
  /\ handler' = [g \in Handlers |->
        IF g = h THEN next
        ELSE IF Loaded(g) THEN [handler[g] EXCEPT !.dirty = TRUE]
        ELSE handler[g]]
  /\ overlaps' = overlaps + (IF handler[h].dirty THEN 1 ELSE 0)

Reloading == [stage |-> "reload"]

(* The request is refused or a statement raises.                            *)
Fail(h) ==
  /\ Loaded(h)
  /\ handler' = [handler EXCEPT ![h] = Nothing]
  /\ UNCHANGED <<versions, current, engine, overlaps, rolledBack>>

Replaced(i) == [versions EXCEPT ![i].edited = @ \/ versions[i].status # "DRAFT"]

(* PUT with a new expression, for the version that was latest and a draft.  *)
UpdateRule(h) ==
  /\ Commit(h, Reloading)
  /\ handler[h].status = "DRAFT"
  /\ versions' = Replaced(handler[h].latest)
  /\ UNCHANGED <<current, engine, rolledBack>>

(* DELETE: the rule and all its versions, also the live ones behind a new   *)
(* draft; no reload.                                                        *)
DeleteRule(h) ==
  /\ Commit(h, Nothing)
  /\ handler[h].status = "DRAFT"
  /\ versions' = <<>>
  /\ current' = 0
  /\ missed' = [p \in Processes |-> cache[p] # Nothing]
  /\ UNCHANGED <<cache, inbox, rolledBack>>

(* ix_rule_versions_rule_id_version is unique: flushing a second one raises. *)
NumberTaken(n) == \E i \in 1..Len(versions) : versions[i].no = n

(* A new draft, numbered after the current_version that was read.           *)
CreateVersion(h) ==
  /\ Commit(h, Nothing)
  /\ Len(versions) < MaxVersions
  /\ ~NumberTaken(handler[h].current + 1)
  /\ versions' = Append(versions, Draft(handler[h].current + 1))
  /\ current' = handler[h].current + 1
  /\ UNCHANGED <<engine, rolledBack>>

PromoteToCanary(h) ==
  /\ Commit(h, Reloading)
  /\ handler[h].status = "DRAFT"
  /\ versions' = [versions EXCEPT ![handler[h].latest].status = "CANARY"]
  /\ UNCHANGED <<current, engine, rolledBack>>

PromoteBesideActive(h) ==
  /\ Commit(h, Reloading)
  /\ handler[h].status = "CANARY"
  /\ versions' = [versions EXCEPT ![handler[h].latest].status = "ACTIVE"]
  /\ UNCHANGED <<current, engine, rolledBack>>

(* Every other ACTIVE version is retired by an UPDATE of its own.           *)
PromoteToActive(h) ==
  /\ Commit(h, Reloading)
  /\ handler[h].status = "CANARY"
  /\ versions' = [i \in 1..Len(versions) |->
        [versions[i] EXCEPT !.status =
           IF i = handler[h].latest THEN "ACTIVE"
           ELSE IF versions[i].status = "ACTIVE" THEN "RETIRED"
           ELSE versions[i].status]]
  /\ UNCHANGED <<current, engine, rolledBack>>

(* The target: any version by its number, or by default the latest retired. *)
Targets == 1..Len(versions)

(* Rolling back to the version one rolls back from leaves its row alone.    *)
Rollback(h) ==
  /\ Commit(h, Reloading)
  /\ handler[h].status = "ACTIVE"
  /\ \E target \in Targets :
       /\ versions' = IF target = handler[h].latest THEN versions
                      ELSE [versions EXCEPT ![handler[h].latest].status = "RETIRED",
                                            ![target].status = "ACTIVE"]
       /\ current' = versions[target].no
  /\ rolledBack' = TRUE
  /\ UNCHANGED engine

-----------------------------------------------------------------------------
(* Dropping a cache does not touch a load that has already read: its old    *)
(* result will be cached.                                                   *)
Loading(p) == cache[p] # Nothing /\ cache[p].stage = "loading"
Cached(p) == cache[p] # Nothing /\ cache[p].stage = "cached"
Dropped(p) == IF Loading(p) THEN cache[p] ELSE Nothing

HotReloadElsewhere(h) ==
  /\ handler[h] = Reloading
  /\ handler' = [handler EXCEPT ![h] = Nothing]
  /\ \E lost \in SUBSET (Processes \ {ProcessOf[h]}) :
       /\ inbox' = [p \in Processes |->
            inbox[p] \/ p \notin lost \cup {ProcessOf[h]}]
       /\ missed' = [p \in Processes |->
            missed[p] \/ (p \in lost /\ cache[p] # Nothing)]
  /\ UNCHANGED <<versions, current, cache, overlaps, rolledBack>>

(* hot_reload: the own cache at once, the others by a message that those    *)
(* not connected to the channel never get (none does if publishing fails).  *)
HotReload(h) ==
  LET self == ProcessOf[h] IN
  /\ handler[h] = Reloading
  /\ handler' = [handler EXCEPT ![h] = Nothing]
  /\ cache' = [p \in Processes |-> IF p = self THEN Dropped(p) ELSE cache[p]]
  /\ \E lost \in SUBSET (Processes \ {self}) :
       /\ inbox' = [p \in Processes |-> inbox[p] \/ p \notin lost \cup {self}]
       /\ missed' = [p \in Processes |->
            IF p = self THEN Loading(p)
            ELSE missed[p] \/ (p \in lost /\ cache[p] # Nothing)]
  /\ UNCHANGED <<versions, current, overlaps, rolledBack>>

(* The process dies after the commit, or the RESET that follows it raises:  *)
(* nobody is told.                                                          *)
AnnounceFails(h) ==
  /\ handler[h] = Reloading
  /\ handler' = [handler EXCEPT ![h] = Nothing]
  /\ missed' = [p \in Processes |-> missed[p] \/ cache[p] # Nothing]
  /\ UNCHANGED <<versions, current, cache, inbox, overlaps, rolledBack>>

(* listen_reload                                                            *)
HandleReload(p) ==
  /\ inbox[p]
  /\ inbox' = [inbox EXCEPT ![p] = FALSE]
  /\ cache' = [cache EXCEPT ![p] = Dropped(p)]
  /\ missed' = [missed EXCEPT ![p] = Loading(p)]
  /\ UNCHANGED <<versions, current, handler, overlaps, rolledBack>>

(* _load_compiled of an evaluation that finds no cache: it reads the rules, *)
(* then caches what it has read.  (Of several such evaluations at once, the *)
(* one whose result is cached last is the one that is modelled.)            *)
StartLoad(p) ==
  /\ cache[p] = Nothing
  /\ cache' = [cache EXCEPT ![p] = [stage |-> "loading", rules |-> Effective]]
  /\ UNCHANGED <<versions, current, handler, inbox, missed, overlaps, rolledBack>>

FinishLoad(p) ==
  /\ Loading(p)
  /\ cache' = [cache EXCEPT ![p].stage = "cached"]
  /\ UNCHANGED <<versions, current, handler, inbox, missed, overlaps, rolledBack>>

(* The SELECT raises: the evaluation answers REVIEW and caches nothing.      *)
LoadFails(p) ==
  /\ Loading(p)
  /\ cache' = [cache EXCEPT ![p] = Nothing]
  /\ missed' = [missed EXCEPT ![p] = FALSE]
  /\ UNCHANGED <<versions, current, handler, inbox, overlaps, rolledBack>>

ExpireByMessage(p) ==
  /\ Cached(p) /\ inbox[p]
  /\ cache' = [cache EXCEPT ![p] = Nothing]
  /\ missed' = [missed EXCEPT ![p] = FALSE]
  /\ UNCHANGED <<versions, current, handler, inbox, overlaps, rolledBack>>

(* _RULES_CACHE_TTL is over.                                                *)
Expire(p) ==
  /\ Cached(p)
  /\ cache' = [cache EXCEPT ![p] = Nothing]
  /\ missed' = [missed EXCEPT ![p] = FALSE]
  /\ UNCHANGED <<versions, current, handler, inbox, overlaps, rolledBack>>

Write(h) ==
  \/ Load(h) \/ Fail(h)
  \/ UpdateRule(h) \/ DeleteRule(h) \/ CreateVersion(h)
  \/ PromoteToCanary(h) \/ PromoteToActive(h) \/ Rollback(h)

Next ==
  \/ \E h \in Handlers : Write(h) \/ HotReload(h) \/ AnnounceFails(h)
  \/ \E p \in Processes :
       HandleReload(p) \/ StartLoad(p) \/ FinishLoad(p) \/ LoadFails(p) \/ Expire(p)

Spec == Init /\ [][Next]_vars

(* Caches age, and what has begun goes on; nobody has to send a write.      *)
FairSpec ==
  /\ Spec
  /\ \A h \in Handlers : WF_vars(HotReload(h))
  /\ \A p \in Processes :
       WF_vars(HandleReload(p)) /\ WF_vars(FinishLoad(p)) /\ WF_vars(Expire(p))

-----------------------------------------------------------------------------
(* Promotions and rollbacks in any order keep at most one version ACTIVE,   *)
(* and each commit over what its handler has not seen adds at most one      *)
(* (promote_rule, rollback_rule).                                           *)
ActiveWithinOverlaps ==
  Cardinality(WithStatus("ACTIVE")) <= 1 + overlaps

(* However drafts and rollbacks overlap, versions are numbered 1, 2, 3, ... *)
(* in the order of their creation, and until a rollback current_version is  *)
(* the newest of them.                                                      *)
NumbersIncrease ==
  /\ \A i \in 1..Len(versions) : versions[i].no = i
  /\ ~rolledBack /\ current # 0 => current = Len(versions)

(* A cache that differs from the database is about to be dropped, unless    *)
(* its process lost a message, read the rules before the commit, or nobody  *)
(* announced it (a deletion, a failure): then only the TTL ends it.         *)
Stale(p) == Cached(p) /\ cache[p].rules # Effective
StaleOnlyIfMissed ==
  \A p \in Processes : Stale(p) =>
    \/ inbox[p]
    \/ \E h \in Handlers : handler[h] = Reloading
    \/ missed[p]

(* Without overlap, the expression of a version is final once it has left   *)
(* DRAFT: what was approved is what runs.                                   *)
PublishedIsFinal ==
  overlaps = 0 => \A i \in 1..Len(versions) : ~versions[i].edited

(* Whatever was missed, every process in the end runs the database's rules: *)
(* a stale cache does not outlive its TTL (the rule changes finitely often, *)
(* MaxVersions being bounded).                                              *)
EventuallyFresh == <>[](\A p \in Processes : ~Stale(p))
=============================================================================
