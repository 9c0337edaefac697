------------------------- MODULE RuleRollout_proofs -------------------------
(***************************************************************************)
(* For any number of handlers, processes and versions: what the rule        *)
(* handlers guarantee and what commits that overlap can do to it, and that  *)
(* a stale rule cache has a known reason.                                   *)
(***************************************************************************)
EXTENDS RuleRollout, TLAPS, SequenceTheorems, FiniteSetTheorems

(* What a handler has read is still there, except in a deleted rule.        *)
BoundInv ==
  current # 0 =>
    /\ current <= Len(versions)
    /\ \A i \in 1..Len(versions) : versions[i].no <= i
    /\ \A h \in Handlers : Loaded(h) =>
         handler[h].latest <= Len(versions) /\ handler[h].current <= Len(versions)

(* What a handler has read is exact until another one commits.              *)
FreshInv ==
  \A h \in Handlers : Loaded(h) /\ ~handler[h].dirty =>
    /\ handler[h].latest = Len(versions)
    /\ handler[h].status = versions[Len(versions)].status
    /\ handler[h].current = current

Active == WithStatus("ACTIVE")
ActiveInv == Cardinality(Active) <= 1 + overlaps

NumberInv ==
  /\ \A i \in 1..Len(versions) : versions[i].no = i
  /\ ~rolledBack /\ current # 0 => current = Len(versions)

(* Rules that are cached or about to be cached, not those of the database.  *)
StaleInv ==
  \A p \in Processes : cache[p] # Nothing /\ cache[p].rules # Effective =>
    \/ inbox[p]
    \/ \E h \in Handlers : handler[h] = Reloading
    \/ missed[p]

FrameInv == TypeOK /\ BoundInv /\ FreshInv /\ StaleInv

IInv == FrameInv /\ ActiveInv /\ NumberInv /\ PublishedIsFinal

-----------------------------------------------------------------------------
LEMMA EffectiveType == TypeOK => Effective \in Rules
<1> SUFFICES ASSUME TypeOK PROVE Effective \in Rules
  OBVIOUS
<1>1. 1..Len(versions) \subseteq 1..MaxVersions
  BY RuleAssumption, LenProperties DEF TypeOK
<1>2. ASSUME NEW status PROVE LatestOf(WithStatus(status)) \subseteq 1..MaxVersions
  BY <1>1 DEF LatestOf, WithStatus
<1> QED
  BY <1>2 DEF Effective, Rules

LEMMA LoadedType ==
  ASSUME TypeOK, NEW h \in Handlers, Loaded(h)
  PROVE  /\ handler[h] \in Handler
         /\ handler[h].latest \in 1..MaxVersions
         /\ handler[h].status \in Statuses
         /\ handler[h].current \in 1..MaxVersions
         /\ handler[h].dirty \in BOOLEAN
  BY DEF TypeOK, Loaded, Handler

(* Where a commit leaves the handlers: all that had read are dirty.         *)
LEMMA CommitHandlers ==
  ASSUME TypeOK, NEW h \in Handlers, NEW next \in {Nothing, Reloading}, Commit(h, next)
  PROVE  /\ handler' \in [Handlers -> Handler \cup {Nothing}]
         /\ handler'[h] = next
         /\ \A g \in Handlers : Loaded(g)' =>
              /\ Loaded(g)
              /\ handler'[g].dirty
              /\ handler'[g].latest = handler[g].latest
              /\ handler'[g].current = handler[g].current
         /\ \A g \in Handlers : handler[g] = Reloading => handler'[g] = Reloading
         /\ overlaps' \in Nat /\ overlaps <= overlaps'
         /\ overlaps' = 0 => overlaps = 0 /\ ~handler[h].dirty
         /\ handler[h].dirty => overlaps' = overlaps + 1
<1>1. ASSUME NEW g \in Handlers, g # h, Loaded(g)
      PROVE  [handler[g] EXCEPT !.dirty = TRUE] \in Handler
  BY <1>1, LoadedType DEF Loaded, Handler, TypeOK
<1>2. \A g \in Handlers :
        handler'[g] = IF g = h THEN next
                      ELSE IF Loaded(g) THEN [handler[g] EXCEPT !.dirty = TRUE]
                      ELSE handler[g]
  BY DEF Commit
<1>3. next \in Handler \cup {Nothing} /\ (next # Nothing => next.stage = "reload")
  BY DEF Reloading, Handler
<1>4. handler' \in [Handlers -> Handler \cup {Nothing}]
  BY <1>1, <1>2, <1>3 DEF Commit, TypeOK
<1>5. ~Loaded(h)'
  BY <1>2, <1>3 DEF Loaded
<1>6. ASSUME NEW g \in Handlers, Loaded(g)'
      PROVE  /\ Loaded(g)
             /\ handler'[g].dirty
             /\ handler'[g].latest = handler[g].latest
             /\ handler'[g].current = handler[g].current
  <2>1. g # h
    BY <1>5, <1>6
  <2>2. Loaded(g)
    BY <1>2, <1>6, <2>1 DEF Loaded
  <2> QED
    BY <1>2, <2>1, <2>2, LoadedType DEF Handler, Loaded
<1>7. ASSUME NEW g \in Handlers, handler[g] = Reloading
      PROVE  handler'[g] = Reloading
  <2>1. ~Loaded(g)
    BY <1>7 DEF Loaded, Reloading
  <2> QED
    BY <1>2, <1>7, <2>1 DEF Commit
<1>8. /\ overlaps' \in Nat /\ overlaps <= overlaps'
      /\ overlaps' = 0 => overlaps = 0 /\ ~handler[h].dirty
      /\ handler[h].dirty => overlaps' = overlaps + 1
  BY DEF Commit, TypeOK
<1> QED
  BY <1>2, <1>4, <1>6, <1>7, <1>8

-----------------------------------------------------------------------------
(* The frame: what every commit leaves true that keeps the versions' numbers *)
(* in bounds and announces its change or makes none that evaluations see.    *)
LEMMA CommitFrame ==
  ASSUME FrameInv, NEW h \in Handlers, NEW next \in {Nothing, Reloading}, Commit(h, next),
         versions' \in Seq(Version), Len(versions') <= MaxVersions,
         Len(versions) <= Len(versions'),
         \A i \in 1..Len(versions') : versions'[i].no <= i,
         current' \in 1..Len(versions'), rolledBack' \in BOOLEAN, UNCHANGED engine,
         next = Reloading \/ Effective' = Effective
  PROVE  FrameInv'
<1>1. TypeOK'
  <2>1. current' \in 0..MaxVersions /\ current' # 0 /\ versions' # <<>>
    BY LenProperties, RuleAssumption
  <2> QED
    BY <2>1, CommitHandlers DEF FrameInv, TypeOK, engine
<1>2. BoundInv'
  <2>1. ASSUME NEW g \in Handlers, Loaded(g)'
        PROVE  (handler'[g].latest <= Len(versions') /\ handler'[g].current <= Len(versions'))
    <3>1. /\ Loaded(g)
          /\ handler'[g].latest = handler[g].latest
          /\ handler'[g].current = handler[g].current
      BY <2>1, CommitHandlers DEF FrameInv
    <3>2. handler[g].latest <= Len(versions) /\ handler[g].current <= Len(versions)
      BY <3>1 DEF FrameInv, BoundInv, Commit
    <3>3. Len(versions) \in Nat /\ Len(versions') \in Nat
      BY LenProperties DEF FrameInv, TypeOK
    <3>4. handler[g].latest \in Nat /\ handler[g].current \in Nat
      BY <3>1, LoadedType DEF FrameInv
    <3> QED
      BY <3>1, <3>2, <3>3, <3>4
  <2> QED
    BY <2>1 DEF BoundInv
<1>3. FreshInv'
  BY CommitHandlers DEF FrameInv, FreshInv
<1>4. StaleInv'
  <2>1. CASE next = Reloading
    BY <2>1, CommitHandlers DEF FrameInv, StaleInv
  <2>2. CASE Effective' = Effective
    BY <2>2, CommitHandlers DEF FrameInv, StaleInv, engine
  <2> QED
    BY <2>1, <2>2
<1> QED
  BY <1>1, <1>2, <1>3, <1>4 DEF FrameInv

(* The committing handler's version exists, and is exactly as it was read    *)
(* if the commit overlaps no other.                                          *)
LEMMA CommitSeen ==
  ASSUME FrameInv, NEW h \in Handlers, NEW next \in {Nothing, Reloading}, Commit(h, next),
         overlaps' # overlaps + 1
  PROVE  handler[h].latest = Len(versions) /\ handler[h].status = versions[Len(versions)].status
  BY CommitHandlers DEF FrameInv, FreshInv, Commit

LEMMA CommitLatest ==
  ASSUME FrameInv, NEW h \in Handlers, NEW next \in {Nothing, Reloading}, Commit(h, next)
  PROVE  /\ Loaded(h)
         /\ Len(versions) \in 1..MaxVersions
         /\ versions \in [1..Len(versions) -> Version]
         /\ handler[h].latest \in 1..Len(versions)
         /\ handler[h].current \in 1..Len(versions)
         /\ current \in 1..Len(versions)
         /\ \A i \in 1..Len(versions) :
              versions[i].no \in 1..MaxVersions /\ versions[i].no <= i
         /\ overlaps' = 0 =>
              /\ overlaps = 0
              /\ handler[h].latest = Len(versions)
              /\ handler[h].status = versions[Len(versions)].status
              /\ handler[h].current = current
<1>1. Loaded(h) /\ current # 0
  BY DEF Commit
<1>2. versions \in [1..Len(versions) -> Version] /\ Len(versions) \in Nat
  BY LenProperties DEF FrameInv, TypeOK
<1>3. current \in Nat /\ current <= Len(versions) /\ Len(versions) <= MaxVersions
  BY <1>1, RuleAssumption DEF FrameInv, TypeOK, BoundInv
<1>4. /\ handler[h].latest \in 1..MaxVersions /\ handler[h].latest <= Len(versions)
      /\ handler[h].current \in 1..MaxVersions /\ handler[h].current <= Len(versions)
  BY <1>1, LoadedType DEF FrameInv, BoundInv
<1>5. \A i \in 1..Len(versions) :
        versions[i].no \in 1..MaxVersions /\ versions[i].no <= i
  BY <1>1, <1>2 DEF FrameInv, BoundInv, Version
<1>6. ASSUME overlaps' = 0
      PROVE  /\ overlaps = 0
             /\ handler[h].latest = Len(versions)
             /\ handler[h].status = versions[Len(versions)].status
             /\ handler[h].current = current
  BY <1>1, <1>6, CommitHandlers DEF FrameInv, FreshInv
<1> QED
  BY <1>1, <1>2, <1>3, <1>4, <1>5, <1>6, RuleAssumption

-----------------------------------------------------------------------------
LEMMA ActiveFinite ==
  TypeOK => IsFiniteSet(Active) /\ Cardinality(Active) \in Nat /\ overlaps \in Nat
<1> SUFFICES ASSUME TypeOK
             PROVE  IsFiniteSet(Active) /\ Cardinality(Active) \in Nat /\ overlaps \in Nat
  OBVIOUS
<1>1. IsFiniteSet(1..Len(versions))
  BY LenProperties, FS_Interval DEF TypeOK
<1>2. Active \subseteq 1..Len(versions)
  BY DEF Active, WithStatus
<1> QED
  BY <1>1, <1>2, FS_Subset, FS_CardinalityType DEF TypeOK

LEMMA NoMoreActive ==
  ASSUME TypeOK, ActiveInv, Active' \subseteq Active,
         overlaps' \in Nat, overlaps <= overlaps'
  PROVE  ActiveInv'
<1>1. IsFiniteSet(Active) /\ Cardinality(Active) \in Nat /\ overlaps \in Nat
  BY ActiveFinite
<1>2. Cardinality(Active') \in Nat /\ Cardinality(Active') <= Cardinality(Active)
  BY <1>1, FS_Subset, FS_CardinalityType
<1>3. Cardinality(Active) <= 1 + overlaps
  BY DEF ActiveInv
<1>4. Cardinality(Active') <= 1 + overlaps'
  BY <1>1, <1>2, <1>3
<1> QED
  BY <1>4 DEF ActiveInv

(* One version in place of one that was ACTIVE, or one more.                *)
LEMMA OneMoreActive ==
  ASSUME TypeOK, ActiveInv, NEW target, NEW l,
         Active' \subseteq (Active \ {l}) \cup {target},
         overlaps' \in Nat, overlaps <= overlaps', overlaps' = overlaps + 1 \/ l \in Active
  PROVE  ActiveInv'
<1> DEFINE rest == Active \ {l}
           all == rest \cup {target}
<1>1. IsFiniteSet(Active) /\ Cardinality(Active) \in Nat /\ overlaps \in Nat
  BY ActiveFinite
<1>2. /\ IsFiniteSet(rest) /\ Cardinality(rest) \in Nat
      /\ Cardinality(rest) = IF l \in Active THEN Cardinality(Active) - 1
                                             ELSE Cardinality(Active)
  BY <1>1, FS_RemoveElement, FS_CardinalityType
<1> HIDE DEF rest
<1>3. /\ IsFiniteSet(all) /\ Cardinality(all) \in Nat
      /\ Cardinality(all) <= Cardinality(rest) + 1
  <2>1. /\ IsFiniteSet(all)
        /\ Cardinality(all) = IF target \in rest THEN Cardinality(rest) ELSE Cardinality(rest) + 1
    BY <1>2, FS_AddElement
  <2> HIDE DEF all
  <2> QED
    BY <1>2, <2>1
<1>4. Cardinality(Active') \in Nat /\ Cardinality(Active') <= Cardinality(all)
  BY <1>3, FS_Subset, FS_CardinalityType DEF rest
<1> HIDE DEF all
<1>5. Cardinality(Active) <= 1 + overlaps
  BY DEF ActiveInv
<1>6. Cardinality(Active') <= 1 + overlaps'
  BY <1>1, <1>2, <1>3, <1>4, <1>5
<1> QED
  BY <1>6 DEF ActiveInv

-----------------------------------------------------------------------------
(* What each handler's commit does to the versions, field by field.          *)
Rewritten ==
  /\ versions' \in Seq(Version)
  /\ Len(versions') = Len(versions)
  /\ \A i \in 1..Len(versions) : versions'[i].no = versions[i].no

LEMMA RewrittenFrame ==
  ASSUME FrameInv, NEW h \in Handlers, Commit(h, Reloading), Rewritten,
         current' \in 1..Len(versions), rolledBack' \in BOOLEAN, UNCHANGED engine
  PROVE  FrameInv'
<1>1. \A i \in 1..Len(versions') : versions'[i].no <= i
  BY CommitLatest DEF Rewritten
<1>2. Len(versions) <= Len(versions') /\ Len(versions') <= MaxVersions
  BY CommitLatest, RuleAssumption DEF Rewritten
<1> QED
  BY <1>1, <1>2, CommitFrame DEF Rewritten

LEMMA UpdateRuleEffect ==
  ASSUME FrameInv, NEW h \in Handlers, UpdateRule(h)
  PROVE  /\ Rewritten
         /\ \A i \in 1..Len(versions) :
              /\ versions'[i].status = versions[i].status
              /\ versions'[i].edited =>
                   \/ versions[i].edited
                   \/ i = handler[h].latest /\ versions[i].status # "DRAFT"
<1> DEFINE l == handler[h].latest
           v == [versions[l] EXCEPT !.edited = versions[l].edited \/ versions[l].status # "DRAFT"]
<1>1. l \in 1..Len(versions) /\ versions[l] \in Version /\ versions \in Seq(Version)
  BY CommitLatest DEF UpdateRule, FrameInv, TypeOK
<1>2. /\ v \in Version /\ v.no = versions[l].no /\ v.status = versions[l].status
      /\ v.edited => versions[l].edited \/ versions[l].status # "DRAFT"
  BY <1>1 DEF Version
<1>3. versions' = [versions EXCEPT ![l] = v]
  BY DEF UpdateRule, Replaced
<1> HIDE DEF l, v
<1>4. /\ versions' \in Seq(Version) /\ Len(versions') = Len(versions)
      /\ \A j \in 1..Len(versions) : versions'[j] = IF j = l THEN v ELSE versions[j]
  BY <1>1, <1>2, <1>3, ExceptSeq
<1> QED
  BY <1>2, <1>4 DEF Rewritten, l

LEMMA PromoteToCanaryEffect ==
  ASSUME FrameInv, NEW h \in Handlers, PromoteToCanary(h)
  PROVE  /\ Rewritten
         /\ \A i \in 1..Len(versions) :
              /\ versions'[i].status = "ACTIVE" => versions[i].status = "ACTIVE"
              /\ versions'[i].edited = versions[i].edited
<1> DEFINE l == handler[h].latest
           v == [versions[l] EXCEPT !.status = "CANARY"]
<1>1. l \in 1..Len(versions) /\ versions[l] \in Version /\ versions \in Seq(Version)
  BY CommitLatest DEF PromoteToCanary, FrameInv, TypeOK
<1>2. /\ v \in Version /\ v.no = versions[l].no /\ v.status = "CANARY"
      /\ v.edited = versions[l].edited
  BY <1>1 DEF Version, Statuses
<1>3. versions' = [versions EXCEPT ![l] = v]
  BY DEF PromoteToCanary
<1> HIDE DEF l, v
<1>4. /\ versions' \in Seq(Version) /\ Len(versions') = Len(versions)
      /\ \A j \in 1..Len(versions) : versions'[j] = IF j = l THEN v ELSE versions[j]
  BY <1>1, <1>2, <1>3, ExceptSeq
<1> QED
  BY <1>2, <1>4 DEF Rewritten

LEMMA PromoteToActiveEffect ==
  ASSUME FrameInv, NEW h \in Handlers, PromoteToActive(h)
  PROVE  /\ Rewritten
         /\ \A i \in 1..Len(versions) :
              /\ versions'[i].status = "ACTIVE" => i = handler[h].latest
              /\ versions'[i].edited = versions[i].edited
<1> DEFINE st(i) == IF i = handler[h].latest THEN "ACTIVE"
                    ELSE IF versions[i].status = "ACTIVE" THEN "RETIRED"
                    ELSE versions[i].status
<1>1. Len(versions) \in Nat /\ versions \in [1..Len(versions) -> Version]
  BY CommitLatest, RuleAssumption DEF PromoteToActive
<1>2. versions' = [i \in 1..Len(versions) |-> [versions[i] EXCEPT !.status = st(i)]]
  BY DEF PromoteToActive
<1>3. ASSUME NEW i \in 1..Len(versions)
      PROVE  /\ st(i) \in Statuses
             /\ st(i) = "ACTIVE" => i = handler[h].latest
  BY <1>1 DEF Version, Statuses
<1> HIDE DEF st
<1>4. ASSUME NEW i \in 1..Len(versions)
      PROVE  /\ versions'[i] \in Version
             /\ versions'[i].no = versions[i].no
             /\ versions'[i].status = st(i)
             /\ versions'[i].edited = versions[i].edited
  BY <1>1, <1>2, <1>3 DEF Version
<1>5. versions' \in [1..Len(versions) -> Version]
  BY <1>2, <1>4
<1>6. versions' \in Seq(Version) /\ Len(versions') = Len(versions)
  BY <1>1, <1>5
<1> QED
  BY <1>3, <1>4, <1>6 DEF Rewritten

LEMMA RollbackEffect ==
  ASSUME FrameInv, NEW h \in Handlers, Rollback(h)
  PROVE  \E target \in 1..Len(versions) :
           /\ Rewritten
           /\ current' = versions[target].no
           /\ \A i \in 1..Len(versions) :
                /\ versions'[i].status = "ACTIVE" =>
                     \/ i = target
                     \/ i # handler[h].latest /\ versions[i].status = "ACTIVE"
                /\ versions'[i].edited = versions[i].edited
<1> DEFINE l == handler[h].latest
           r == [versions[l] EXCEPT !.status = "RETIRED"]
<1>1. l \in 1..Len(versions) /\ versions \in Seq(Version)
      /\ versions \in [1..Len(versions) -> Version]
  BY CommitLatest DEF Rollback, FrameInv, TypeOK
<1>2. PICK target \in 1..Len(versions) :
        /\ versions' = IF target = l THEN versions
                       ELSE [versions EXCEPT ![l].status = "RETIRED",
                                             ![target].status = "ACTIVE"]
        /\ current' = versions[target].no
  BY DEF Rollback, Targets
<1>3. CASE target = l
  <2>1. versions' = versions
    BY <1>2, <1>3
  <2> QED
    BY <1>1, <1>2, <1>3, <2>1 DEF Rewritten
<1>4. CASE target # l
  <2> DEFINE w == [versions EXCEPT ![l] = r]
             a == [versions[target] EXCEPT !.status = "ACTIVE"]
  <2>1. r \in Version /\ r.no = versions[l].no /\ r.status = "RETIRED"
        /\ r.edited = versions[l].edited
    BY <1>1 DEF Version, Statuses
  <2>2. a \in Version /\ a.no = versions[target].no /\ a.edited = versions[target].edited
    BY <1>1, <1>2 DEF Version, Statuses
  <2>3. w[target] = versions[target]
    BY <1>1, <1>2, <1>4
  <2>4. versions' = [w EXCEPT ![target] = a]
    BY <1>2, <1>4, <2>3
  <2> HIDE DEF r, l, a
  <2>5. /\ w \in Seq(Version) /\ Len(w) = Len(versions)
        /\ \A j \in 1..Len(versions) : w[j] = IF j = l THEN r ELSE versions[j]
    BY <1>1, <2>1, ExceptSeq
  <2> HIDE DEF w
  <2>6. /\ versions' \in Seq(Version) /\ Len(versions') = Len(w)
        /\ \A j \in 1..Len(w) : versions'[j] = IF j = target THEN a ELSE w[j]
    BY <2>2, <2>4, <2>5, ExceptSeq
  <2>7. \A j \in 1..Len(versions) :
          versions'[j] = IF j = target THEN a ELSE IF j = l THEN r ELSE versions[j]
    BY <2>5, <2>6
  <2>8. Rewritten
    BY <2>1, <2>2, <2>5, <2>6, <2>7 DEF Rewritten
  <2>9. ASSUME NEW i \in 1..Len(versions)
        PROVE  /\ versions'[i].status = "ACTIVE" =>
                     i = target \/ (i # l /\ versions[i].status = "ACTIVE")
               /\ versions'[i].edited = versions[i].edited
    BY <2>1, <2>2, <2>7
  <2> QED
    BY <1>2, <2>8, <2>9 DEF l
<1> QED
  BY <1>3, <1>4

LEMMA CreateVersionEffect ==
  ASSUME FrameInv, NEW h \in Handlers, CreateVersion(h)
  PROVE  /\ versions' \in Seq(Version)
         /\ Len(versions') = Len(versions) + 1
         /\ \A i \in 1..Len(versions) : versions'[i] = versions[i]
         /\ versions'[Len(versions)+1] = Draft(handler[h].current + 1)
         /\ Effective' = Effective
<1> DEFINE d == Draft(handler[h].current + 1)
<1>1. versions \in Seq(Version) /\ Len(versions) \in Nat
  BY LenProperties DEF FrameInv, TypeOK
<1>2. d \in Version /\ d.status = "DRAFT"
  BY CommitLatest, RuleAssumption DEF CreateVersion, Draft, Version, Statuses
<1> HIDE DEF d
<1>3. /\ versions' \in Seq(Version)
      /\ Len(versions') = Len(versions) + 1
      /\ \A i \in 1..Len(versions) : versions'[i] = versions[i]
      /\ versions'[Len(versions)+1] = d
  BY <1>1, <1>2, AppendProperties DEF CreateVersion, d
<1>4. ASSUME NEW status, status # "DRAFT"
      PROVE  WithStatus(status)' = WithStatus(status)
  <2>1. 1..Len(versions') = 1..Len(versions) \cup {Len(versions) + 1}
    BY <1>1, <1>3
  <2> QED
    BY <1>1, <1>2, <1>3, <1>4, <2>1 DEF WithStatus
<1>5. /\ WithStatus("ACTIVE")' = WithStatus("ACTIVE")
      /\ WithStatus("CANARY")' = WithStatus("CANARY")
  BY <1>4
<1>6. Effective' = Effective
  BY <1>5 DEF Effective, LatestOf
<1> QED
  BY <1>3, <1>6 DEF d

-----------------------------------------------------------------------------
LEMMA InitIInv == Init => IInv
<1> SUFFICES ASSUME Init PROVE IInv
  OBVIOUS
<1> DEFINE d == Draft(1)
<1>1. d \in Version /\ d.no = 1 /\ d.status = "DRAFT" /\ d.edited = FALSE
  BY RuleAssumption DEF Draft, Version, Statuses
<1> HIDE DEF d
<1>2. /\ versions = <<d>> /\ versions # <<>> /\ versions \in Seq(Version)
      /\ Len(versions) = 1 /\ versions[1] = d
  BY <1>1 DEF Init, d
<1>3. TypeOK
  <2>1. /\ current = 1 /\ 1 <= MaxVersions /\ 1 \in 0..MaxVersions
        /\ overlaps = 0 /\ rolledBack = FALSE
    BY RuleAssumption DEF Init
  <2>2. /\ handler \in [Handlers -> Handler \cup {Nothing}]
        /\ cache \in [Processes -> Engine \cup {Nothing}]
        /\ inbox \in [Processes -> BOOLEAN] /\ missed \in [Processes -> BOOLEAN]
    BY DEF Init
  <2>3. /\ versions \in Seq(Version) /\ Len(versions) <= MaxVersions
        /\ (current = 0) <=> (versions = <<>>)
    BY <1>2, <2>1
  <2> QED
    BY <2>1, <2>2, <2>3 DEF TypeOK
<1>4. BoundInv /\ FreshInv /\ StaleInv
  BY <1>1, <1>2 DEF Init, BoundInv, FreshInv, StaleInv, Loaded
<1>5. NumberInv /\ PublishedIsFinal
  BY <1>1, <1>2 DEF Init, NumberInv, PublishedIsFinal
<1>6. ActiveInv
  <2>1. Active = {}
    BY <1>1, <1>2 DEF Active, WithStatus
  <2>2. Cardinality(Active) = 0 /\ overlaps = 0
    BY <2>1, FS_EmptySet DEF Init
  <2> QED
    BY <2>2 DEF ActiveInv
<1> QED
  BY <1>3, <1>4, <1>5, <1>6 DEF IInv, FrameInv

LEMMA LoadStep ==
  ASSUME IInv, NEW h \in Handlers, Load(h)
  PROVE  IInv'
<1> DEFINE x == [stage |-> "loaded", latest |-> Len(versions),
                 status |-> versions[Len(versions)].status, current |-> current,
                 dirty |-> FALSE]
<1>1. /\ Len(versions) \in 1..MaxVersions /\ current \in 1..MaxVersions
      /\ versions[Len(versions)].status \in Statuses
  <2>1. versions # <<>> /\ versions \in Seq(Version)
    BY DEF Load, IInv, FrameInv, TypeOK
  <2>2. Len(versions) \in Nat /\ Len(versions) # 0 /\ Len(versions) <= MaxVersions
    BY <2>1, LenProperties DEF IInv, FrameInv, TypeOK
  <2>3. versions[Len(versions)] \in Version
    BY <2>1, <2>2, LenProperties
  <2> QED
    BY <2>2, <2>3, RuleAssumption DEF Load, IInv, FrameInv, TypeOK, Version
<1>2. x \in Handler /\ x # Nothing
  <2>1. x \in [stage : {"loaded"}, latest : 1..MaxVersions, status : Statuses,
               current : 1..MaxVersions, dirty : BOOLEAN]
    BY <1>1
  <2> QED
    BY <2>1, NothingAssumption DEF Handler
<1>3. handler' = [handler EXCEPT ![h] = x]
  BY DEF Load
<1>4. /\ x.latest = Len(versions) /\ x.status = versions[Len(versions)].status
      /\ x.current = current /\ x.dirty = FALSE /\ x # Reloading
  BY DEF Reloading
<1> HIDE DEF x
<1>5. /\ handler' \in [Handlers -> Handler \cup {Nothing}]
      /\ handler'[h] = x
      /\ \A g \in Handlers : g # h => handler'[g] = handler[g]
  BY <1>2, <1>3 DEF IInv, FrameInv, TypeOK
<1>6. TypeOK'
  BY <1>5 DEF Load, IInv, FrameInv, TypeOK, engine
<1>7. BoundInv'
  <2>1. current <= Len(versions)
    BY DEF Load, IInv, FrameInv, BoundInv
  <2> QED
    BY <1>1, <1>4, <1>5, <2>1 DEF Load, IInv, FrameInv, BoundInv, Loaded
<1>8. FreshInv'
  BY <1>4, <1>5 DEF Load, IInv, FrameInv, FreshInv, Loaded
<1>9. StaleInv'
  <2>1. Effective' = Effective
    BY DEF Load, Effective, WithStatus, LatestOf
  <2>2. \A g \in Handlers : handler[g] = Reloading => handler'[g] = Reloading
    BY <1>5, NothingAssumption DEF Load, Reloading, Handler
  <2> QED
    BY <2>1, <2>2 DEF Load, IInv, FrameInv, StaleInv, engine
<1>10. ActiveInv' /\ NumberInv' /\ PublishedIsFinal'
  BY DEF Load, IInv, ActiveInv, Active, WithStatus, NumberInv, PublishedIsFinal
<1> QED
  BY <1>6, <1>7, <1>8, <1>9, <1>10 DEF IInv, FrameInv

LEMMA FailStep ==
  ASSUME IInv, NEW h \in Handlers, Fail(h)
  PROVE  IInv'
<1>1. /\ handler' \in [Handlers -> Handler \cup {Nothing}]
      /\ handler'[h] = Nothing
      /\ \A g \in Handlers : g # h => handler'[g] = handler[g]
      /\ handler[h] # Reloading
  BY DEF Fail, Loaded, Reloading, IInv, FrameInv, TypeOK
<1>2. TypeOK'
  BY <1>1 DEF Fail, IInv, FrameInv, TypeOK, engine
<1>3. BoundInv' /\ FreshInv'
  BY <1>1 DEF Fail, IInv, FrameInv, BoundInv, FreshInv, Loaded
<1>4. StaleInv'
  <2>1. Effective' = Effective
    BY DEF Fail, Effective, WithStatus, LatestOf
  <2> QED
    BY <1>1, <2>1 DEF Fail, IInv, FrameInv, StaleInv, engine
<1>5. ActiveInv' /\ NumberInv' /\ PublishedIsFinal'
  BY DEF Fail, IInv, ActiveInv, Active, WithStatus, NumberInv, PublishedIsFinal
<1> QED
  BY <1>2, <1>3, <1>4, <1>5 DEF IInv, FrameInv

LEMMA UpdateRuleStep ==
  ASSUME IInv, NEW h \in Handlers, UpdateRule(h)
  PROVE  IInv'
<1>1. FrameInv /\ Commit(h, Reloading)
  BY DEF IInv, UpdateRule
<1>2. FrameInv'
  BY <1>1, UpdateRuleEffect, RewrittenFrame, CommitLatest DEF UpdateRule, FrameInv, TypeOK
<1>3. Len(versions) \in Nat
  BY <1>1, CommitLatest, RuleAssumption
<1>4. ActiveInv'
  <2>1. Active' \subseteq Active
    BY <1>1, <1>3, UpdateRuleEffect DEF Active, WithStatus, Rewritten
  <2> QED
    BY <1>1, <2>1, CommitHandlers, NoMoreActive DEF IInv, FrameInv
<1>5. NumberInv'
  BY <1>1, UpdateRuleEffect DEF UpdateRule, IInv, NumberInv, Rewritten
<1>6. PublishedIsFinal'
  <2> SUFFICES ASSUME overlaps' = 0, NEW i \in 1..Len(versions'), versions'[i].edited
               PROVE  FALSE
    BY DEF PublishedIsFinal
  <2>1. overlaps = 0 /\ i \in 1..Len(versions)
    BY <1>1, CommitHandlers, UpdateRuleEffect DEF FrameInv, Rewritten
  <2>2. ~versions[i].edited
    BY <2>1 DEF IInv, PublishedIsFinal
  <2>3. i = handler[h].latest /\ versions[i].status # "DRAFT"
    BY <1>1, <2>1, <2>2, UpdateRuleEffect
  <2> QED
    BY <1>1, <2>3, CommitLatest DEF UpdateRule
<1> QED
  BY <1>2, <1>4, <1>5, <1>6 DEF IInv

LEMMA PromoteToCanaryStep ==
  ASSUME IInv, NEW h \in Handlers, PromoteToCanary(h)
  PROVE  IInv'
<1>1. FrameInv /\ Commit(h, Reloading)
  BY DEF IInv, PromoteToCanary
<1>2. FrameInv'
  BY <1>1, PromoteToCanaryEffect, RewrittenFrame, CommitLatest
     DEF PromoteToCanary, FrameInv, TypeOK
<1>3. overlaps' = 0 => overlaps = 0
  BY <1>1, CommitHandlers DEF FrameInv
<1>4. ActiveInv'
  <2>1. Active' \subseteq Active
    BY <1>1, PromoteToCanaryEffect DEF Active, WithStatus, Rewritten
  <2> QED
    BY <1>1, <2>1, CommitHandlers, NoMoreActive DEF IInv, FrameInv
<1>5. NumberInv'
  BY <1>1, PromoteToCanaryEffect DEF PromoteToCanary, IInv, NumberInv, Rewritten
<1>6. PublishedIsFinal'
  BY <1>1, <1>3, PromoteToCanaryEffect DEF IInv, PublishedIsFinal, Rewritten
<1> QED
  BY <1>2, <1>4, <1>5, <1>6 DEF IInv

LEMMA PromoteToActiveStep ==
  ASSUME IInv, NEW h \in Handlers, PromoteToActive(h)
  PROVE  IInv'
<1>1. FrameInv /\ Commit(h, Reloading)
  BY DEF IInv, PromoteToActive
<1>2. FrameInv'
  BY <1>1, PromoteToActiveEffect, RewrittenFrame, CommitLatest
     DEF PromoteToActive, FrameInv, TypeOK
<1>3. overlaps' = 0 => overlaps = 0
  BY <1>1, CommitHandlers DEF FrameInv
<1>4. ActiveInv'
  <2>1. Active' \subseteq {handler[h].latest}
    BY <1>1, PromoteToActiveEffect DEF Active, WithStatus, Rewritten
  <2>2. Cardinality(Active') \in Nat /\ Cardinality(Active') <= 1
    <3>1. IsFiniteSet({handler[h].latest}) /\ Cardinality({handler[h].latest}) = 1
      BY FS_Singleton
    <3>2. /\ IsFiniteSet(Active')
          /\ Cardinality(Active') <= Cardinality({handler[h].latest})
      BY <2>1, <3>1, FS_Subset
    <3>3. Cardinality(Active') \in Nat
      BY <3>2, FS_CardinalityType
    <3> QED
      BY <3>1, <3>2, <3>3
  <2>3. overlaps' \in Nat
    BY <1>1, CommitHandlers DEF FrameInv
  <2> QED
    BY <2>2, <2>3 DEF ActiveInv
<1>5. NumberInv'
  BY <1>1, PromoteToActiveEffect DEF PromoteToActive, IInv, NumberInv, Rewritten
<1>6. PublishedIsFinal'
  BY <1>1, <1>3, PromoteToActiveEffect DEF IInv, PublishedIsFinal, Rewritten
<1> QED
  BY <1>2, <1>4, <1>5, <1>6 DEF IInv

LEMMA RollbackStep ==
  ASSUME IInv, NEW h \in Handlers, Rollback(h)
  PROVE  IInv'
<1>1. FrameInv /\ Commit(h, Reloading) /\ rolledBack' = TRUE
  BY DEF IInv, Rollback
<1>2. PICK target \in 1..Len(versions) :
        /\ Rewritten
        /\ current' = versions[target].no
        /\ \A i \in 1..Len(versions) :
             /\ versions'[i].status = "ACTIVE" =>
                  \/ i = target
                  \/ i # handler[h].latest /\ versions[i].status = "ACTIVE"
             /\ versions'[i].edited = versions[i].edited
  BY <1>1, RollbackEffect
<1>3. FrameInv'
  <2>1. current' \in 1..Len(versions)
    BY <1>1, <1>2, CommitLatest, RuleAssumption
  <2> QED
    BY <1>1, <1>2, <2>1, RewrittenFrame DEF Rollback
<1>4. overlaps' = 0 => overlaps = 0
  BY <1>1, CommitHandlers DEF FrameInv
<1>5. ActiveInv'
  <2>1. Active' \subseteq (Active \ {handler[h].latest}) \cup {target}
    BY <1>2 DEF Active, WithStatus, Rewritten
  <2>2. overlaps' = overlaps + 1 \/ handler[h].latest \in Active
    BY <1>1, CommitLatest, CommitSeen DEF Rollback, Active, WithStatus
  <2> QED
    BY <1>1, <2>1, <2>2, CommitHandlers, OneMoreActive DEF IInv, FrameInv
<1>6. NumberInv'
  BY <1>1, <1>2 DEF NumberInv, IInv, Rewritten, Rollback
<1>7. PublishedIsFinal'
  BY <1>2, <1>4 DEF IInv, PublishedIsFinal, Rewritten
<1> QED
  BY <1>3, <1>5, <1>6, <1>7 DEF IInv

LEMMA CreateVersionStep ==
  ASSUME IInv, NEW h \in Handlers, CreateVersion(h)
  PROVE  IInv'
<1> DEFINE n == Len(versions)
           d == Draft(handler[h].current + 1)
<1>1. FrameInv /\ Commit(h, Nothing)
  BY DEF IInv, CreateVersion
<1>2. /\ versions' \in Seq(Version)
      /\ Len(versions') = n + 1
      /\ \A i \in 1..n : versions'[i] = versions[i]
      /\ versions'[n + 1] = d
      /\ Effective' = Effective
  BY <1>1, CreateVersionEffect
<1>3. n \in 1..MaxVersions /\ n < MaxVersions /\ MaxVersions \in Nat
  BY <1>1, CommitLatest, RuleAssumption DEF CreateVersion
<1>4. /\ d.no = handler[h].current + 1 /\ d.status = "DRAFT" /\ d.edited = FALSE
      /\ handler[h].current \in 1..n
  BY <1>1, CommitLatest DEF Draft
<1>5. \A i \in 1..n : versions[i].no <= i
  BY <1>1, CommitLatest
<1>6. overlaps' = 0 => overlaps = 0 /\ handler[h].current = current
  BY <1>1, CommitLatest
<1>7. current' = handler[h].current + 1 /\ rolledBack' = rolledBack
  BY DEF CreateVersion
<1>8. 1..Len(versions') = 1..n \cup {n + 1} /\ n + 1 \notin 1..n
  BY <1>2, <1>3
<1>9. rolledBack \in BOOLEAN /\ UNCHANGED engine
  BY <1>1 DEF FrameInv, TypeOK, CreateVersion
<1> HIDE DEF d, n
<1>10. FrameInv'
  <2>1. \A i \in 1..Len(versions') : versions'[i].no <= i
    BY <1>2, <1>3, <1>4, <1>5, <1>8
  <2>2. /\ Len(versions) <= Len(versions') /\ Len(versions') <= MaxVersions
        /\ current' \in 1..Len(versions')
    BY <1>2, <1>3, <1>4, <1>7 DEF n
  <2> QED
    BY <1>1, <1>2, <1>7, <1>9, <2>1, <2>2, CommitFrame
<1>11. ActiveInv'
  <2>1. Active' \subseteq Active
    BY <1>2, <1>4, <1>8 DEF Active, WithStatus, n
  <2> QED
    BY <1>1, <2>1, CommitHandlers, NoMoreActive DEF IInv, FrameInv
<1>12. NumberInv'
  <2>1. \A i \in 1..n : versions[i].no = i
    BY DEF IInv, NumberInv, n
  <2>2. d.no \notin 1..n
    BY <1>4, <2>1 DEF CreateVersion, NumberTaken, n
  <2>3. d.no = n + 1
    BY <1>3, <1>4, <2>2
  <2> QED
    BY <1>2, <1>4, <1>7, <1>8, <2>1, <2>3 DEF NumberInv
<1>13. PublishedIsFinal'
  BY <1>2, <1>4, <1>6, <1>8 DEF IInv, PublishedIsFinal, n
<1> QED
  BY <1>10, <1>11, <1>12, <1>13 DEF IInv

LEMMA DeleteRuleStep ==
  ASSUME IInv, NEW h \in Handlers, DeleteRule(h)
  PROVE  IInv'
<1>1. FrameInv /\ Commit(h, Nothing)
  BY DEF IInv, DeleteRule
<1>2. versions' = <<>> /\ current' = 0 /\ Len(versions') = 0
  BY DEF DeleteRule
<1>3. TypeOK'
  <2>1. /\ versions' \in Seq(Version) /\ Len(versions') <= MaxVersions
        /\ current' \in 0..MaxVersions
        /\ (current' = 0) <=> (versions' = <<>>)
    BY <1>2, RuleAssumption
  <2>2. missed' \in [Processes -> BOOLEAN]
    BY DEF DeleteRule
  <2> QED
    BY <1>1, <2>1, <2>2, CommitHandlers DEF DeleteRule, FrameInv, TypeOK
<1>4. BoundInv'
  BY <1>2 DEF BoundInv
<1>5. FreshInv'
  BY <1>1, CommitHandlers DEF FrameInv, FreshInv
<1>6. StaleInv'
  BY DEF DeleteRule, StaleInv
<1>7. NumberInv' /\ PublishedIsFinal'
  BY <1>2 DEF NumberInv, PublishedIsFinal
<1>8. ActiveInv'
  <2>1. Active' \subseteq Active
    BY <1>2 DEF Active, WithStatus
  <2> QED
    BY <1>1, <2>1, CommitHandlers, NoMoreActive DEF IInv, FrameInv
<1> QED
  BY <1>3, <1>4, <1>5, <1>6, <1>7, <1>8 DEF IInv, FrameInv

-----------------------------------------------------------------------------
(* Steps of the caches: they write neither the rule nor what handlers read.  *)
LEMMA CacheFrame ==
  ASSUME IInv, UNCHANGED <<versions, current, overlaps, rolledBack>>,
         \A h \in Handlers : handler'[h] = handler[h] \/ handler'[h] = Nothing,
         handler' \in [Handlers -> Handler \cup {Nothing}],
         cache' \in [Processes -> Engine \cup {Nothing}],
         inbox' \in [Processes -> BOOLEAN], missed' \in [Processes -> BOOLEAN],
         StaleInv'
  PROVE  IInv'
<1>1. TypeOK'
  BY DEF IInv, FrameInv, TypeOK
<1>2. BoundInv' /\ FreshInv'
  BY DEF IInv, FrameInv, BoundInv, FreshInv, Loaded
<1>3. ActiveInv' /\ NumberInv' /\ PublishedIsFinal'
  BY DEF IInv, ActiveInv, Active, WithStatus, NumberInv, PublishedIsFinal
<1> QED
  BY <1>1, <1>2, <1>3 DEF IInv, FrameInv

LEMMA EffectiveUnchanged ==
  ASSUME UNCHANGED versions PROVE Effective' = Effective
  BY DEF Effective, WithStatus, LatestOf

(* A load in flight survives the drop; no other cache does.                  *)
LEMMA DroppedType ==
  ASSUME TypeOK, NEW p \in Processes
  PROVE  /\ Dropped(p) \in Engine \cup {Nothing}
         /\ Dropped(p) # Nothing => Loading(p) /\ Dropped(p) = cache[p]
  BY DEF TypeOK, Dropped, Loading

LEMMA HotReloadStep ==
  ASSUME IInv, NEW h \in Handlers, HotReload(h)
  PROVE  IInv'
<1> DEFINE self == ProcessOf[h]
<1>1. TypeOK /\ UNCHANGED <<versions, current, overlaps, rolledBack>>
  BY DEF IInv, FrameInv, HotReload
<1>2. /\ handler' \in [Handlers -> Handler \cup {Nothing}]
      /\ \A g \in Handlers : handler'[g] = handler[g] \/ handler'[g] = Nothing
  BY <1>1 DEF HotReload, TypeOK
<1>3. cache' = [p \in Processes |-> IF p = self THEN Dropped(p) ELSE cache[p]]
  BY DEF HotReload
<1>4. PICK lost \in SUBSET (Processes \ {self}) :
        /\ inbox' = [p \in Processes |-> inbox[p] \/ p \notin lost \cup {self}]
        /\ missed' = [p \in Processes |->
             IF p = self THEN Loading(p)
             ELSE missed[p] \/ (p \in lost /\ cache[p] # Nothing)]
  BY DEF HotReload
<1>5. cache' \in [Processes -> Engine \cup {Nothing}]
  BY <1>1, <1>3, DroppedType DEF TypeOK
<1>6. inbox' \in [Processes -> BOOLEAN] /\ missed' \in [Processes -> BOOLEAN]
  BY <1>1, <1>4 DEF TypeOK, Loading
<1>7. StaleInv'
  <2> SUFFICES ASSUME NEW p \in Processes, cache'[p] # Nothing
               PROVE  inbox'[p] \/ missed'[p]
    BY DEF StaleInv
  <2>1. CASE p = self
    BY <1>1, <1>3, <1>4, <2>1, DroppedType
  <2>2. CASE p # self
    <3>1. cache[p] # Nothing
      BY <1>3, <2>2
    <3> QED
      BY <1>4, <2>2, <3>1
  <2> QED
    BY <2>1, <2>2
<1> QED
  BY <1>1, <1>2, <1>5, <1>6, <1>7, CacheFrame

LEMMA AnnounceFailsStep ==
  ASSUME IInv, NEW h \in Handlers, AnnounceFails(h)
  PROVE  IInv'
<1>1. TypeOK /\ UNCHANGED <<versions, current, cache, inbox, overlaps, rolledBack>>
  BY DEF IInv, FrameInv, AnnounceFails
<1>2. /\ handler' \in [Handlers -> Handler \cup {Nothing}]
      /\ \A g \in Handlers : handler'[g] = handler[g] \/ handler'[g] = Nothing
  BY <1>1 DEF AnnounceFails, TypeOK
<1>3. missed' \in [Processes -> BOOLEAN]
  BY <1>1 DEF AnnounceFails, TypeOK
<1>4. StaleInv'
  BY <1>1 DEF AnnounceFails, StaleInv
<1> QED
  BY <1>1, <1>2, <1>3, <1>4, CacheFrame DEF TypeOK

LEMMA CacheStep ==
  ASSUME IInv, NEW p \in Processes,
         HandleReload(p) \/ StartLoad(p) \/ FinishLoad(p) \/ LoadFails(p) \/ Expire(p)
  PROVE  IInv'
<1>1. TypeOK /\ UNCHANGED <<versions, current, handler, overlaps, rolledBack>>
  BY DEF IInv, FrameInv, HandleReload, StartLoad, FinishLoad, LoadFails, Expire
<1>2. handler' \in [Handlers -> Handler \cup {Nothing}]
      /\ \A h \in Handlers : handler'[h] = handler[h]
  BY <1>1 DEF TypeOK
<1>3. Effective' = Effective
  BY <1>1, EffectiveUnchanged
<1>4. ASSUME NEW c \in Engine \cup {Nothing}, cache' = [cache EXCEPT ![p] = c],
             inbox' \in [Processes -> BOOLEAN], missed' \in [Processes -> BOOLEAN],
             \A q \in Processes : q # p => inbox'[q] = inbox[q] /\ missed'[q] = missed[q],
             c # Nothing /\ c.rules # Effective =>
               inbox'[p] \/ missed'[p] \/ \E h \in Handlers : handler[h] = Reloading
      PROVE  IInv'
  <2>1. cache' \in [Processes -> Engine \cup {Nothing}] /\ cache'[p] = c
        /\ \A q \in Processes : q # p => cache'[q] = cache[q]
    BY <1>1, <1>4 DEF TypeOK
  <2>2. StaleInv'
    BY <1>1, <1>3, <1>4, <2>1 DEF StaleInv, IInv, FrameInv
  <2> QED
    BY <1>1, <1>2, <1>4, <2>1, <2>2, CacheFrame
<1>5. CASE HandleReload(p)
  <2>1. /\ inbox' \in [Processes -> BOOLEAN] /\ missed' \in [Processes -> BOOLEAN]
        /\ missed'[p] = Loading(p)
        /\ \A q \in Processes : q # p => inbox'[q] = inbox[q] /\ missed'[q] = missed[q]
    BY <1>1, <1>5 DEF HandleReload, TypeOK, Loading
  <2> QED
    BY <1>1, <1>4, <1>5, <2>1, DroppedType DEF HandleReload
<1>6. CASE StartLoad(p)
  <2> DEFINE c == [stage |-> "loading", rules |-> Effective]
  <2>1. c \in Engine /\ c.rules = Effective
    BY <1>1, EffectiveType DEF Engine
  <2>2. cache' = [cache EXCEPT ![p] = c] /\ UNCHANGED <<inbox, missed>>
    BY <1>6 DEF StartLoad
  <2> HIDE DEF c
  <2> QED
    BY <1>1, <1>4, <2>1, <2>2 DEF TypeOK
<1>7. CASE FinishLoad(p)
  <2> DEFINE c == [cache[p] EXCEPT !.stage = "cached"]
  <2>1. cache[p] \in Engine /\ cache[p] # Nothing
    BY <1>1, <1>7 DEF FinishLoad, Loading, TypeOK
  <2>2. c \in Engine /\ c.rules = cache[p].rules
    BY <2>1 DEF Engine
  <2>3. cache' = [cache EXCEPT ![p] = c] /\ UNCHANGED <<inbox, missed>>
    BY <1>7 DEF FinishLoad
  <2>4. cache[p].rules # Effective =>
          inbox[p] \/ missed[p] \/ \E h \in Handlers : handler[h] = Reloading
    BY <2>1 DEF IInv, FrameInv, StaleInv
  <2> HIDE DEF c
  <2> QED
    BY <1>1, <1>4, <2>2, <2>3, <2>4 DEF TypeOK
<1>8. CASE LoadFails(p) \/ Expire(p)
  <2>1. /\ cache' = [cache EXCEPT ![p] = Nothing] /\ inbox' = inbox
        /\ missed' \in [Processes -> BOOLEAN]
        /\ \A q \in Processes : q # p => missed'[q] = missed[q]
    BY <1>1, <1>8 DEF LoadFails, Expire, TypeOK
  <2> QED
    BY <1>1, <1>4, <2>1 DEF TypeOK
<1> QED
  BY <1>5, <1>6, <1>7, <1>8

-----------------------------------------------------------------------------
LEMMA NextIInv == IInv /\ [Next]_vars => IInv'
<1> SUFFICES ASSUME IInv, [Next]_vars PROVE IInv'
  OBVIOUS
<1>1. ASSUME NEW h \in Handlers, Write(h) PROVE IInv'
  <2>1. CASE Load(h)
    BY <2>1, LoadStep
  <2>2. CASE Fail(h)
    BY <2>2, FailStep
  <2>3. CASE UpdateRule(h)
    BY <2>3, UpdateRuleStep
  <2>4. CASE DeleteRule(h)
    BY <2>4, DeleteRuleStep
  <2>5. CASE CreateVersion(h)
    BY <2>5, CreateVersionStep
  <2>6. CASE PromoteToCanary(h)
    BY <2>6, PromoteToCanaryStep
  <2>7. CASE PromoteToActive(h)
    BY <2>7, PromoteToActiveStep
  <2>8. CASE Rollback(h)
    BY <2>8, RollbackStep
  <2> QED
    BY <1>1, <2>1, <2>2, <2>3, <2>4, <2>5, <2>6, <2>7, <2>8 DEF Write
<1>2. ASSUME NEW h \in Handlers, HotReload(h) \/ AnnounceFails(h) PROVE IInv'
  BY <1>2, HotReloadStep, AnnounceFailsStep
<1>3. ASSUME NEW p \in Processes,
             HandleReload(p) \/ StartLoad(p) \/ FinishLoad(p) \/ LoadFails(p) \/ Expire(p)
      PROVE  IInv'
  BY <1>3, CacheStep
<1>4. CASE UNCHANGED vars
  <2>1. UNCHANGED <<versions, current, handler, overlaps, rolledBack, cache, inbox, missed>>
    BY <1>4 DEF vars
  <2>2. StaleInv'
    BY <2>1, EffectiveUnchanged DEF IInv, FrameInv, StaleInv
  <2> QED
    BY <2>1, <2>2, CacheFrame DEF IInv, FrameInv, TypeOK
<1> QED
  BY <1>1, <1>2, <1>3, <1>4 DEF Next

LEMMA Inductive == Spec => []IInv
  BY InitIInv, NextIInv, PTL DEF Spec

(* A rule has a version exactly until it is deleted, and no interleaving of  *)
(* handlers, numbered from what they read, leaves the ranges of the columns. *)
THEOREM RuleTypeCorrect == Spec => []TypeOK
<1>1. IInv => TypeOK
  BY DEF IInv, FrameInv
<1> QED
  BY <1>1, Inductive, PTL

(* Promotions and rollbacks keep one ACTIVE version, and each that commits   *)
(* over what it has not seen adds at most one.                               *)
THEOREM ActiveBounded == Spec => []ActiveWithinOverlaps
<1>1. IInv => ActiveWithinOverlaps
  BY DEF IInv, ActiveInv, Active, ActiveWithinOverlaps
<1> QED
  BY <1>1, Inductive, PTL

(* The unique index makes overlapping drafts safe: numbers have no gap and   *)
(* no repetition, whatever the handlers had read.                            *)
THEOREM NumbersInOrder == Spec => []NumbersIncrease
<1>1. IInv => NumbersIncrease
  BY DEF IInv, NumberInv, NumbersIncrease
<1> QED
  BY <1>1, Inductive, PTL

(* A process that runs other rules than the database's has a reload on its   *)
(* way, or one of the known reasons not to.                                  *)
THEOREM StaleHasReason == Spec => []StaleOnlyIfMissed
<1>1. IInv => StaleOnlyIfMissed
  BY DEF IInv, FrameInv, StaleInv, StaleOnlyIfMissed, Stale, Cached
<1> QED
  BY <1>1, Inductive, PTL

(* No expression changes under a canary or an active version.                *)
THEOREM PublishedNeverEdited == Spec => []PublishedIsFinal
<1>1. IInv => PublishedIsFinal
  BY DEF IInv
<1> QED
  BY <1>1, Inductive, PTL
=============================================================================
