--------------------------- MODULE RuleEvaluation ---------------------------
(***************************************************************************)
(* The loop that applies a tenant's compiled rules to a transaction         *)
(* (RuleEngine.evaluate, src/backend/app/services/rule_engine.py), as a     *)
(* function of a list of rules that grows one rule at a time.               *)
(*                                                                         *)
(* Of a rule and the transaction it is applied to, the loop looks at what   *)
(* the expression makes of the transaction (RuleLanguage) and at the bucket *)
(* the transaction falls into; a hit is the position of its rule.  Loading  *)
(* and caching the rules is RuleRollout's subject.                          *)
(***************************************************************************)
EXTENDS Integers, Sequences

CONSTANTS
  CompiledRules,  \* the rules of the tenant, on the transaction
  MaxRules,       \* bound: rules of the tenant
  Percents        \* canary percentages an operator may set

VARIABLE rules

(* ------------------------------------------------------------ the loop *)

SkippedAbove(rule) == rule.canary /\ rule.bucket > rule.percent
Skipped(rule) == rule.canary /\ rule.bucket >= rule.percent

Verdict(action, rule) ==
  IF rule.action = "BLOCK" THEN "BLOCK"
  ELSE IF rule.action = "REVIEW" /\ action # "BLOCK" THEN "REVIEW" ELSE action

(* An expression that raises is logged, and the loop goes on.               *)
Applied(result, rule, n) ==
  IF result.stopped \/ Skipped(rule) \/ rule.outcome # "hit" THEN result
  ELSE [action |-> Verdict(result.action, rule),
        hits |-> Append(result.hits, n),
        stopped |-> rule.action = "BLOCK"]

NoHit == [action |-> "ALLOW", hits |-> << >>, stopped |-> FALSE]

EvaluateRules(rs) ==
  LET after[n \in 0..Len(rs)] ==
        IF n = 0 THEN NoHit ELSE Applied(after[n - 1], rs[n], n)
  IN after[Len(rs)]

(* ------------------------------------------------------------- the input *)

Init == rules = << >>

AppendRule(rule) ==
  /\ Len(rules) < MaxRules
  /\ rules' = Append(rules, rule)

Next == \E rule \in CompiledRules : AppendRule(rule)

Spec == Init /\ [][Next]_rules

-----------------------------------------------------------------------------
TypeOK == rules \in Seq(CompiledRules)

(* A full rule serves every transaction, a canary at p percent those of p   *)
(* of the hundred buckets: at 0 none, at 100 all.                           *)
Served(rule) == rule.canary => rule.bucket \in 0..(rule.percent - 1)
Applies(rule) == Served(rule) /\ rule.outcome = "hit"
Blocks(rule) == Applies(rule) /\ rule.action = "BLOCK"

Strictest(rs) ==
  IF \E i \in DOMAIN rs : Blocks(rs[i]) THEN "BLOCK"
  ELSE IF \E i \in DOMAIN rs : Applies(rs[i]) /\ rs[i].action = "REVIEW"
  THEN "REVIEW" ELSE "ALLOW"

(* The verdict is that of the strictest rule that applies, whatever the    *)
(* order of the rules, those that raise and the short circuit; reported    *)
(* are, in their order, the rules that apply up to the first blocking one  *)
(* (RuleEngine.evaluate).                                                  *)
VerdictIsStrictest ==
  LET result == EvaluateRules(rules)
      hits == result.hits
  IN /\ result.action = Strictest(rules)
     /\ \A i, j \in DOMAIN hits : i < j => hits[i] < hits[j]
     /\ {hits[i] : i \in DOMAIN hits} =
          {n \in DOMAIN rules : /\ Applies(rules[n])
                                /\ \A m \in 1..(n - 1) : ~Blocks(rules[m])}

Severity == [ALLOW |-> 0, REVIEW |-> 1, BLOCK |-> 2]

(* Widening a canary's share of the traffic never weakens the verdict on a *)
(* transaction; at 100 the canary is as good as a full rule, at 0 as good  *)
(* as one that misses (_canary_bucket).                                    *)
WideningNeverWeakens ==
  \A i \in DOMAIN rules : rules[i].canary =>
    /\ \A p \in Percents : p >= rules[i].percent =>
         Severity[EvaluateRules([rules EXCEPT ![i].percent = p]).action]
           >= Severity[EvaluateRules(rules).action]
    /\ EvaluateRules([rules EXCEPT ![i].percent = 100]).action
         = EvaluateRules([rules EXCEPT ![i].canary = FALSE]).action
    /\ EvaluateRules([rules EXCEPT ![i].percent = 0]).action
         = EvaluateRules([rules EXCEPT ![i].outcome = "miss"]).action
=============================================================================
