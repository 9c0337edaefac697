--------------------------- MODULE MCRuleRollout ---------------------------
(* Two write requests, of which one runs in the process whose cache is       *)
(* modelled and one in another process.  Three versions are enough for a     *)
(* canary behind a newer one, and for a draft that overlaps a rollback.      *)
EXTENDS RuleRollout

CONSTANTS h1, h2, p1, p2

MCProcessOf == [h \in Handlers |-> IF h = h1 THEN p1 ELSE p2]
=============================================================================
