-------------------------- MODULE MCCaseLifecycle --------------------------
(* Two requests in flight and two messages about one transaction: enough   *)
(* for a blind overwrite of a case and for a duplicated automatic case.    *)
EXTENDS CaseLifecycle, TLC

CONSTANTS k1, k2, s1, s2, g1, g2, x1

MCCases == {k1, k2}
MCSlots == {s1, s2}
MCTasks == {g1, g2}
MCTxOf == [g \in MCTasks |-> x1]
MCSymmetry == Permutations(MCCases) \cup Permutations(MCSlots)
=============================================================================
