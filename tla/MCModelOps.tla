----------------------------- MODULE MCModelOps -----------------------------
(* Two versions, one of them served; two requests overlap and the drift     *)
(* check goes on beside them.                                               *)
EXTENDS ModelOps, TLC

CONSTANTS m1, m2, h1, h2

MCModels == {m1, m2}
MCHandlers == {h1, h2}
Symmetry == Permutations(MCHandlers)
=============================================================================
