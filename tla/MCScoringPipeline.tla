------------------------- MODULE MCScoringPipeline -------------------------
(* Two requests score one transaction: a second score of it races with or   *)
(* follows the first.  Two failures open the breaker, so that one request's *)
(* outcome meets what the other one left.                                   *)
EXTENDS ScoringPipeline

CONSTANTS r1, r2, x1

MCRequests == {r1, r2}
MCTxOf == [r \in MCRequests |-> x1]
=============================================================================
