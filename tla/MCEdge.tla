------------------------------- MODULE MCEdge -------------------------------
(* Edge with two requests, two URLs and two comparisons.                     *)
EXTENDS Edge, TLC

CONSTANTS r1, r2, u1, u2

MCRequests == {r1, r2}
MCUrls == {u1, u2}
MCTransactions ==
  {[amount |-> 2000000, bin |-> "542418", type |-> "TRANSFER", threeDS |-> FALSE,
    channel |-> "QR", category |-> "5411"],
   [amount |-> 60000, bin |-> "411111", type |-> "REFUND", threeDS |-> TRUE,
    channel |-> "API", category |-> "0000"],
   [amount |-> 10, bin |-> "000000", type |-> "PURCHASE", threeDS |-> TRUE,
    channel |-> "WEB", category |-> "0000"]}

(* Full rules of each action and outcome, and canaries at none, half and    *)
(* all of the traffic, the transaction in the first bucket, at the          *)
(* percentage and in the last.                                              *)
MCRules ==
  [action : {"BLOCK", "REVIEW", "ALLOW"}, outcome : {"hit", "miss", "raise"},
   canary : {FALSE}, percent : {100}, bucket : {0}]
  \cup [action : {"BLOCK", "REVIEW"}, outcome : {"hit"},
        canary : {TRUE}, percent : Percents, bucket : {0, 50, 99}]

(* x != 0 and y >= 1.                                                       *)
MCComparisons ==
  [p |-> [left |-> [kind |-> "field", value |-> "x"], op |-> "!=",
          right |-> [kind |-> "number", value |-> 0]],
   q |-> [left |-> [kind |-> "field", value |-> "y"], op |-> ">=",
          right |-> [kind |-> "number", value |-> 1]]]

Symmetry == Permutations(MCRequests) \cup Permutations(MCUrls)
=============================================================================
