--------------------------- MODULE MCShapResults ---------------------------
(* Two concurrent requests and a redelivered task; transactions that reach *)
(* both ends of every contribution.                                        *)
EXTENDS ShapResults

CONSTANTS c1, c2, d1, d2

MCCallers == {c1, c2}
MCDeliveries == {d1, d2}
MCTransactions ==
  {[amount |-> 2000000, bin |-> "542418", type |-> "TRANSFER", threeDS |-> FALSE,
    channel |-> "QR", category |-> "5411"],
   [amount |-> 60000, bin |-> "411111", type |-> "REFUND", threeDS |-> TRUE,
    channel |-> "API", category |-> "0000"],
   [amount |-> 10, bin |-> "000000", type |-> "PURCHASE", threeDS |-> TRUE,
    channel |-> "WEB", category |-> "0000"]}
=============================================================================
