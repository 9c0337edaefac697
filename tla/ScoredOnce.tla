----------------------------- MODULE ScoredOnce -----------------------------
(***************************************************************************)
(* What the rest of the platform may rely on, however often and concurrently*)
(* a transaction is scored: one of its scores is stored, for good, and at   *)
(* most once tasks are sent about it - some of those this score calls for.  *)
(***************************************************************************)
EXTENDS Naturals

CONSTANTS Txs, Tasks, Results, Nothing,
          FollowUpsOf   (* the tasks that a score calls for                 *)

VARIABLES stored, sent

vars == <<stored, sent>>

Init ==
  /\ stored = [x \in Txs |-> Nothing]
  /\ sent = [x \in Txs |-> [t \in Tasks |-> 0]]

Store(x, score) ==
  /\ stored[x] = Nothing
  /\ stored' = [stored EXCEPT ![x] = score]
  /\ UNCHANGED sent

Send(x, tasks) ==
  /\ stored[x] # Nothing
  /\ tasks \subseteq FollowUpsOf[stored[x]]
  /\ \A t \in Tasks : sent[x][t] = 0
  /\ sent' = [sent EXCEPT ![x] = [t \in Tasks |-> IF t \in tasks THEN 1 ELSE 0]]
  /\ UNCHANGED stored

Next ==
  \E x \in Txs : \/ \E score \in Results : Store(x, score)
                 \/ \E tasks \in SUBSET Tasks : Send(x, tasks)

Spec == Init /\ [][Next]_vars
=============================================================================
