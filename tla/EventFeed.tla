----------------------------- MODULE EventFeed -----------------------------
(***************************************************************************)
(* What a subscriber of the real-time events may rely on: it gets events of *)
(* its own tenant, each once at most, in the order of their publication,    *)
(* and possibly not all of them.                                            *)
(***************************************************************************)
EXTENDS Naturals, Sequences

CONSTANTS Tenants, Types, Connections, TenantOf

VARIABLES published, (* the events, in the order Redis took them              *)
          received   (* the positions of the events each connection got       *)

vars == <<published, received>>

Init ==
  /\ published = <<>>
  /\ received = [c \in Connections |-> <<>>]

Publish(t, type) ==
  /\ published' = Append(published, [tenant |-> t, type |-> type])
  /\ UNCHANGED received

Receive(c, n) ==
  /\ published[n].tenant = TenantOf[c]
  /\ \A i \in DOMAIN received[c] : received[c][i] < n
  /\ received' = [received EXCEPT ![c] = Append(@, n)]
  /\ UNCHANGED published

Next ==
  \/ \E t \in Tenants, type \in Types : Publish(t, type)
  \/ \E c \in Connections, n \in DOMAIN published : Receive(c, n)

Spec == Init /\ [][Next]_vars
=============================================================================
