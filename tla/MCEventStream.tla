--------------------------- MODULE MCEventStream ---------------------------
(* One connection, events of its own and of another tenant, a queue of two. *)
EXTENDS EventStream

CONSTANTS t1, t2, a, b, c1

MCTenants == {t1, t2}
MCTypes == {a, b}
MCConnections == {c1}
MCTenantOf == [c \in MCConnections |-> t1]
=============================================================================
