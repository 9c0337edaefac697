---------------------------- MODULE MCAuditChain ----------------------------
(* Three requests of one tenant and one without a tenant: enough for a row  *)
(* to be linked while one call waits for the lock and another was numbered  *)
(* before Redis was flushed.                                                *)
EXTENDS AuditChain

CONSTANTS c1, c2, c3, c4, t1, t2

MCCalls == {c1, c2, c3, c4}
MCTenants == {t1, t2}
MCTenantOf == [c \in MCCalls |-> IF c = c4 THEN NoTenant ELSE t1]
=============================================================================
