CONSTANTS
  c1 = c1
  c2 = c2
  c3 = c3
  c4 = c4
  t1 = t1
  t2 = t2
  NoTenant = NoTenant
  Genesis = Genesis
  NoCall = NoCall
  Calls <- MCCalls
  Tenants <- MCTenants
  TenantOf <- MCTenantOf
SPECIFICATION FairAuditSpec
INVARIANTS
  LinearChain
  AcknowledgedIsDurable
PROPERTIES
  ImplementsAuditLog
  EveryCallReturns
CHECK_DEADLOCK FALSE
