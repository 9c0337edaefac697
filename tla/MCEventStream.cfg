CONSTANTS
  t1 = t1
  t2 = t2
  a = a
  b = b
  c1 = c1
  Tenants <- MCTenants
  Types <- MCTypes
  Connections <- MCConnections
  TenantOf <- MCTenantOf
  QueueSize = 2
  MaxEvents = 4
SPECIFICATION Spec
INVARIANTS
  QueueHoldsNewest
PROPERTIES
  ImplementsFeed
  QueueDrains
CHECK_DEADLOCK FALSE
