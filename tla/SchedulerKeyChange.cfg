SPECIFICATION Spec
CONSTANTS
  Tenants = {t1, t2}
  NoTenant = NoTenant
  Active = {t1, t2}
  Instances = {i1}
  Requests = {r1}
  Clients = {i1, r1}
  c1 = c1
  c2 = c2
  i1 = i1
  Conns = {c1, c2}
  NoConn = NoConn
  Pool <- OwnPool
  Silent = {}
  MaxPeriod = 0
  MaxFaults = 0
  MaxRotations = 1
INVARIANTS
  EveryTenantVisited
