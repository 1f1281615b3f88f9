SPECIFICATION FairSpec
CONSTANTS
  Tenants = {t1, t2}
  NoTenant = NoTenant
  Active = {t1, t2}
  Instances = {i1, i2}
  Requests = {r1}
  Clients = {i1, i2, r1}
  c1 = c1
  c2 = c2
  i1 = i1
  Conns = {c1, c2}
  NoConn = NoConn
  Pool <- OwnPool
  Silent = {t2}
  MaxPeriod = 1
  MaxFaults = 1
  MaxRotations = 1
INVARIANTS
  TypeOK
  ScopedExactly
  OwnTenantOnly
PROPERTIES
  SetUpIsSwept
  PassesEnd
