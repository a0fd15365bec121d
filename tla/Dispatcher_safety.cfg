SPECIFICATION DispatcherSpec
CONSTANTS
  i1 = i1
  o1 = o1
  t1 = t1
  Rooms = {i1, o1}
  Inbound = {i1}
  Outbound = {o1}
  Tenants = {t1}
  TenantOf <- OneTenant
  MaxActive = 1
  MaxPerTenant = 1
  MaxUnfinalized = 1
INVARIANTS
  DispatcherTypeOK
  AgentsWithinCapacity
  StartedIsAccounted
  CallerIsAttended
  DrainedMeansQuiet
