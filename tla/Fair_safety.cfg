SPECIFICATION FairSpec
CONSTANTS
  a1 = a1
  a2 = a2
  a3 = a3
  b1 = b1
  A = A
  B = B
  c1 = c1
  c2 = c2
  c3 = c3
  Jobs = {a1, a2, a3, b1}
  Orphans = {}
  Tenants = {A, B}
  TenantOf <- MCTenantOf
  ConvOf <- MCConvOf
  Processes = {p1, p2}
  MaxAttempts <- MCMaxAttempts
  Cap = 2
  TenantCap = 2
  ProcessCap = 2
SYMMETRY MCSymmetry
INVARIANTS
  FairTypeOK
  CallsWithinCaps
  BoundedOvertaking
  RepliesAreAwaited
