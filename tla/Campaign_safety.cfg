SPECIFICATION CampaignSpec
CONSTANTS
  c1 = c1
  c2 = c2
  k1 = k1
  k2 = k2
  r1 = r1
  r2 = r2
  None = None
  Runners = {r1, r2}
  Campaigns = {c1, c2}
  Contacts = {k1, k2}
  CampaignOf <- OneEach
  Position <- InOrder
  MaxConcurrent <- OneAtATime
  MaxAttempts <- Attempts
  TenantMax = 1
  MaxDialFailures = 2
INVARIANTS
  CampaignTypeOK
  CallsWithinCeilings
  OneCallAtATime
  DoneMeansDone
PROPERTIES
  SettledContactIsFinal
SYMMETRY Replicas
