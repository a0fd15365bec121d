SPECIFICATION InboundFairSpec
CONSTANTS
  m1 = m1
  r1 = r1
  w1 = w1
  w2 = w2
  NoEvent = NoEvent
  NoWorker = NoWorker
  Events = {m1, r1}
  Reports = {r1}
  Workers = {w1, w2}
  MaxAttempts = 2
  Overlapping = TRUE
  MayDieLast = FALSE
INVARIANTS
  InboundTypeOK
  IngestedOnce
PROPERTIES
  SettledByLatestClaim
  EveryEventSettles
CHECK_DEADLOCK FALSE
