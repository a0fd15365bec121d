SPECIFICATION InboundFairSpec
CONSTANTS
  m1 = m1
  r1 = r1
  w1 = w1
  w2 = w2
  NoEvent = NoEvent
  NoWorker = NoWorker
  Events = {m1}
  Reports = {}
  Workers = {w1}
  MaxAttempts = 2
  Overlapping = TRUE
  MayDieLast = TRUE
PROPERTIES
  SpentIsAlerted
CHECK_DEADLOCK FALSE
