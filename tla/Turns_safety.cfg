SPECIFICATION TurnsFairSpec
CONSTANTS
  m1 = m1
  m2 = m2
  w1 = w1
  w2 = w2
  NoEvent = NoEvent
  NoWorker = NoWorker
  Events = {m1, m2}
  Reports = {}
  Workers = {w1, w2}
  MaxAttempts = 1
  Overlapping = TRUE
  MayDieLast = TRUE
  Debounce = TRUE
  Fair = FALSE
  MaxReplies = 2
  MaxEpoch = 3
INVARIANTS
  TurnsTypeOK
  OneAnswerPerMessage
  AnswersInOrder
  NobodyForgotten
PROPERTIES
  NoAnswerAcrossTakeover
  LastMessageAttended
CHECK_DEADLOCK FALSE
