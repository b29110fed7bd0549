CONSTANTS
  QueueSize = 3
  MaxStrokes = 0
  MaxResends = 0
  EarlyKeys = FALSE
  FastAnswer = TRUE
SPECIFICATION Spec
INVARIANT
  AnswersNeverKeys
CHECK_DEADLOCK FALSE
