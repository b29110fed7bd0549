CONSTANTS
  QueueSize = 3
  MaxStrokes = 4
  MaxResends = 4
  EarlyKeys = FALSE
  FastAnswer = FALSE
SPECIFICATION Spec
INVARIANTS
  TypeOK
  AnswersNeverKeys
  KeyboardInStep
  LampsFollowCaps
PROPERTIES
  QueueDrains
  EveryKeyHandled
CHECK_DEADLOCK FALSE
