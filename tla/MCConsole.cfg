SPECIFICATION Spec
CONSTANTS
  Keys <- MCKeys
  Commands <- MCCommands
  MAX_CHARACTER_QUEUE_SIZE = 3
  MAX_EVENT_QUEUE_SIZE = 2
  SCREEN_WIDTH = 4
  SCREEN_HEIGHT = 3
  MaxStrokes = 4
INVARIANTS TypeOK EchoMatches KeysMatch
PROPERTY ImplementsKeyQueue
CHECK_DEADLOCK FALSE
