CONSTANTS
  FrameCount = 32
  MemoryMaps <- ContiguousMaps
  MemoryStart = 5
SPECIFICATION Spec
INVARIANTS
  ExactlyUsable
  SoundBitmaps
PROPERTY
  Terminates
CHECK_DEADLOCK FALSE
