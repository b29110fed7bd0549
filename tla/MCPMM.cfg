CONSTANTS
  FrameCount = 64
  BootBitmaps <- MCBootBitmaps
  Counts = {1, 4, 16}
  MaxGrants = 3
SPECIFICATION Spec
INVARIANTS
  TypeOK
  FramesSafe
  MaximallyCoalesced
PROPERTIES
  FailureChangesNothing
  ImplementsFrameAllocator
CHECK_DEADLOCK FALSE
