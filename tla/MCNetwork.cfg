SPECIFICATION Spec
CONSTANTS
  Frames <- MCFrames
  RingSize = 80
  RX_BUFFER_SIZE = 96
  TRANSMIT_REG_COUNT = 2
  NicLine = 11
  MaxFrames = 4
INVARIANTS TypeOK PacketsInOrder FramesLeaveInOrder
PROPERTY InterruptsServed
CHECK_DEADLOCK FALSE
