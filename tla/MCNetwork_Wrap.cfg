SPECIFICATION Spec
CONSTANTS
  Frames <- MCLongFrames
  RingSize = 32
  RX_BUFFER_SIZE = 48
  TRANSMIT_REG_COUNT = 2
  NicLine = 11
  MaxFrames = 4
INVARIANT PacketsInOrder
CHECK_DEADLOCK FALSE
