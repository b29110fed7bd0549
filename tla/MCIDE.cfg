SPECIFICATION Spec
CONSTANTS
  Buses = 1
  Devices = 2
  Functions = 2
  ConfigSpace <- MCConfigSpace
  Byte = 4
  HeadSize = 2
  Heads = 2
  SectorsPerTrack = 3
  Configurations <- MCConfigurations
  MayFail = {"read"}
  MaxCalls = 2
INVARIANTS TypeOK DrivesFound
PROPERTIES ImplementsBlockDevice CallsReturn
CHECK_DEADLOCK FALSE
