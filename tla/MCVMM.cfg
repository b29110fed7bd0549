CONSTANTS
  PageCount = 12
  TableSize = 2
  FirstPage = 8
  KernelTables <- MCKernelTables
  FrameCount = 32
  BootBitmaps <- MCBootBitmaps
  AllocateCounts = {1, 2, 4}
  ReserveCounts = {1}
  FreeCounts = {1}
SPECIFICATION TablesSpec
INVARIANTS
  TablesTypeOK
  FramesOwned
  TouchingIsSafe
  RunsContiguous
CHECK_DEADLOCK FALSE
