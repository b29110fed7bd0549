CONSTANTS
  Total = 12
  HalfPages = 6
  FirstPage = 7
  Counts = {1, 2, 3}
SPECIFICATION Spec
INVARIANTS
  TypeOK
  ListSound
  StructsSuffice
PROPERTIES
  ImplementsPageAllocator
  CallsReturn
