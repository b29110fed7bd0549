CONSTANTS
  MaxFileHandles = 2
  SectorSize = 3
  ReservedSectors = 1
  FATCount = 2
  SectorsPerFAT = 1
  RootDirectoryEntries = 6
  SectorsPerCluster = 2
  Heads = 2
  Sectors = 4
  ClusterTable <- MCClusterTable
  DirectoryUnits <- MCDirectoryUnits
  Entries <- MCEntries
  ExtensionLength <- MCExtensionLength
  NoEntry = "none"
  Paths <- MCPaths
  Counts = {4, 9}
  MaxOpen = 2
  MayFail = {"search", "file"}
SPECIFICATION Spec
INVARIANTS
  TypeOK
  HandlesAccounted
  RootReady
PROPERTIES
  ImplementsFileSystem
  CallsReturn
