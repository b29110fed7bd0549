-------------------------------- MODULE FAT --------------------------------
(***************************************************************************)
(* The FAT12 reader of the boot loader, src/bootloader/stage2/fat.c, with  *)
(* the sector reads of disk.c: FAT_Open, FAT_Read and FAT_Close over a     *)
(* table of handles, each with a sector buffer.                            *)
(*                                                                         *)
(* A unit is 32 bytes, the size of a directory entry; the content of a     *)
(* unit is its place on the disk, <<sector, offset>>.  The model begins    *)
(* after a FAT_Initialize that succeeded.  One call runs at a time, step   *)
(* by step, and each read of a sector succeeds or fails after its three    *)
(* attempts.                                                               *)
(***************************************************************************)
EXTENDS Integers, Sequences, FiniteSets, SequencesExt, Functions

CONSTANTS
  MaxFileHandles,     \* MAX_FILE_HANDLES
  SectorSize,         \* in units
  ReservedSectors, FATCount, SectorsPerFAT, RootDirectoryEntries,
  SectorsPerCluster,  \* fields of the boot sector
  Heads, Sectors,     \* the geometry the BIOS reports
  ClusterTable,       \* cluster -> its 12 bits of the FAT
  DirectoryUnits,     \* <<sector, offset>> -> the entry stored there
  Entries,            \* entry -> [name, isDirectory, startCluster, size]
  ExtensionLength,    \* name -> the number of characters behind its first dot
  NoEntry,            \* any other content of a unit
  Paths,              \* sequences of names that callers open
  Counts,             \* how many units callers read at once
  MaxOpen,            \* how many files callers keep open
  MayFail             \* the kinds of disk reads that may fail

ASSUME GeometryAssumption ==
  /\ MaxFileHandles \in Nat \ {0} /\ SectorSize \in Nat \ {0}
  /\ SectorsPerCluster \in Nat \ {0} /\ Heads \in Nat \ {0} /\ Sectors \in Nat \ {0}
  /\ {ReservedSectors, FATCount, SectorsPerFAT} \subseteq Nat
  /\ RootDirectoryEntries \in Nat \ {0}
ASSUME CallersAssumption ==
  /\ MaxOpen \in Nat /\ Counts \subseteq Nat \ {0}
  /\ \A path \in Paths : path \in Seq(DOMAIN ExtensionLength) /\ path # <<>>
  /\ MayFail \subseteq {"search", "directory", "file", "read"}

\* ROOT_DIRECTORY_HANDLE: the root directory's data lie right before files[0],
\* so that index -1 of files is the root directory.
Root == -1
Handles == 0 .. (MaxFileHandles - 1)

RootDirLBA == ReservedSectors + SectorsPerFAT * FATCount
DataLBA == RootDirLBA + (RootDirectoryEntries + SectorSize - 1) \div SectorSize

VARIABLES
  files,   \* handle -> FAT_FileData, the root directory under Root
  call,    \* the call that runs; asked, from and astray are ghosts
  held,    \* ghost: handle -> the entry of the file a caller holds open
  answer   \* what the last call returned

vars == <<files, call, held, answer>>

\* What a caller asks for.
NoRequest == [op |-> "none"]
OpenRequest(path) == [op |-> "open", path |-> path]
ReadRequest(h, count) == [op |-> "read", handle |-> h, count |-> count]

NoCall == [op |-> "none", file |-> Root, path |-> <<>>, found |-> NoEntry,
           left |-> 0, out |-> <<>>, from |-> 0, error |-> FALSE,
           asked |-> NoRequest, astray |-> FALSE]

NoAnswer == [opened |-> {}, out |-> <<>>, error |-> FALSE]

ClosedFile == [opened |-> FALSE, isDirectory |-> FALSE, size |-> 0, position |-> 0,
               buffer |-> 0, firstCluster |-> 0, currentCluster |-> 0,
               currentSectorInCluster |-> 0]

\* FAT_Initialize
Init ==
  /\ files = [h \in Handles \cup {Root} |->
                IF h = Root
                THEN [opened |-> TRUE, isDirectory |-> TRUE,
                      size |-> RootDirectoryEntries, position |-> 0,
                      buffer |-> RootDirLBA, firstCluster |-> RootDirLBA,
                      currentCluster |-> RootDirLBA, currentSectorInCluster |-> 0]
                ELSE ClosedFile]
  /\ call = NoCall
  /\ held = [h \in Handles \cup {Root} |-> NoEntry]
  /\ answer = NoAnswer

Least(a, b) == IF a < b THEN a ELSE b

-----------------------------------------------------------------------------
(***************************************************************************)
(* Where things are on the disk.                                           *)
(***************************************************************************)
\* Mutant: heads are not taken modulo their number.
LBA2CHS_HeadNotReduced(lba) ==
  [cylinder |-> lba \div (Heads * Sectors),
   head |-> lba \div Sectors,
   sector |-> (lba % Sectors) + 1]

LBA2CHS(lba) == [cylinder |-> lba \div (Heads * Sectors),
                 head |-> (lba \div Sectors) % Heads,
                 sector |-> (lba % Sectors) + 1]

\* The BIOS's idea of an address on a disk of at most 1024 cylinders: x86.asm:187
\* hands it ten bits of the cylinder.
SectorAt(chs) == (chs.cylinder * Heads + chs.head) * Sectors + chs.sector - 1

ReadSector(lba) == SectorAt(LBA2CHS(lba))

ClusterToLBA(cluster) == DataLBA + (cluster - 2) * SectorsPerCluster

EndOfChain == 4088  \* 0xff8

\* A disk that was formatted and written properly: chains go on in the table or
\* end, entries begin in it, and no cluster's place is negative.
ASSUME DiskAssumption ==
  /\ \E k \in 0 .. (EndOfChain - 1) : DOMAIN ClusterTable = 0..k
  /\ \A c \in DOMAIN ClusterTable :
       ClusterTable[c] \in DOMAIN ClusterTable \cup (EndOfChain .. 4095)
  /\ \A e \in DOMAIN Entries :
       /\ Entries[e].startCluster \in DOMAIN ClusterTable
       /\ Entries[e].size \in Nat /\ Entries[e].isDirectory \in BOOLEAN
  /\ \A u \in DOMAIN DirectoryUnits : DirectoryUnits[u] \in DOMAIN Entries
  /\ NoEntry \notin DOMAIN Entries /\ ClusterToLBA(0) >= 0

\* The n-th group of four bits of the table as it lies in memory.
Nibble(n) == IF n \div 3 \in DOMAIN ClusterTable
             THEN (ClusterTable[n \div 3] \div <<1, 16, 256>>[(n % 3) + 1]) % 16
             ELSE 0

\* Mutant: the entries of odd clusters are not shifted.
NextCluster_NoShift(current) ==
  LET at == 2 * ((current * 3) \div 2)
  IN (Nibble(at) + 16 * Nibble(at + 1) + 256 * Nibble(at + 2) + 4096 * Nibble(at + 3)) % 4096

\* FAT_NextCluster: 16 bits are read from the byte an entry begins in.
NextCluster(current) ==
  LET at == 2 * ((current * 3) \div 2)
      unmasked == Nibble(at) + 16 * Nibble(at + 1) + 256 * Nibble(at + 2)
                  + 4096 * Nibble(at + 3)
  IN IF current % 2 = 0 THEN unmasked % 4096 ELSE unmasked \div 16

-----------------------------------------------------------------------------
(***************************************************************************)
(* FAT_Read: the number of units it takes on, and one round of its loop.   *)
(***************************************************************************)
\* The size of a directory is not known.
Clamped(f, count) == IF ~f.isDirectory \/ f.size > 0
                     THEN Least(count, f.size - f.position)
                     ELSE count

LeftInBuffer(f) == SectorSize - (f.position % SectorSize)

Units(f, take) == [n \in 1..take |-> <<f.buffer, (f.position % SectorSize) + n - 1>>]

\* Moves on to the sector behind the one in the buffer.
NextSector(h, f) ==
  IF h = Root THEN [f EXCEPT !.currentCluster = @ + 1]
  ELSE IF f.currentSectorInCluster + 1 >= SectorsPerCluster
  THEN [f EXCEPT !.currentSectorInCluster = 0, !.currentCluster = NextCluster(@)]
  ELSE [f EXCEPT !.currentSectorInCluster = @ + 1]

AtEnd(h, f) == h # Root /\ f.currentCluster >= EndOfChain

CurrentLBA(h, f) == ClusterToLBA(f.currentCluster)
                    + (IF h = Root THEN 0 ELSE f.currentSectorInCluster)

\* Taking this many units empties the buffer, and another sector is read.
Loads(h, f, take) == take = LeftInBuffer(f) /\ ~AtEnd(h, NextSector(h, f))

Stops(h, f, take, ok) == take = LeftInBuffer(f) /\ (AtEnd(h, NextSector(h, f)) \/ ~ok)

Advance(h, f, take, ok) ==
  LET moved == [f EXCEPT !.position = @ + take]
      next == NextSector(h, moved)
  IN IF take < LeftInBuffer(f) THEN moved
     ELSE IF AtEnd(h, next) THEN [next EXCEPT !.size = next.position]
     ELSE IF ~ok THEN next
     ELSE [next EXCEPT !.buffer = ReadSector(CurrentLBA(h, next))]

\* A disk read of this kind succeeds, or fails if it may.
Outcomes(kind) == IF kind \in MayFail THEN BOOLEAN ELSE {TRUE}

BeginRead(h, count) ==
  /\ call.op = "none" /\ held[h] # NoEntry
  /\ call' = [NoCall EXCEPT !.op = "read", !.file = h,
                            !.left = Clamped(files[h], count),
                            !.from = files[h].position,
                            !.asked = ReadRequest(h, count)]
  /\ answer' = NoAnswer
  /\ UNCHANGED <<files, held>>

ReadChunk ==
  LET h == call.file
      f == files[h]
      take == Least(call.left, LeftInBuffer(f))
  IN /\ call.op = "read" /\ call.left > 0
     /\ \E ok \in Outcomes("read") :
          /\ files' = [files EXCEPT ![h] = Advance(h, f, take, ok)]
          /\ call' = [call EXCEPT !.out = @ \o Units(f, take),
                                  !.left = IF Stops(h, f, take, ok) THEN 0 ELSE @ - take,
                                  !.error = Loads(h, f, take) /\ ~ok]
     /\ UNCHANGED <<held, answer>>

EndRead ==
  /\ call.op = "read" /\ call.left = 0
  /\ call' = NoCall
  /\ answer' = [opened |-> {}, out |-> call.out, error |-> call.error]
  /\ UNCHANGED <<files, held>>

-----------------------------------------------------------------------------
(***************************************************************************)
(* FAT_Close and FAT_Open.                                                 *)
(***************************************************************************)
\* Mutant: the root directory's cluster is not set back.
Closed_ClusterKept(fs, h) ==
  IF h = Root THEN [fs EXCEPT ![Root].position = 0] ELSE [fs EXCEPT ![h].opened = FALSE]

Closed(fs, h) ==
  IF h = Root
  THEN [fs EXCEPT ![Root].position = 0, ![Root].currentCluster = fs[Root].firstCluster]
  ELSE [fs EXCEPT ![h].opened = FALSE]

Close(h) ==
  /\ call.op = "none" /\ held[h] # NoEntry
  /\ files' = Closed(files, h)
  /\ held' = [held EXCEPT ![h] = NoEntry]
  /\ answer' = NoAnswer
  /\ UNCHANGED call

NumberOpen == Cardinality({ h \in DOMAIN held : held[h] # NoEntry })

BeginOpen(path) ==
  /\ call.op = "none" /\ NumberOpen < MaxOpen
  /\ call' = [NoCall EXCEPT !.op = "search", !.file = Root, !.path = path,
                            !.asked = OpenRequest(path)]
  /\ answer' = NoAnswer
  /\ UNCHANGED <<files, held>>

\* FAT_FindFile: a name is spread over the eleven characters of an entry so that
\* only an extension of three ends up where it belongs, and a name without one
\* is not copied at all.
Matches(name, entry) ==
  entry # NoEntry /\ Entries[entry].name = name /\ ExtensionLength[name] = 3

SearchedEntry ==
  LET f == files[call.file]
      unit == <<f.buffer, f.position % SectorSize>>
  IN IF unit \in DOMAIN DirectoryUnits THEN DirectoryUnits[unit] ELSE NoEntry

\* The buffer of the root directory is not that of its position: behind the first
\* sector fat.c:158 reads one of the data, and fat.c:257 leaves it in the buffer.
OutOfPlace(h, f) == h = Root /\ f.buffer # RootDirLBA + f.position \div SectorSize

\* Mutant: the position of a copy is advanced.
ReadEntry_OnCopy ==
  LET h == call.file
      f == files[h]
  IN /\ call.op = "search" /\ Clamped(f, 1) = 1
     /\ \E ok \in Outcomes("search") :
          /\ LET error == call.error \/ (Loads(h, f, 1) /\ ~ok)
                 astray == call.astray \/ OutOfPlace(h, f)
             IN call' = IF Matches(Head(call.path), SearchedEntry)
                        THEN [call EXCEPT !.op = "enter", !.found = SearchedEntry,
                                          !.error = error, !.astray = astray]
                        ELSE [call EXCEPT !.error = error, !.astray = astray]
     /\ UNCHANGED <<files, held, answer>>

\* FAT_ReadDirectoryEntry reads the next entry.
ReadEntry ==
  LET h == call.file
      f == files[h]
  IN /\ call.op = "search" /\ Clamped(f, 1) = 1
     /\ \E ok \in Outcomes("search") :
          /\ files' = [files EXCEPT ![h] = Advance(h, f, 1, ok)]
          /\ LET error == call.error \/ (Loads(h, f, 1) /\ ~ok)
                 astray == call.astray \/ OutOfPlace(h, f)
             IN call' = IF Matches(Head(call.path), SearchedEntry)
                        THEN [call EXCEPT !.op = "enter", !.found = SearchedEntry,
                                          !.error = error, !.astray = astray]
                        ELSE [call EXCEPT !.error = error, !.astray = astray]
     /\ UNCHANGED <<held, answer>>

Return(opened) ==
  /\ call' = NoCall
  /\ answer' = [opened |-> opened, out |-> <<>>, error |-> call.error]

\* Mutant: only the root directory is closed when the name is not in it.
NotFound_StaysOpen ==
  /\ call.op = "search" /\ Clamped(files[call.file], 1) = 0
  /\ files' = IF call.file = Root THEN Closed(files, Root) ELSE files
  /\ Return({})
  /\ UNCHANGED held

NotFound ==
  /\ call.op = "search" /\ Clamped(files[call.file], 1) = 0
  /\ files' = Closed(files, call.file)
  /\ Return({})
  /\ UNCHANGED held

\* The last handle that is not in use, or -1, which is the root directory's.
FreeHandle(fs) ==
  LET free == { h \in Handles : ~fs[h].opened }
  IN IF free = {} THEN Root ELSE CHOOSE h \in free : \A g \in free : g <= h

OpenedFile(f, e) ==
  [f EXCEPT !.firstCluster = Entries[e].startCluster,
            !.currentCluster = Entries[e].startCluster,
            !.currentSectorInCluster = 0,
            !.isDirectory = Entries[e].isDirectory,
            !.position = 0,
            !.size = Entries[e].size]

IsLast == Len(call.path) = 1

\* FAT_Close of the directory, then FAT_OpenEntry.
Enter ==
  LET closed == Closed(files, call.file)
      h == FreeHandle(closed)
      f == OpenedFile(closed[h], call.found)
      buffer == ReadSector(ClusterToLBA(f.currentCluster))
  IN /\ call.op = "enter"
     /\ files' = [closed EXCEPT ![h] = [f EXCEPT !.buffer = buffer, !.opened = TRUE]]
     /\ IF IsLast
        THEN /\ held' = [held EXCEPT ![h] = call.found]
             /\ Return({h})
        ELSE /\ call' = [call EXCEPT !.op = "search", !.file = h, !.path = Tail(@),
                                     !.found = NoEntry]
             /\ UNCHANGED <<held, answer>>

\* The first sector cannot be read.  FAT_Open does not test the NULL it gets for
\* a directory, and goes on with it: "lost".
EnterFails ==
  LET closed == Closed(files, call.file)
      h == FreeHandle(closed)
  IN /\ call.op = "enter"
     /\ FALSE \in Outcomes(IF IsLast THEN "file" ELSE "directory")
     /\ files' = [closed EXCEPT ![h] = OpenedFile(@, call.found)]
     /\ IF IsLast
        THEN /\ call' = NoCall
             /\ answer' = [opened |-> {}, out |-> <<>>, error |-> TRUE]
        ELSE call' = [call EXCEPT !.op = "lost"] /\ UNCHANGED answer
     /\ UNCHANGED held

-----------------------------------------------------------------------------
Step == ReadChunk \/ EndRead \/ ReadEntry \/ NotFound \/ Enter \/ EnterFails

Next == \/ Step
        \/ \E path \in Paths : BeginOpen(path)
        \/ \E h \in DOMAIN files : Close(h) \/ \E count \in Counts : BeginRead(h, count)

\* A call that has begun goes on.
Spec == Init /\ [][Next]_vars /\ WF_vars(Step)

-----------------------------------------------------------------------------
(***************************************************************************)
(* The files on the disk, read off the table and the directories.          *)
(***************************************************************************)
Clusters == DOMAIN ClusterTable

\* The chain that begins with a cluster, which has the number 0 in it, and the
\* number of its clusters.
ChainFrom(cluster) ==
  LET at[n \in 0..Cardinality(Clusters)] ==
        IF n = 0 THEN cluster
        ELSE LET before == at[n - 1]
             IN IF before \in Clusters THEN ClusterTable[before] ELSE before
  IN at

ChainLength(cluster) ==
  Cardinality({ n \in 0..Cardinality(Clusters) : ChainFrom(cluster)[n] \in Clusters })

\* The units of an entry's file, as many as it has: a directory fills its chain.
Content == [e \in DOMAIN Entries |->
  LET chain == ChainFrom(Entries[e].startCluster)
      length == IF Entries[e].isDirectory
                THEN ChainLength(Entries[e].startCluster) * SectorsPerCluster * SectorSize
                ELSE Entries[e].size
  IN [i \in 1..length |->
        LET n == (i - 1) \div SectorSize
        IN <<DataLBA + (chain[n \div SectorsPerCluster] - 2) * SectorsPerCluster
               + (n % SectorsPerCluster),
             (i - 1) % SectorSize>>]]

RootContent == [i \in 1..RootDirectoryEntries |->
                  <<RootDirLBA + ((i - 1) \div SectorSize), (i - 1) % SectorSize>>]

Named(units, name) == { e \in { DirectoryUnits[u] : u \in Range(units) \cap DOMAIN DirectoryUnits } :
                          Entries[e].name = name }

Subdirectory(units, name) ==
  LET found == { e \in Named(units, name) : Entries[e].isDirectory }
  IN IF found = {} THEN <<>> ELSE Content[CHOOSE e \in found : TRUE]

\* The contents of the directories on a path, from the root directory on.
Directories(path) ==
  LET at[n \in 0 .. (Len(path) - 1)] ==
        IF n = 0 THEN RootContent ELSE Subdirectory(at[n - 1], path[n])
  IN at

\* The entry a path leads to.
Resolve == [path \in Paths |->
  LET found == Named(Directories(path)[Len(path) - 1], Last(path))
  IN IF found = {} THEN NoEntry ELSE CHOOSE e \in found : TRUE]

-----------------------------------------------------------------------------
(***************************************************************************)
(* What the reader relies on and does not test.  The theorems say which of *)
(* these they need.                                                        *)
(***************************************************************************)
\* The number of clusters in the table, which no chain exceeds, and the chain of
\* an entry's file with the number of its clusters.
TableSize == Cardinality(Clusters)
Chain(e) == ChainFrom(Entries[e].startCluster)
Links(e) == ChainLength(Entries[e].startCluster)
HasUnits(e) == Entries[e].isDirectory \/ Entries[e].size > 0

\* What formatting and writing see to: the size of a directory is not given, a file
\* has the clusters its size needs, and the chain of one that has units ends.
ChainsFit ==
  \A e \in DOMAIN Entries :
    /\ Entries[e].isDirectory => Entries[e].size = 0
    /\ HasUnits(e) => Chain(e)[TableSize] \notin Clusters
    /\ ~Entries[e].isDirectory =>
         Entries[e].size <= Links(e) * SectorsPerCluster * SectorSize

\* The names on a path can be found, they are not ambiguous, and all but the last
\* are those of directories.
PathsFit ==
  \A path \in Paths : \A n \in 1..Len(path) :
    LET found == Named(Directories(path)[n - 1], path[n])
    IN /\ ExtensionLength[path[n]] = 3
       /\ \A e, g \in found : e = g
       /\ n < Len(path) => \A e \in found : Entries[e].isDirectory

\* One file more would take the root directory's place.
EnoughHandles == MaxOpen <= MaxFileHandles

-----------------------------------------------------------------------------
(***************************************************************************)
(* Properties.                                                             *)
(***************************************************************************)
TypeOK ==
  /\ \A h \in Handles \cup {Root} :
       /\ files[h].opened \in BOOLEAN /\ files[h].isDirectory \in BOOLEAN
       /\ files[h].position \in Nat /\ files[h].size \in Nat /\ files[h].buffer \in Nat
       /\ files[h].currentSectorInCluster \in 0 .. (SectorsPerCluster - 1)
       /\ h # Root => files[h].currentCluster \in DOMAIN ClusterTable
                        \/ files[h].currentCluster \in EndOfChain .. 4095
  /\ call.op \in {"none", "search", "enter", "read", "lost"}
  /\ call.file \in Handles \cup {Root} /\ call.left \in Nat /\ call.astray \in BOOLEAN

\* Whatever calls fail and on which way, a handle is in use exactly while a
\* caller holds it or a search goes on in its directory: FAT_Open leaves none
\* open behind it.
HandlesAccounted ==
  { h \in Handles : files[h].opened } =
    { h \in Handles : held[h] # NoEntry }
      \cup (IF call.op \in {"search", "enter"} THEN {call.file} \cap Handles ELSE {})

\* Through searches that find, miss or fail, in its first sector or behind it, the
\* root directory's cluster is the one of its position, and every path begins at
\* its first entry: no search takes its place or leaves it standing elsewhere.  (Its
\* buffer may be another's then: astray.)
RootReady ==
  /\ files[Root].isDirectory /\ files[Root].size = RootDirectoryEntries
  /\ files[Root].currentCluster = RootDirLBA + files[Root].position \div SectorSize
  /\ call.op = "none" => files[Root].position = 0

Abstract == INSTANCE FileSystem WITH
  None <- NoEntry,
  call <- call.asked,
  held <- [h \in Handles |-> held[h]],
  position <- [h \in Handles |-> IF held[h] = NoEntry THEN 0
                                 ELSE IF call.op = "read" /\ call.file = h THEN call.from
                                 ELSE files[h].position]

\* An open that read the root directory out of the buffer of another place may give
\* nothing, or the file of another entry.
WentAstray ==
  /\ call.astray
  /\ \/ \E error \in BOOLEAN : Abstract!GivesNothing(error)
     \/ \E e \in DOMAIN Entries : Abstract!Gives(e)

\* Callers get the files of the disk: an open the one its path leads to, and NULL
\* only for a path that leads nowhere or after an error of the disk, unless its
\* search of the root directory went astray; and a read always the units that come
\* next in the file that is open, as many as were asked for and are there, in their
\* order through sectors, clusters and chains.
ImplementsFileSystem == Abstract!Init /\ [][Abstract!Next \/ WentAstray]_(Abstract!vars)

\* Every call returns: no search or read goes on for ever in a chain.
CallsReturn == (call.op # "none") ~> (call.op = "none")
=============================================================================
