----------------------------- MODULE FAT_proofs -----------------------------
(***************************************************************************)
(* For every disk that was formatted properly and whichever reads fail:    *)
(* the arithmetic of the FAT12 reader finds the sectors and clusters it    *)
(* means, no handle leaks, the root directory is ready for the next path,  *)
(* and, as long as the sectors of files can be read, callers get the files *)
(* of the disk: the reader implements FileSystem.                          *)
(***************************************************************************)
EXTENDS FAT, FiniteSetTheorems, WellFoundedInduction, TLAPS

-----------------------------------------------------------------------------
(***************************************************************************)
(* The inductive invariant.                                                *)
(***************************************************************************)
AllFiles == Handles \cup {Root}

FileType == [opened : BOOLEAN, isDirectory : BOOLEAN, size : Nat, position : Nat, buffer : Nat,
             firstCluster : Nat, currentCluster : Nat,
             currentSectorInCluster : 0 .. (SectorsPerCluster - 1)]

CallType == [op : {"none", "search", "enter", "read", "lost"}, file : AllFiles,
             path : {call.path}, found : DOMAIN Entries \cup {NoEntry}, left : Nat,
             out : {call.out}, from : {call.from}, error : {call.error},
             asked : {call.asked}, astray : BOOLEAN]

\* The size of a file is known unless it is a directory that gives none.
SizeKnown(f) == ~f.isDirectory \/ f.size > 0

\* Nothing is read past the end, and at the end of its chain a file is read up.
Sound(h, f) ==
  /\ f \in FileType /\ (SizeKnown(f) => f.position <= f.size)
  /\ h # Root => \/ f.currentCluster \in DOMAIN ClusterTable
                 \/ /\ f.currentCluster \in EndOfChain .. 4095
                    /\ f.size > 0 /\ f.position = f.size

Types ==
  /\ files = [h \in AllFiles |-> files[h]] /\ \A h \in AllFiles : Sound(h, files[h])
  /\ held \in [AllFiles -> DOMAIN Entries \cup {NoEntry}]
  /\ call \in CallType
  /\ call.op = "enter" => call.found # NoEntry
  /\ call.op = "read" /\ SizeKnown(files[call.file]) =>
       call.left <= files[call.file].size - files[call.file].position

\* Between two steps of an open, its directory is open too.
Searched == IF call.op \in {"search", "enter"} THEN {call.file} \cap Handles ELSE {}

\* A handle is open for one reason only, and there is always one left to be
\* opened while an open goes on.
Accounts ==
  /\ \A h \in Handles : files[h].opened <=> held[h] # NoEntry \/ h \in Searched
  /\ \A h \in Searched : held[h] = NoEntry
  /\ held[Root] = NoEntry
  /\ NumberOpen <= MaxOpen /\ (call.op \in {"search", "enter"} => NumberOpen < MaxOpen)

\* The root directory's cluster is the one of its position.
RootStands(root) ==
  /\ root.isDirectory /\ root.size = RootDirectoryEntries /\ root.firstCluster = RootDirLBA
  /\ root.currentCluster = RootDirLBA + root.position \div SectorSize

\* It is read only by searches, and each begins at the first entry.
RootInv ==
  /\ RootStands(files[Root])
  /\ files[Root].position = 0 \/ (call.op \in {"search", "enter"} /\ call.file = Root)
  /\ call.op = "read" => call.file # Root

IInv == Types /\ Accounts /\ RootInv

-----------------------------------------------------------------------------
(***************************************************************************)
(* The arithmetic.                                                         *)
(***************************************************************************)
\* Taking a quotient and a remainder apart, and putting them together again.
LEMMA Division ==
  ASSUME NEW n \in Nat, NEW d \in Nat \ {0}
  PROVE  n \div d \in Nat /\ n % d \in 0..(d - 1) /\ n = d * (n \div d) + (n % d)
OBVIOUS

LEMMA Quotient ==
  ASSUME NEW d \in Nat \ {0}, NEW q \in Nat, NEW r \in 0..(d - 1)
  PROVE  (d * q + r) \div d = q
OBVIOUS

\* DISK_LBA2CHS takes a number apart so that the BIOS puts the same one together:
\* every sector that is read is the one that was asked for.
THEOREM SectorsAreFound ==
  ASSUME NEW lba \in Nat
  PROVE  ReadSector(lba) = lba
<1>1. Heads \in Nat \ {0} /\ Sectors \in Nat \ {0}
  BY GeometryAssumption
<1> PICK q, s : q = lba \div Sectors /\ s = lba % Sectors
  OBVIOUS
<1>2. q \in Nat /\ s \in 0..(Sectors - 1) /\ lba = Sectors * q + s
  BY <1>1, Division
<1> PICK c, h : c = q \div Heads /\ h = q % Heads
  OBVIOUS
<1>3. c \in Nat /\ h \in 0..(Heads - 1) /\ q = Heads * c + h
  BY <1>1, <1>2, Division
<1>4. lba \div (Heads * Sectors) = c
  <2> PICK d, r : d = Heads * Sectors /\ r = Sectors * h + s
    OBVIOUS
  <2>1. d \in Nat \ {0}
    BY <1>1
  <2>2. r \in 0..(d - 1)
    <3>1. Sectors * h <= Sectors * (Heads - 1)
      <4> PICK e : e = Heads - 1 - h
        OBVIOUS
      <4>0. e \in Nat /\ h + e = Heads - 1
        BY <1>1, <1>3
      <4>1. Sectors * (h + e) = Sectors * h + Sectors * e /\ Sectors * e \in Nat /\ Sectors * h \in Nat
        BY <1>1, <1>3, <4>0
      <4> QED BY <4>0, <4>1
    <3>2. Sectors * (Heads - 1) = d - Sectors
      BY <1>1
    <3>3. Sectors * h \in Nat
      BY <1>1, <1>3
    <3> QED BY <1>1, <1>2, <2>1, <3>1, <3>2, <3>3
  <2>3. lba = d * c + r
    <3>1. Sectors * (Heads * c + h) = (Heads * Sectors) * c + Sectors * h
      BY <1>1, <1>3
    <3>2. lba = Sectors * (Heads * c + h) + s
      BY <1>2, <1>3
    <3>3. (Heads * Sectors) * c \in Nat /\ Sectors * h \in Nat
      BY <1>1, <1>3
    <3> QED BY <1>2, <3>1, <3>2, <3>3
  <2>4. (d * c + r) \div d = c
    BY <1>3, <2>1, <2>2, Quotient
  <2> QED BY <2>3, <2>4, Zenon
<1>5. SectorAt(LBA2CHS(lba)) = (c * Heads + h) * Sectors + (s + 1) - 1
  BY <1>4 DEF SectorAt, LBA2CHS
<1>6. c * Heads + h = q /\ q * Sectors = Sectors * q
  <2>1. \A x, y \in Nat : x * y = y * x
    OBVIOUS
  <2> QED BY <1>1, <1>2, <1>3, <2>1
<1> QED BY <1>2, <1>5, <1>6 DEF ReadSector

LEMMA TableIs ==
  /\ 0 \in DOMAIN ClusterTable
  /\ \A c \in DOMAIN ClusterTable :
       /\ c \in Nat /\ c < EndOfChain
       /\ ClusterTable[c] \in Nat /\ ClusterTable[c] < 4096
       /\ ClusterTable[c] \in DOMAIN ClusterTable \/ ClusterTable[c] \in EndOfChain .. 4095
<1>1. PICK k \in 0 .. (EndOfChain - 1) : DOMAIN ClusterTable = 0..k
  BY DiskAssumption, Zenon
<1>2. EndOfChain \in Int /\ EndOfChain < 4096 /\ 0 < EndOfChain
  BY DEF EndOfChain
<1>3. k \in Nat /\ k < EndOfChain
  BY <1>2
<1>4. ASSUME NEW c \in DOMAIN ClusterTable PROVE c \in Nat /\ c < EndOfChain
  BY <1>1, <1>2, <1>3
<1>5. ASSUME NEW c \in DOMAIN ClusterTable
      PROVE  /\ ClusterTable[c] \in Nat /\ ClusterTable[c] < 4096
             /\ ClusterTable[c] \in DOMAIN ClusterTable \/ ClusterTable[c] \in EndOfChain .. 4095
  <2>1. PICK n : n = ClusterTable[c]
    OBVIOUS
  <2>2. n \in DOMAIN ClusterTable \/ n \in EndOfChain .. 4095
    BY <2>1, DiskAssumption
  <2>3. CASE n \in DOMAIN ClusterTable
    BY <1>2, <1>4, <2>1, <2>2, <2>3
  <2>4. CASE n \in EndOfChain .. 4095
    BY <1>2, <2>1, <2>2, <2>4
  <2> QED BY <2>2, <2>3, <2>4
<1> QED BY <1>1, <1>3, <1>4, <1>5

\* FAT_NextCluster reads the twelve bits of a cluster out of the two bytes they
\* are spread over, whether the cluster is even or odd.
THEOREM ClustersAreFound ==
  ASSUME NEW c \in DOMAIN ClusterTable
  PROVE  NextCluster(c) = ClusterTable[c]
<1>1. c \in Nat
  BY TableIs
<1>2. PICK v \in Nat : v = ClusterTable[c] /\ v < 4096
  BY TableIs
\* The three groups of four bits, and what lies beside them.
<1>3. /\ v = (v % 16) + 16 * ((v \div 16) % 16) + 256 * ((v \div 256) % 16)
      /\ v % 16 \in Int /\ (v \div 16) % 16 \in Int /\ (v \div 256) % 16 \in Int
  <2>1. v = 16 * (v \div 16) + (v % 16) /\ v \div 16 \in 0..255
    BY <1>2
  <2>2. (v \div 16) \div 16 = v \div 256
    OBVIOUS
  <2>3. v \div 16 = 16 * ((v \div 16) \div 16) + ((v \div 16) % 16)
    OBVIOUS
  <2>4. (v \div 256) % 16 = v \div 256
    BY <1>2
  <2> QED BY <2>1, <2>2, <2>3, <2>4
<1>4. \A w \in 0..15 : (v + 4096 * w) % 4096 = v /\ (w + 16 * v) \div 16 = v
  <2>1. v < 4096
    BY <1>2
  <2> QED BY <2>1
<1>5. \A n \in Nat : Nibble(n) \in 0..15
  <2> SUFFICES ASSUME NEW n \in Nat PROVE Nibble(n) \in 0..15
    OBVIOUS
  <2>1. ASSUME n \div 3 \in DOMAIN ClusterTable PROVE Nibble(n) \in 0..15
    <3>1. PICK w \in Nat : w = ClusterTable[n \div 3]
      BY <2>1, TableIs
    <3>2. PICK d \in {1, 16, 256} : d = <<1, 16, 256>>[(n % 3) + 1]
      <4>1. n % 3 = 0 \/ n % 3 = 1 \/ n % 3 = 2
        OBVIOUS
      <4> QED BY <4>1
    <3>3. (w \div d) % 16 \in 0..15
      OBVIOUS
    <3>4. Nibble(n) = (w \div d) % 16
      BY <2>1, <3>1, <3>2 DEF Nibble
    <3> QED BY <3>3, <3>4
  <2>2. ASSUME n \div 3 \notin DOMAIN ClusterTable PROVE Nibble(n) \in 0..15
    BY <2>2 DEF Nibble
  <2> QED BY <2>1, <2>2
<1>6. /\ Nibble(3 * c) = v % 16 /\ Nibble(3 * c + 1) = (v \div 16) % 16
      /\ Nibble(3 * c + 2) = (v \div 256) % 16
  <2>1. /\ (3 * c) \div 3 = c /\ (3 * c + 1) \div 3 = c /\ (3 * c + 2) \div 3 = c
        /\ (3 * c) % 3 = 0 /\ (3 * c + 1) % 3 = 1 /\ (3 * c + 2) % 3 = 2
    BY <1>1
  <2>2. v \div 1 = v
    OBVIOUS
  <2> QED BY <1>2, <2>1, <2>2 DEF Nibble
<1>7. c % 2 = 0 \/ c % 2 = 1
  BY <1>1
<1>8. ASSUME c % 2 = 0 PROVE NextCluster(c) = v
  <2>1. 2 * ((c * 3) \div 2) = 3 * c
    BY <1>1, <1>8
  <2>2. PICK w \in 0..15 : w = Nibble(3 * c + 3)
    BY <1>1, <1>5
  <2>3. NextCluster(c) = ((v % 16) + 16 * ((v \div 16) % 16) + 256 * ((v \div 256) % 16) + 4096 * w) % 4096
    BY <1>6, <1>8, <2>1, <2>2 DEF NextCluster
  <2>4. (v + 4096 * w) % 4096 = v
    BY <1>4
  <2> QED BY <1>3, <2>3, <2>4
<1>9. ASSUME c % 2 = 1 PROVE NextCluster(c) = v
  <2>1. 2 * ((c * 3) \div 2) = 3 * c - 1 /\ 3 * c - 1 \in Nat
    BY <1>1, <1>9
  <2>2. PICK at \in Nat : at = 3 * c - 1
    BY <2>1
  <2>3. at + 1 = 3 * c /\ at + 2 = 3 * c + 1 /\ at + 3 = 3 * c + 2
    BY <1>1, <2>2
  <2>4. PICK w \in 0..15 : w = Nibble(at)
    BY <1>5
  <2>5. NextCluster(c) = (w + 16 * (v % 16) + 256 * ((v \div 16) % 16) + 4096 * ((v \div 256) % 16)) \div 16
    BY <1>6, <1>9, <2>1, <2>2, <2>3, <2>4 DEF NextCluster
  <2>6. w + 16 * (v % 16) + 256 * ((v \div 16) % 16) + 4096 * ((v \div 256) % 16) = w + 16 * v
    <3> PICK x, y, z : x = v % 16 /\ y = (v \div 16) % 16 /\ z = (v \div 256) % 16
      OBVIOUS
    <3> QED BY <1>3
  <2>7. (w + 16 * v) \div 16 = v
    BY <1>4
  <2> QED BY <2>5, <2>6, <2>7
<1> QED BY <1>2, <1>7, <1>8, <1>9

\* Every sector a cluster names is on the disk.
LEMMA PlaceOfCluster ==
  ASSUME NEW c \in Nat
  PROVE  ClusterToLBA(c) \in Nat /\ RootDirLBA \in Nat
<1>1. SectorsPerCluster \in Nat \ {0} /\ SectorSize \in Nat \ {0}
  BY GeometryAssumption
<1>2. {ReservedSectors, FATCount, SectorsPerFAT, RootDirectoryEntries} \subseteq Nat
  BY GeometryAssumption
<1>3. RootDirLBA \in Nat
  BY <1>2 DEF RootDirLBA
<1>4. DataLBA \in Nat
  <2>1. (RootDirectoryEntries + SectorSize - 1) \div SectorSize \in Nat
    BY <1>1, <1>2
  <2> QED BY <1>3, <2>1 DEF DataLBA
<1>5. c * SectorsPerCluster \in Nat /\ (c - 2) * SectorsPerCluster = c * SectorsPerCluster - 2 * SectorsPerCluster
  BY <1>1
<1>6. (0 - 2) * SectorsPerCluster = 0 - 2 * SectorsPerCluster
  BY <1>1
<1>7. DataLBA + (0 - 2) * SectorsPerCluster >= 0
  BY DiskAssumption DEF ClusterToLBA
<1>8. DataLBA + (c - 2) * SectorsPerCluster \in Nat
  BY <1>1, <1>4, <1>5, <1>6, <1>7
<1> QED BY <1>3, <1>8 DEF ClusterToLBA

-----------------------------------------------------------------------------
(***************************************************************************)
(* What a round of the read loop does to a file.                           *)
(***************************************************************************)
LEMMA BufferIs ==
  ASSUME NEW f \in FileType
  PROVE  LeftInBuffer(f) \in 1..SectorSize
<1>1. SectorSize \in Nat \ {0} /\ f.position \in Nat
  BY GeometryAssumption DEF FileType
<1>2. f.position % SectorSize \in 0..(SectorSize - 1)
  BY <1>1, Division
<1> QED BY <1>1, <1>2 DEF LeftInBuffer

LEMMA AdvanceResult ==
  ASSUME NEW h \in AllFiles, NEW f \in FileType, h # Root => f.currentCluster \in DOMAIN ClusterTable,
         NEW take \in Nat \ {0}, take <= LeftInBuffer(f),
         SizeKnown(f) => take <= f.size - f.position,
         NEW ok \in BOOLEAN, NEW r, r = Advance(h, f, take, ok)
  PROVE  /\ Sound(h, r) /\ r.opened = f.opened /\ r.isDirectory = f.isDirectory
         /\ r.position = f.position + take
         /\ ~Stops(h, f, take, ok) => r.size = f.size
         /\ take < LeftInBuffer(f) => r = [f EXCEPT !.position = @ + take]
<1>1. PICK m : m = [f EXCEPT !.position = @ + take]
  OBVIOUS
<1>2. /\ m \in FileType /\ m.opened = f.opened /\ m.isDirectory = f.isDirectory /\ m.size = f.size
      /\ m.position = f.position + take /\ m.currentCluster = f.currentCluster
      /\ m.currentSectorInCluster = f.currentSectorInCluster
  BY <1>1 DEF FileType
<1>3. SizeKnown(f) => f.position + take <= f.size
  BY DEF FileType
<1>4. CASE take < LeftInBuffer(f)
  <2>1. r = m
    BY <1>1, <1>4 DEF Advance
  <2>2. ~Stops(h, f, take, ok) => r.size = f.size
    BY <1>2, <2>1
  <2>3. SizeKnown(r) => r.position <= r.size
    BY <1>2, <1>3, <2>1 DEF SizeKnown
  <2>4. Sound(h, r)
    BY <1>2, <2>1, <2>3 DEF Sound
  <2> QED BY <1>1, <1>2, <2>1, <2>2, <2>4
<1>5. CASE ~(take < LeftInBuffer(f))
  <2>1. take = LeftInBuffer(f)
    BY <1>5, BufferIs
  <2>2. PICK n : n = NextSector(h, m)
    OBVIOUS
  <2>3. SectorsPerCluster \in Nat \ {0}
    BY GeometryAssumption
  <2>4. /\ n \in FileType /\ n.opened = f.opened /\ n.isDirectory = f.isDirectory /\ n.size = f.size
        /\ n.position = f.position + take
        /\ n.currentCluster = NextSector(h, f).currentCluster
        /\ h # Root => \/ n.currentCluster \in DOMAIN ClusterTable
                       \/ n.currentCluster \in EndOfChain .. 4095
    <3>1. CASE h = Root
      BY <1>2, <2>2, <3>1 DEF NextSector, FileType
    <3>2. CASE h # Root /\ f.currentSectorInCluster + 1 >= SectorsPerCluster
      <4>1. PICK c : c = ClusterTable[f.currentCluster]
        OBVIOUS
      <4>2. c \in Nat /\ (c \in DOMAIN ClusterTable \/ c \in EndOfChain .. 4095)
        BY <3>2, <4>1, TableIs
      <4>3. NextCluster(f.currentCluster) = c /\ NextCluster(m.currentCluster) = c
        BY <1>2, <3>2, <4>1, ClustersAreFound
      <4>4. n = [m EXCEPT !.currentSectorInCluster = 0, !.currentCluster = c]
        BY <1>2, <2>2, <3>2, <4>3 DEF NextSector, FileType
      <4>5. NextSector(h, f).currentCluster = c
        BY <3>2, <4>3 DEF NextSector, FileType
      <4>6. 0 \in 0 .. (SectorsPerCluster - 1)
        BY <2>3
      <4>7. n \in FileType
        <5>1. c \in Nat
          BY <4>2
        <5>2. m \in FileType
          BY <1>2
        <5> QED BY <4>4, <4>6, <5>1, <5>2 DEF FileType
      <4>8. n.opened = f.opened /\ n.isDirectory = f.isDirectory /\ n.size = f.size /\ n.position = f.position + take
        BY <1>2, <4>4 DEF FileType
      <4>9. n.currentCluster = c
        BY <1>2, <4>4 DEF FileType
      <4> QED BY <4>2, <4>5, <4>7, <4>8, <4>9
    <3>3. CASE h # Root /\ ~(f.currentSectorInCluster + 1 >= SectorsPerCluster)
      <4>1. n = [m EXCEPT !.currentSectorInCluster = @ + 1]
        BY <1>2, <2>2, <3>3 DEF NextSector
      <4>2. NextSector(h, f).currentCluster = f.currentCluster
        BY <3>3 DEF NextSector, FileType
      <4>3. f.currentSectorInCluster + 1 \in 0 .. (SectorsPerCluster - 1)
        BY <2>3, <3>3 DEF FileType
      <4>4. n.currentCluster = f.currentCluster
        BY <1>2, <4>1 DEF FileType
      <4>5. /\ n \in FileType /\ n.opened = f.opened /\ n.isDirectory = f.isDirectory /\ n.size = f.size
            /\ n.position = f.position + take
        BY <1>2, <4>1, <4>3 DEF FileType
      <4> QED BY <3>3, <4>2, <4>4, <4>5
    <3> QED BY <3>1, <3>2, <3>3
  <2>5. AtEnd(h, n) <=> AtEnd(h, NextSector(h, f))
    BY <2>4 DEF AtEnd
  <2>6. CASE AtEnd(h, n)
    <3>1. r = [n EXCEPT !.size = n.position]
      BY <1>1, <1>5, <2>2, <2>6 DEF Advance
    <3>2. Stops(h, f, take, ok)
      BY <2>1, <2>5, <2>6 DEF Stops
    <3>3. h # Root /\ n.currentCluster \in EndOfChain .. 4095
      <4>1. h # Root /\ n.currentCluster >= EndOfChain
        BY <2>6 DEF AtEnd
      <4>2. ~(n.currentCluster \in DOMAIN ClusterTable)
        <5>1. \A c \in DOMAIN ClusterTable : c \in Nat /\ c < EndOfChain
          BY TableIs
        <5>2. EndOfChain \in Nat
          BY DEF EndOfChain
        <5> QED BY <4>1, <5>1, <5>2
      <4> QED BY <2>4, <4>1, <4>2
    <3>4. /\ r \in FileType /\ r.opened = f.opened /\ r.isDirectory = f.isDirectory
          /\ r.position = f.position + take /\ r.size = r.position /\ r.size > 0
          /\ r.currentCluster = n.currentCluster
      BY <2>4, <3>1 DEF FileType
    <3>5. r.position <= r.size
      BY <3>4 DEF FileType
    <3>6. Sound(h, r)
      BY <3>3, <3>4, <3>5 DEF Sound
    <3> QED BY <1>5, <3>2, <3>4, <3>6
  <2>7. CASE ~AtEnd(h, n)
    <3>1. h # Root => n.currentCluster \in DOMAIN ClusterTable
      <4>1. h # Root => n.currentCluster \notin EndOfChain .. 4095
        BY <2>7 DEF AtEnd, EndOfChain
      <4> QED BY <2>4, <4>1
    <3>2. r = n \/ r = [n EXCEPT !.buffer = ReadSector(CurrentLBA(h, n))]
      BY <1>1, <1>5, <2>2, <2>7 DEF Advance
    <3>3. ReadSector(CurrentLBA(h, n)) \in Nat
      <4>1. CurrentLBA(h, n) \in Nat
        <5>1. n.currentCluster \in Nat /\ n.currentSectorInCluster \in Nat
          BY <2>3, <2>4 DEF FileType
        <5>2. ClusterToLBA(n.currentCluster) \in Nat
          BY <5>1, PlaceOfCluster
        <5> QED BY <5>1, <5>2 DEF CurrentLBA
      <4> QED BY <4>1, SectorsAreFound
    <3>4. /\ r \in FileType /\ r.opened = f.opened /\ r.isDirectory = f.isDirectory
          /\ r.position = f.position + take /\ r.size = f.size
          /\ r.currentCluster = n.currentCluster
      BY <2>4, <3>2, <3>3 DEF FileType
    <3>5. SizeKnown(r) => r.position <= r.size
      BY <1>3, <3>4 DEF SizeKnown
    <3>6. Sound(h, r)
      BY <3>1, <3>4, <3>5 DEF Sound
    <3> QED BY <1>5, <3>4, <3>6
  <2> QED BY <2>6, <2>7
<1> QED BY <1>4, <1>5

\* A file that has just been opened or closed.
LEMMA OpenedSound ==
  ASSUME NEW h, NEW f \in FileType, NEW e \in DOMAIN Entries, NEW r, r = OpenedFile(f, e)
  PROVE  /\ Sound(h, r) /\ r.opened = f.opened
         /\ ReadSector(ClusterToLBA(r.currentCluster)) \in Nat
         /\ \A b \in Nat : LET o == [r EXCEPT !.buffer = b, !.opened = TRUE] IN Sound(h, o) /\ o.opened
<1>1. /\ Entries[e].startCluster \in DOMAIN ClusterTable
      /\ Entries[e].size \in Nat /\ Entries[e].isDirectory \in BOOLEAN
  BY DiskAssumption
<1>2. PICK c \in Nat, s \in Nat, d \in BOOLEAN :
        c = Entries[e].startCluster /\ s = Entries[e].size /\ d = Entries[e].isDirectory
  BY <1>1, TableIs
<1>3. 0 \in 0 .. (SectorsPerCluster - 1)
  BY GeometryAssumption
<1>4. r = [f EXCEPT !.firstCluster = c, !.currentCluster = c, !.currentSectorInCluster = 0,
                    !.isDirectory = d, !.position = 0, !.size = s]
  BY <1>2 DEF OpenedFile
<1>5. r \in FileType /\ r.position = 0 /\ r.size = s /\ r.currentCluster = c /\ r.opened = f.opened
  <2>1. c \in Nat /\ s \in Nat /\ d \in BOOLEAN /\ 0 \in Nat
    BY <1>2
  <2>2. r \in FileType
    BY <1>3, <1>4, <2>1 DEF FileType
  <2>3. r.position = 0 /\ r.size = s /\ r.currentCluster = c /\ r.opened = f.opened
    BY <1>4 DEF FileType
  <2> QED BY <2>2, <2>3
<1>6. Sound(h, r)
  BY <1>1, <1>2, <1>5 DEF Sound
<1>7. ReadSector(ClusterToLBA(r.currentCluster)) \in Nat
  BY <1>5, PlaceOfCluster, SectorsAreFound
<1>8. ASSUME NEW b \in Nat, NEW o, o = [r EXCEPT !.buffer = b, !.opened = TRUE]
      PROVE  Sound(h, o) /\ o.opened
  <2>1. /\ o \in FileType /\ o.opened /\ o.position = r.position /\ o.size = r.size
        /\ o.currentCluster = r.currentCluster /\ o.isDirectory = r.isDirectory
    BY <1>5, <1>8 DEF FileType
  <2> QED BY <1>6, <2>1 DEF Sound, SizeKnown
<1> QED BY <1>5, <1>6, <1>7, <1>8

SoundFiles(c) == c = [g \in AllFiles |-> c[g]] /\ \A g \in AllFiles : Sound(g, c[g])

LEMMA ClosedResult ==
  ASSUME Types, NEW h \in AllFiles, NEW c, c = Closed(files, h)
  PROVE  /\ SoundFiles(c)
         /\ h \in Handles => c[h].opened = FALSE
         /\ h = Root => c[Root] = [files[Root] EXCEPT !.position = 0, !.currentCluster = files[Root].firstCluster]
<1>1. files = [g \in AllFiles |-> files[g]] /\ \A g \in AllFiles : Sound(g, files[g])
  BY DEF Types
<1>2. Root \notin Handles /\ Root \in AllFiles
  BY GeometryAssumption DEF Root, Handles, AllFiles
<1>3. CASE h = Root
  <2>1. PICK f : f = files[Root]
    OBVIOUS
  <2>2. c = [files EXCEPT ![Root].position = 0, ![Root].currentCluster = f.firstCluster]
    BY <1>3, <2>1 DEF Closed
  <2>3. PICK r : r = [f EXCEPT !.position = 0, !.currentCluster = f.firstCluster]
    OBVIOUS
  <2>4. c = [g \in AllFiles |-> IF g = Root THEN r ELSE files[g]]
    BY <1>1, <1>2, <2>1, <2>2, <2>3
  <2>5. f \in FileType
    BY <1>1, <1>2, <2>1 DEF Sound
  <2>6. r \in FileType /\ r.position = 0 /\ r.size \in Nat
    BY <2>3, <2>5 DEF FileType
  <2>7. Sound(Root, r)
    BY <2>6 DEF Sound
  <2>8. SoundFiles(c)
    BY <1>1, <1>2, <2>4, <2>7 DEF SoundFiles
  <2> QED BY <1>2, <1>3, <2>1, <2>3, <2>4, <2>8
<1>4. CASE h # Root
  <2>1. PICK f : f = files[h]
    OBVIOUS
  <2>2. PICK r : r = [f EXCEPT !.opened = FALSE]
    OBVIOUS
  <2>3. c = [files EXCEPT ![h].opened = FALSE]
    BY <1>4 DEF Closed
  <2>4. c = [g \in AllFiles |-> IF g = h THEN r ELSE files[g]]
    BY <1>1, <2>1, <2>2, <2>3
  <2>5. Sound(h, f) /\ f \in FileType
    BY <1>1, <2>1 DEF Sound
  <2>6. /\ r \in FileType /\ r.opened = FALSE /\ r.position = f.position /\ r.size = f.size
        /\ r.isDirectory = f.isDirectory /\ r.currentCluster = f.currentCluster
    BY <2>2, <2>5 DEF FileType
  <2>7. Sound(h, r)
    BY <2>5, <2>6 DEF Sound, SizeKnown
  <2>8. SoundFiles(c)
    BY <1>1, <2>4, <2>7 DEF SoundFiles
  <2> QED BY <1>4, <2>4, <2>6, <2>8
<1> QED BY <1>3, <1>4

LEMMA OthersStay ==
  ASSUME Types, NEW h \in AllFiles, NEW g \in AllFiles, g # h
  PROVE  Closed(files, h)[g] = files[g]
<1>1. files = [d \in AllFiles |-> files[d]]
  BY DEF Types
<1>2. CASE h = Root
  <2> PICK f, q : f = files[Root].firstCluster /\ q = [files EXCEPT ![Root].position = 0]
    OBVIOUS
  <2>1. Closed(files, h) = [q EXCEPT ![Root].currentCluster = f]
    BY <1>2 DEF Closed
  <2> QED BY <1>1, <1>2, <2>1
<1>3. CASE h # Root
  <2>1. Closed(files, h) = [files EXCEPT ![h].opened = FALSE]
    BY <1>3 DEF Closed
  <2> QED BY <1>1, <2>1
<1> QED BY <1>2, <1>3

\* The handle that is taken is the last free one, or the root directory's.
LEMMA FreeHandleIs ==
  ASSUME NEW fs
  PROVE  /\ FreeHandle(fs) \in AllFiles
         /\ FreeHandle(fs) # Root => FreeHandle(fs) \in Handles /\ ~fs[FreeHandle(fs)].opened
         /\ (\E h \in Handles : ~fs[h].opened) => FreeHandle(fs) \in Handles
<1> DEFINE free == { h \in Handles : ~fs[h].opened }
<1>1. CASE free = {}
  BY <1>1 DEF FreeHandle, AllFiles
<1>2. CASE free # {}
  <2>1. MaxFileHandles \in Nat \ {0} /\ free \subseteq 0 .. (MaxFileHandles - 1)
    BY GeometryAssumption DEF Handles
  <2> DEFINE behind == { n \in Nat : MaxFileHandles - n \in free }
  <2>2. behind \in SUBSET Nat /\ behind # {}
    <3>1. PICK h \in free : TRUE
      BY <1>2
    <3>2. MaxFileHandles - h \in Nat /\ MaxFileHandles - (MaxFileHandles - h) = h
      BY <2>1
    <3> QED BY <3>2
  <2>3. PICK b \in behind : \A t \in behind : <<t, b>> \notin OpToRel(<, Nat)
    BY <2>2, NatLessThanWellFounded, WFMin, Zenon
  <2>4. \A t \in behind : ~(t < b)
    BY <2>2, <2>3, Zenon DEF OpToRel
  <2>5. MaxFileHandles - b \in free /\ \A g \in free : g <= MaxFileHandles - b
    <3> SUFFICES ASSUME NEW g \in free PROVE g <= MaxFileHandles - b
      OBVIOUS
    <3>1. MaxFileHandles - g \in Nat /\ MaxFileHandles - (MaxFileHandles - g) = g
      BY <2>1
    <3>2. ~(MaxFileHandles - g < b) /\ b \in Nat
      BY <2>4, <3>1
    <3> QED BY <2>1, <3>1, <3>2
  <2>6. \E h \in free : \A g \in free : g <= h
    BY <2>5
  <2>7. FreeHandle(fs) \in free
    BY <1>2, <2>6 DEF FreeHandle
  <2> QED BY <2>7 DEF AllFiles
<1> QED BY <1>1, <1>2
-----------------------------------------------------------------------------
(***************************************************************************)
(* Types is inductive: one lemma for each action.                          *)
(***************************************************************************)
LEMMA FilesAre ==
  ASSUME Types
  PROVE  /\ DOMAIN files = AllFiles /\ Root \in AllFiles /\ Root \notin Handles
         /\ \A h \in AllFiles : files[h] \in FileType /\ Sound(h, files[h])
         /\ call.file \in AllFiles /\ call.left \in Nat /\ call.found \in DOMAIN Entries \cup {NoEntry}
         /\ call.astray \in BOOLEAN
<1>1. Root \in AllFiles /\ Root \notin Handles
  BY GeometryAssumption DEF AllFiles, Root, Handles
<1>2. DOMAIN files = AllFiles /\ \A h \in AllFiles : files[h] \in FileType /\ Sound(h, files[h])
  BY DEF Types, Sound
<1>3. call \in CallType
  BY DEF Types
<1>4. call.file \in AllFiles /\ call.left \in Nat /\ call.found \in DOMAIN Entries \cup {NoEntry}
  BY <1>3 DEF CallType
<1>5. call.astray \in BOOLEAN
  BY <1>3 DEF CallType
<1> QED BY <1>1, <1>2, <1>4, <1>5

\* What makes the types hold again after a step.
LEMMA TypesKept ==
  ASSUME files' = [h \in AllFiles |-> files'[h]], \A h \in AllFiles : Sound(h, files'[h]),
         held' \in [AllFiles -> DOMAIN Entries \cup {NoEntry}],
         NEW op \in {"none", "search", "enter", "read", "lost"}, NEW file \in AllFiles, NEW path,
         NEW found \in DOMAIN Entries \cup {NoEntry}, NEW left \in Nat, NEW out, NEW from, NEW error,
         NEW asked, NEW astray \in BOOLEAN,
         call' = [op |-> op, file |-> file, path |-> path, found |-> found, left |-> left,
                  out |-> out, from |-> from, error |-> error, asked |-> asked, astray |-> astray],
         op = "enter" => found # NoEntry,
         op = "read" /\ SizeKnown(files'[file]) => left <= files'[file].size - files'[file].position
  PROVE  Types'
<1>1. /\ call'.op = op /\ call'.file = file /\ call'.found = found /\ call'.left = left
      /\ call'.path = path /\ call'.out = out /\ call'.from = from /\ call'.error = error
      /\ call'.asked = asked /\ call'.astray = astray
  OBVIOUS
<1>2. (call \in CallType)'
  BY <1>1 DEF CallType
<1>3. (\A h \in AllFiles : Sound(h, files[h]))'
  OBVIOUS
<1>4. (files = [h \in AllFiles |-> files[h]] /\ held \in [AllFiles -> DOMAIN Entries \cup {NoEntry}])'
  OBVIOUS
<1>5. (SizeKnown(files[call.file]))' = SizeKnown(files'[file])
  BY <1>1 DEF SizeKnown
<1> QED BY <1>1, <1>2, <1>3, <1>4, <1>5 DEF Types

\* A read or a search takes what is there, and only from sectors of the file.
LEMMA ReadingIsSound ==
  ASSUME NEW h \in AllFiles, NEW f, Sound(h, f), NEW take \in Nat \ {0},
         SizeKnown(f) => take <= f.size - f.position
  PROVE  f \in FileType /\ (h # Root => f.currentCluster \in DOMAIN ClusterTable)
BY DEF Sound, FileType, SizeKnown

LEMMA ClampedIs ==
  ASSUME NEW h, NEW f, Sound(h, f), NEW count \in Nat
  PROVE  /\ Clamped(f, count) \in Nat /\ Clamped(f, count) <= count
         /\ SizeKnown(f) => Clamped(f, count) <= f.size - f.position
<1>1. f.size \in Nat /\ f.position \in Nat /\ (SizeKnown(f) => f.position <= f.size)
  BY DEF Sound, FileType
<1> QED BY <1>1 DEF Clamped, SizeKnown, Least

LEMMA NoCallIs ==
  NoCall = [op |-> "none", file |-> Root, path |-> <<>>, found |-> NoEntry,
            left |-> 0, out |-> <<>>, from |-> 0, error |-> FALSE,
            asked |-> NoRequest, astray |-> FALSE]
BY DEF NoCall

LEMMA BeginReadTypes ==
  ASSUME Types, NEW h \in AllFiles, NEW count \in Counts, BeginRead(h, count)
  PROVE  Types'
<1>1. files' = files /\ held' = held
  BY DEF BeginRead
<1>2. count \in Nat
  BY CallersAssumption
<1>3. PICK left : left = Clamped(files[h], count)
  OBVIOUS
<1>4. PICK from : from = files[h].position
  OBVIOUS
<1>5. left \in Nat /\ (SizeKnown(files[h]) => left <= files[h].size - files[h].position)
  BY <1>2, <1>3, FilesAre, ClampedIs
<1>6. call' = [op |-> "read", file |-> h, path |-> <<>>, found |-> NoEntry,
               left |-> left, out |-> <<>>, from |-> from, error |-> FALSE,
               asked |-> ReadRequest(h, count), astray |-> FALSE]
  BY <1>3, <1>4 DEF BeginRead, NoCall
<1>7. files' = [g \in AllFiles |-> files'[g]] /\ (\A g \in AllFiles : Sound(g, files'[g]))
  BY <1>1 DEF Types
<1>8. held' \in [AllFiles -> DOMAIN Entries \cup {NoEntry}]
  BY <1>1 DEF Types
<1> QED BY <1>1, <1>5, <1>6, <1>7, <1>8, TypesKept

LEMMA ReadChunkTypes ==
  ASSUME Types, ReadChunk
  PROVE  Types'
<1>1. PICK h, f : h \in AllFiles /\ h = call.file /\ f = files[h] /\ Sound(h, f) /\ f \in FileType
  BY FilesAre
<1>2. call.op = "read" /\ call.left \in Nat \ {0}
  BY FilesAre DEF ReadChunk
<1>3. PICK take : take = Least(call.left, LeftInBuffer(f))
  OBVIOUS
<1>4. take \in Nat \ {0} /\ take <= LeftInBuffer(f) /\ take <= call.left
  <2>1. LeftInBuffer(f) \in Nat \ {0}
    BY <1>1, BufferIs, GeometryAssumption
  <2> QED BY <1>2, <1>3, <2>1 DEF Least
<1>5. SizeKnown(f) => call.left <= f.size - f.position
  BY <1>1, <1>2 DEF Types
<1>6. f.size \in Nat /\ f.position \in Nat
  BY <1>1 DEF FileType
<1>7. SizeKnown(f) => take <= f.size - f.position
  BY <1>2, <1>4, <1>5, <1>6
<1>8. PICK ok \in BOOLEAN :
        /\ files' = [files EXCEPT ![h] = Advance(h, f, take, ok)]
        /\ call' = [call EXCEPT !.out = @ \o Units(f, take),
                                !.left = IF Stops(h, f, take, ok) THEN 0 ELSE @ - take,
                                !.error = Loads(h, f, take) /\ ~ok]
  <2>1. PICK ok \in Outcomes("read") :
          /\ files' = [files EXCEPT ![h] = Advance(h, f, take, ok)]
          /\ call' = [call EXCEPT !.out = @ \o Units(f, take),
                                  !.left = IF Stops(h, f, take, ok) THEN 0 ELSE @ - take,
                                  !.error = Loads(h, f, take) /\ ~ok]
    BY <1>1, <1>3 DEF ReadChunk
  <2>2. ok \in BOOLEAN
    BY DEF Outcomes
  <2> QED BY <2>1, <2>2
<1>9. PICK r : r = Advance(h, f, take, ok)
  OBVIOUS
<1>10. /\ Sound(h, r) /\ r.isDirectory = f.isDirectory /\ r.position = f.position + take
       /\ ~Stops(h, f, take, ok) => r.size = f.size
  BY <1>1, <1>4, <1>7, <1>9, ReadingIsSound, AdvanceResult
<1>11. files' = [g \in AllFiles |-> IF g = h THEN r ELSE files[g]]
  BY <1>1, <1>8, <1>9 DEF Types
<1>12. PICK left : left = IF Stops(h, f, take, ok) THEN 0 ELSE call.left - take
  OBVIOUS
<1>13. left \in Nat
  BY <1>2, <1>4, <1>12
<1>14. SizeKnown(r) => left <= r.size - r.position
  <2>1. r.size \in Nat /\ r.position \in Nat /\ (SizeKnown(r) => r.position <= r.size)
    BY <1>10 DEF Sound, FileType
  <2>2. CASE Stops(h, f, take, ok)
    BY <1>12, <2>1, <2>2
  <2>3. CASE ~Stops(h, f, take, ok)
    <3>1. SizeKnown(r) <=> SizeKnown(f)
      BY <1>10, <2>3 DEF SizeKnown
    <3> QED BY <1>2, <1>4, <1>5, <1>6, <1>10, <1>12, <2>3, <3>1
  <2> QED BY <2>2, <2>3
<1>15. PICK out, error : out = call.out \o Units(f, take) /\ error = (Loads(h, f, take) /\ ~ok)
  OBVIOUS
<1>16. call' = [op |-> "read", file |-> h, path |-> call.path, found |-> call.found,
                left |-> left, out |-> out, from |-> call.from, error |-> error,
                asked |-> call.asked, astray |-> call.astray]
  <2>1. call' = [call EXCEPT !.out = out, !.left = left, !.error = error]
    <3>1. call \in CallType
      BY DEF Types
    <3> QED BY <1>8, <1>12, <1>15, <3>1 DEF CallType
  <2>2. call \in CallType
    BY DEF Types
  <2> QED BY <1>1, <1>2, <2>1, <2>2 DEF CallType
<1>17. files' = [g \in AllFiles |-> files'[g]] /\ files'[h] = r /\ (\A g \in AllFiles : Sound(g, files'[g]))
  BY <1>1, <1>10, <1>11, FilesAre
<1>18. held' \in [AllFiles -> DOMAIN Entries \cup {NoEntry}]
  BY DEF Types, ReadChunk
<1>19. call.found \in DOMAIN Entries \cup {NoEntry} /\ h \in AllFiles /\ call.astray \in BOOLEAN
  BY <1>1, FilesAre
<1> QED BY <1>13, <1>14, <1>16, <1>17, <1>18, <1>19, TypesKept

\* The call is over.
LEMMA ReturnTypes ==
  ASSUME Types, files' = [h \in AllFiles |-> files'[h]], \A h \in AllFiles : Sound(h, files'[h]),
         held' \in [AllFiles -> DOMAIN Entries \cup {NoEntry}], call' = NoCall
  PROVE  Types'
<1>1. Root \in AllFiles
  BY FilesAre
<1> QED BY <1>1, NoCallIs, TypesKept

LEMMA EndReadTypes ==
  ASSUME Types, EndRead
  PROVE  Types'
<1>1. files' = files /\ held' = held /\ call' = NoCall
  BY DEF EndRead
<1>2. files' = [h \in AllFiles |-> files'[h]] /\ (\A h \in AllFiles : Sound(h, files'[h]))
  BY <1>1 DEF Types
<1>3. held' \in [AllFiles -> DOMAIN Entries \cup {NoEntry}]
  BY <1>1 DEF Types
<1> QED BY <1>1, <1>2, <1>3, ReturnTypes

LEMMA CloseTypes ==
  ASSUME Types, NEW h \in AllFiles, Close(h)
  PROVE  Types'
<1>1. files' = Closed(files, h) /\ held' = [held EXCEPT ![h] = NoEntry]
  BY DEF Close
<1>2. call.op = "none" /\ call' = call
  BY DEF Close
<1>3. PICK c : c = Closed(files, h)
  OBVIOUS
<1>4. c = [g \in AllFiles |-> c[g]] /\ \A g \in AllFiles : Sound(g, c[g])
  <2>1. SoundFiles(c)
    BY <1>3, ClosedResult
  <2> QED BY <2>1 DEF SoundFiles
<1>5. files' = [g \in AllFiles |-> files'[g]] /\ (\A g \in AllFiles : Sound(g, files'[g]))
  BY <1>1, <1>3, <1>4
<1>6. held' \in [AllFiles -> DOMAIN Entries \cup {NoEntry}]
  BY <1>1 DEF Types
<1>7. (call \in CallType)'
  BY <1>2 DEF Types, CallType
<1> QED BY <1>2, <1>5, <1>6, <1>7 DEF Types

LEMMA BeginOpenTypes ==
  ASSUME Types, NEW path, BeginOpen(path)
  PROVE  Types'
<1>1. files' = files /\ held' = held
  BY DEF BeginOpen
<1>2. call' = [op |-> "search", file |-> Root, path |-> path, found |-> NoEntry,
               left |-> 0, out |-> <<>>, from |-> 0, error |-> FALSE,
               asked |-> OpenRequest(path), astray |-> FALSE]
  BY DEF BeginOpen, NoCall
<1>3. files' = [h \in AllFiles |-> files'[h]] /\ (\A h \in AllFiles : Sound(h, files'[h]))
  BY <1>1 DEF Types
<1>4. held' \in [AllFiles -> DOMAIN Entries \cup {NoEntry}]
  BY <1>1 DEF Types
<1>5. Root \in AllFiles
  BY FilesAre
<1> QED BY <1>2, <1>3, <1>4, <1>5, TypesKept

\* An entry that a search reads is one of the disk's, or no file's.
LEMMA SearchedIs == SearchedEntry \in DOMAIN Entries \cup {NoEntry}
<1>1. PICK u : u = <<files[call.file].buffer, files[call.file].position % SectorSize>>
  OBVIOUS
<1>2. SearchedEntry = IF u \in DOMAIN DirectoryUnits THEN DirectoryUnits[u] ELSE NoEntry
  BY <1>1 DEF SearchedEntry
<1>3. u \in DOMAIN DirectoryUnits => DirectoryUnits[u] \in DOMAIN Entries
  BY DiskAssumption
<1> QED BY <1>2, <1>3

\* What a round of a search does: r is the directory behind it.
SearchRound(r, error, astray) ==
  LET f == files[call.file]
  IN /\ Sound(call.file, r)
     /\ r.opened = f.opened /\ r.isDirectory = f.isDirectory
     /\ r.position = f.position + 1
     /\ 1 < LeftInBuffer(f) => r = [f EXCEPT !.position = @ + 1]
     /\ files' = [g \in AllFiles |-> IF g = call.file THEN r ELSE files[g]]
     /\ call' = IF Matches(Head(call.path), SearchedEntry)
                THEN [call EXCEPT !.op = "enter", !.found = SearchedEntry,
                                  !.error = error, !.astray = astray]
                ELSE [call EXCEPT !.error = error, !.astray = astray]
     /\ astray = (call.astray \/ OutOfPlace(call.file, f))

LEMMA ReadEntryResult ==
  ASSUME Types, ReadEntry
  PROVE  \E r, error, astray : SearchRound(r, error, astray)
<1> PICK f : f = files[call.file]
  OBVIOUS
<1>1. PICK h \in AllFiles : h = call.file /\ f = files[h] /\ Sound(h, f) /\ f \in FileType
  BY FilesAre
<1>2. Clamped(f, 1) = 1
  BY DEF ReadEntry
<1>3. SizeKnown(f) => 1 <= f.size - f.position
  BY <1>1, <1>2, ClampedIs
<1>4. PICK ok \in BOOLEAN :
        /\ files' = [files EXCEPT ![h] = Advance(h, f, 1, ok)]
        /\ LET error == call.error \/ (Loads(h, f, 1) /\ ~ok)
               astray == call.astray \/ OutOfPlace(h, f)
           IN call' = IF Matches(Head(call.path), SearchedEntry)
                      THEN [call EXCEPT !.op = "enter", !.found = SearchedEntry,
                                        !.error = error, !.astray = astray]
                      ELSE [call EXCEPT !.error = error, !.astray = astray]
  BY <1>1 DEF ReadEntry, Outcomes
<1>5. PICK r : r = Advance(h, f, 1, ok)
  OBVIOUS
<1>6. 1 \in Nat \ {0} /\ 1 <= LeftInBuffer(f)
  BY <1>1, BufferIs, GeometryAssumption
<1>7. /\ Sound(h, r) /\ r.opened = f.opened /\ r.isDirectory = f.isDirectory
      /\ r.position = f.position + 1
      /\ 1 < LeftInBuffer(f) => r = [f EXCEPT !.position = @ + 1]
  BY <1>1, <1>3, <1>5, <1>6, ReadingIsSound, AdvanceResult
<1>8. files' = [g \in AllFiles |-> IF g = h THEN r ELSE files[g]]
  BY <1>1, <1>4, <1>5 DEF Types
<1>9. PICK error, astray : /\ error = (call.error \/ (Loads(h, f, 1) /\ ~ok))
                           /\ astray = (call.astray \/ OutOfPlace(h, f))
  OBVIOUS
<1>10. call' = IF Matches(Head(call.path), SearchedEntry)
               THEN [call EXCEPT !.op = "enter", !.found = SearchedEntry,
                                 !.error = error, !.astray = astray]
               ELSE [call EXCEPT !.error = error, !.astray = astray]
  BY <1>4, <1>9
<1>11. SearchRound(r, error, astray)
  BY <1>1, <1>7, <1>8, <1>9, <1>10 DEF SearchRound
<1> QED BY <1>11

LEMMA ReadEntryTypes ==
  ASSUME Types, ReadEntry
  PROVE  Types'
<1>1. PICK h \in AllFiles : h = call.file
  BY FilesAre
<1> PICK r, error, astray : SearchRound(r, error, astray)
  BY ReadEntryResult
<1>2. /\ Sound(call.file, r)
      /\ files' = [g \in AllFiles |-> IF g = call.file THEN r ELSE files[g]]
      /\ call' = IF Matches(Head(call.path), SearchedEntry)
                 THEN [call EXCEPT !.op = "enter", !.found = SearchedEntry,
                                   !.error = error, !.astray = astray]
                 ELSE [call EXCEPT !.error = error, !.astray = astray]
  BY DEF SearchRound
<1>5. astray \in BOOLEAN
  BY FilesAre DEF SearchRound, OutOfPlace
<1>3. files' = [g \in AllFiles |-> files'[g]] /\ (\A g \in AllFiles : Sound(g, files'[g]))
  BY <1>1, <1>2, FilesAre
<1>4. held' \in [AllFiles -> DOMAIN Entries \cup {NoEntry}]
  BY DEF Types, ReadEntry
<1>6. call \in CallType /\ call.op = "search" /\ call.found \in DOMAIN Entries \cup {NoEntry} /\ call.left \in Nat
  BY FilesAre DEF Types, ReadEntry
<1>7. CASE Matches(Head(call.path), SearchedEntry)
  <2>1. SearchedEntry \in DOMAIN Entries \cup {NoEntry} /\ SearchedEntry # NoEntry
    BY <1>7, SearchedIs DEF Matches
  <2>2. PICK e : e = SearchedEntry
    OBVIOUS
  <2>3. call' = [call EXCEPT !.op = "enter", !.found = e, !.error = error, !.astray = astray]
    BY <1>2, <1>7, <2>2
  <2>4. call' = [op |-> "enter", file |-> h, path |-> call.path, found |-> e, left |-> call.left,
                 out |-> call.out, from |-> call.from, error |-> error,
                 asked |-> call.asked, astray |-> astray]
    BY <1>1, <1>6, <2>3 DEF CallType
  <2> QED BY <1>3, <1>4, <1>5, <1>6, <2>1, <2>2, <2>4, TypesKept
<1>8. CASE ~Matches(Head(call.path), SearchedEntry)
  <2>1. call' = [call EXCEPT !.error = error, !.astray = astray]
    BY <1>2, <1>8
  <2>2. call' = [op |-> "search", file |-> h, path |-> call.path, found |-> call.found, left |-> call.left,
                 out |-> call.out, from |-> call.from, error |-> error,
                 asked |-> call.asked, astray |-> astray]
    BY <1>1, <1>6, <2>1 DEF CallType
  <2> QED BY <1>3, <1>4, <1>5, <1>6, <2>2, TypesKept
<1> QED BY <1>7, <1>8

LEMMA NotFoundTypes ==
  ASSUME Types, NotFound
  PROVE  Types'
<1>1. files' = Closed(files, call.file) /\ held' = held /\ call' = NoCall
  BY DEF NotFound, Return
<1>2. PICK h \in AllFiles : h = call.file
  BY FilesAre
<1>3. PICK c : c = Closed(files, h)
  OBVIOUS
<1>4. c = [g \in AllFiles |-> c[g]] /\ \A g \in AllFiles : Sound(g, c[g])
  <2>1. SoundFiles(c)
    BY <1>3, ClosedResult
  <2> QED BY <2>1 DEF SoundFiles
<1>5. files' = [g \in AllFiles |-> files'[g]] /\ (\A g \in AllFiles : Sound(g, files'[g]))
  BY <1>1, <1>2, <1>3, <1>4
<1>6. held' \in [AllFiles -> DOMAIN Entries \cup {NoEntry}]
  BY <1>1 DEF Types
<1> QED BY <1>1, <1>5, <1>6, ReturnTypes

\* What opening an entry does to the files, whether its first sector is read or not.
LEMMA EnterResult ==
  ASSUME Types, NEW ok \in BOOLEAN, IF ok THEN Enter ELSE EnterFails
  PROVE  \E c, r : \E h \in AllFiles :
           /\ h = FreeHandle(c) /\ c = Closed(files, call.file) /\ Sound(h, r)
           /\ files' = [g \in AllFiles |-> IF g = h THEN r ELSE c[g]]
           /\ r.opened <=> ok \/ c[h].opened
<1>1. call.op = "enter" /\ call.found \in DOMAIN Entries
  BY FilesAre DEF Enter, EnterFails, Types
<1>2. PICK e \in DOMAIN Entries : e = call.found
  BY <1>1
<1>3. PICK d \in AllFiles : d = call.file
  BY FilesAre
<1>4. PICK c : c = Closed(files, d)
  OBVIOUS
<1>5. c = [g \in AllFiles |-> c[g]] /\ \A g \in AllFiles : Sound(g, c[g])
  <2>1. SoundFiles(c)
    BY <1>4, ClosedResult
  <2> QED BY <2>1 DEF SoundFiles
<1>6. PICK h \in AllFiles : h = FreeHandle(c)
  BY FreeHandleIs
<1>7. c[h] \in FileType
  BY <1>5 DEF Sound
<1>8. PICK f, o : f = c[h] /\ o = OpenedFile(f, e)
  OBVIOUS
<1>9. /\ Sound(h, o) /\ o.opened = f.opened
      /\ ReadSector(ClusterToLBA(o.currentCluster)) \in Nat
      /\ \A b \in Nat : LET q == [o EXCEPT !.buffer = b, !.opened = TRUE] IN Sound(h, q) /\ q.opened
  BY <1>7, <1>8, OpenedSound
<1>10. ASSUME ok
       PROVE  \E r : Sound(h, r) /\ files' = [g \in AllFiles |-> IF g = h THEN r ELSE c[g]] /\ r.opened
  <2>1. PICK b \in Nat : b = ReadSector(ClusterToLBA(o.currentCluster))
    BY <1>9
  <2>2. files' = [c EXCEPT ![h] = [o EXCEPT !.buffer = b, !.opened = TRUE]]
    BY <1>2, <1>3, <1>4, <1>6, <1>8, <1>10, <2>1 DEF Enter
  <2>3. PICK q : q = [o EXCEPT !.buffer = b, !.opened = TRUE]
    OBVIOUS
  <2>4. Sound(h, q) /\ q.opened
    BY <1>9, <2>3
  <2>5. files' = [g \in AllFiles |-> IF g = h THEN q ELSE c[g]]
    BY <1>5, <2>2, <2>3
  <2> QED BY <2>4, <2>5
<1>11. ASSUME ~ok
       PROVE  files' = [g \in AllFiles |-> IF g = h THEN o ELSE c[g]]
  <2>1. files' = [c EXCEPT ![h] = OpenedFile(@, e)]
    BY <1>2, <1>3, <1>4, <1>6, <1>11 DEF EnterFails
  <2> QED BY <1>5, <1>8, <2>1
<1>12. PICK r : /\ Sound(h, r) /\ files' = [g \in AllFiles |-> IF g = h THEN r ELSE c[g]]
                /\ r.opened <=> ok \/ f.opened
  <2>1. CASE ok
    BY <1>10, <2>1
  <2>2. CASE ~ok
    BY <1>9, <1>11, <2>2
  <2> QED BY <2>1, <2>2
<1> QED BY <1>3, <1>4, <1>6, <1>8, <1>12, Zenon

LEMMA EnterTypes ==
  ASSUME Types, NEW ok \in BOOLEAN, IF ok THEN Enter ELSE EnterFails
  PROVE  Types'
<1>0. PICK c, r : \E h \in AllFiles :
        /\ h = FreeHandle(c) /\ c = Closed(files, call.file) /\ Sound(h, r)
        /\ files' = [g \in AllFiles |-> IF g = h THEN r ELSE c[g]]
        /\ r.opened <=> ok \/ c[h].opened
  BY EnterResult, Zenon
<1>1. PICK h \in AllFiles :
        /\ h = FreeHandle(c) /\ c = Closed(files, call.file)
        /\ Sound(h, r) /\ files' = [g \in AllFiles |-> IF g = h THEN r ELSE c[g]]
  BY <1>0
<1>2. \A g \in AllFiles : Sound(g, c[g])
  <2>1. call.file \in AllFiles
    BY FilesAre
  <2>2. SoundFiles(c)
    BY <1>1, <2>1, ClosedResult
  <2> QED BY <2>2 DEF SoundFiles
<1>3. files' = [g \in AllFiles |-> files'[g]] /\ (\A g \in AllFiles : Sound(g, files'[g]))
  BY <1>1, <1>2
<1>4. held \in [AllFiles -> DOMAIN Entries \cup {NoEntry}] /\ call.found \in DOMAIN Entries \cup {NoEntry}
  BY FilesAre DEF Types
<1>5. PICK free : free = FreeHandle(Closed(files, call.file))
  OBVIOUS
<1>6. held' \in [AllFiles -> DOMAIN Entries \cup {NoEntry}]
  <2>1. held' = held \/ held' = [held EXCEPT ![free] = call.found]
    BY <1>5 DEF Enter, EnterFails
  <2> QED BY <1>4, <2>1
<1>7. \/ call' = NoCall
      \/ call' = [call EXCEPT !.op = "search", !.file = free, !.path = Tail(@), !.found = NoEntry]
      \/ call' = [call EXCEPT !.op = "lost"]
  BY <1>5 DEF Enter, EnterFails, Return
<1>8. CASE call' = NoCall
  BY <1>3, <1>6, <1>8, ReturnTypes
<1>9. CASE call' = [call EXCEPT !.op = "search", !.file = free, !.path = Tail(@), !.found = NoEntry]
  <2>1. call \in CallType /\ call.left \in Nat /\ free \in AllFiles
    BY <1>1, <1>5, FilesAre DEF Types
  <2>2. PICK path : path = Tail(call.path)
    OBVIOUS
  <2>3. call' = [call EXCEPT !.op = "search", !.file = free, !.path = path, !.found = NoEntry]
    BY <1>9, <2>2, <2>1 DEF CallType
  <2>4. call' = [op |-> "search", file |-> free, path |-> path, found |-> NoEntry, left |-> call.left,
                 out |-> call.out, from |-> call.from, error |-> call.error,
                 asked |-> call.asked, astray |-> call.astray]
    BY <2>1, <2>3 DEF CallType
  <2>5. call.astray \in BOOLEAN
    BY FilesAre
  <2> QED BY <1>3, <1>6, <2>1, <2>4, <2>5, TypesKept
<1>10. CASE call' = [call EXCEPT !.op = "lost"]
  <2>1. call' = [op |-> "lost", file |-> call.file, path |-> call.path, found |-> call.found,
                 left |-> call.left, out |-> call.out, from |-> call.from, error |-> call.error,
                 asked |-> call.asked, astray |-> call.astray]
    BY <1>10 DEF Types, CallType
  <2>2. /\ call.file \in AllFiles /\ call.left \in Nat /\ call.astray \in BOOLEAN
        /\ call.found \in DOMAIN Entries \cup {NoEntry}
    BY FilesAre
  <2> QED BY <1>3, <1>6, <2>1, <2>2, TypesKept
<1> QED BY <1>7, <1>8, <1>9, <1>10

LEMMA TypesStep ==
  ASSUME Types, [Next]_vars
  PROVE  Types'
<1>1. CASE UNCHANGED vars
  BY <1>1 DEF vars, Types, CallType
<1>2. ASSUME NEW path \in Paths, BeginOpen(path) PROVE Types'
  BY <1>2, BeginOpenTypes
<1>3. ASSUME NEW h \in AllFiles, Close(h) PROVE Types'
  BY <1>3, CloseTypes
<1>4. ASSUME NEW h \in AllFiles, NEW count \in Counts, BeginRead(h, count) PROVE Types'
  BY <1>4, BeginReadTypes
<1>5. ASSUME Step PROVE Types'
  <2>1. CASE ReadChunk
    BY <2>1, ReadChunkTypes
  <2>2. CASE EndRead
    BY <2>2, EndReadTypes
  <2>3. CASE ReadEntry
    BY <2>3, ReadEntryTypes
  <2>4. CASE NotFound
    BY <2>4, NotFoundTypes
  <2>5. CASE Enter
    BY <2>5, EnterTypes
  <2>6. CASE EnterFails
    BY <2>6, EnterTypes
  <2> QED BY <1>5, <2>1, <2>2, <2>3, <2>4, <2>5, <2>6 DEF Step
<1> QED BY <1>1, <1>2, <1>3, <1>4, <1>5, FilesAre DEF Next

LEMMA InitTypes ==
  ASSUME Init
  PROVE  Types
<1>1. 0 \in 0 .. (SectorsPerCluster - 1) /\ Root \in AllFiles /\ Root \notin Handles
  BY GeometryAssumption DEF AllFiles, Root, Handles
<1>2. RootDirLBA \in Nat /\ RootDirectoryEntries \in Nat
  BY PlaceOfCluster, GeometryAssumption
<1>3. files = [h \in AllFiles |-> files[h]]
  BY DEF Init, AllFiles
<1>4. ASSUME NEW h \in AllFiles PROVE Sound(h, files[h])
  <2>1. CASE h = Root
    <3>1. files[h] = [opened |-> TRUE, isDirectory |-> TRUE, size |-> RootDirectoryEntries,
                      position |-> 0, buffer |-> RootDirLBA, firstCluster |-> RootDirLBA,
                      currentCluster |-> RootDirLBA, currentSectorInCluster |-> 0]
      BY <2>1, Zenon DEF Init, AllFiles
    <3> QED BY <1>1, <1>2, <2>1, <3>1 DEF Sound, FileType
  <2>2. CASE h # Root
    <3>1. files[h] = ClosedFile
      BY <2>2, Zenon DEF Init, AllFiles
    <3>2. 0 \in DOMAIN ClusterTable
      BY TableIs
    <3> QED BY <1>1, <2>2, <3>1, <3>2 DEF Sound, FileType, ClosedFile
  <2> QED BY <2>1, <2>2
<1>5. held \in [AllFiles -> DOMAIN Entries \cup {NoEntry}]
  BY DEF Init, AllFiles
<1>6. call \in CallType /\ call.op = "none"
  BY <1>1 DEF Init, NoCall, CallType
<1> QED BY <1>3, <1>4, <1>5, <1>6 DEF Types

\* The types are right, and no read passes the end of its file or its chain,
\* whatever callers do and whichever reads fail.
THEOREM TypeCorrect == Spec => []TypeOK
<1>1. Init => Types
  BY InitTypes
<1>2. Types /\ [Next]_vars => Types'
  BY TypesStep
<1>3. Types => TypeOK
  <2> SUFFICES ASSUME Types PROVE TypeOK
    OBVIOUS
  <2>1. ASSUME NEW h \in AllFiles
        PROVE  /\ files[h].opened \in BOOLEAN /\ files[h].isDirectory \in BOOLEAN
               /\ files[h].position \in Nat /\ files[h].size \in Nat /\ files[h].buffer \in Nat
               /\ files[h].currentSectorInCluster \in 0 .. (SectorsPerCluster - 1)
               /\ h # Root => files[h].currentCluster \in DOMAIN ClusterTable
                                \/ files[h].currentCluster \in EndOfChain .. 4095
    <3>1. PICK f : f = files[h]
      OBVIOUS
    <3>2. Sound(h, f) /\ f \in FileType
      BY <3>1, FilesAre
    <3> QED BY <3>1, <3>2 DEF Sound, FileType
  <2>2. /\ call.op \in {"none", "search", "enter", "read", "lost"}
        /\ call.file \in AllFiles /\ call.left \in Nat /\ call.astray \in BOOLEAN
    BY DEF Types, CallType
  <2> QED BY <2>1, <2>2 DEF TypeOK, AllFiles
<1> QED BY <1>1, <1>2, <1>3, PTL DEF Spec

-----------------------------------------------------------------------------
(***************************************************************************)
(* No handle leaks.                                                        *)
(***************************************************************************)
HeldFiles == { h \in AllFiles : held[h] # NoEntry }

LEMMA NumberOpenIs ==
  ASSUME Types
  PROVE  /\ NumberOpen = Cardinality(HeldFiles) /\ HeldFiles \subseteq AllFiles
         /\ IsFiniteSet(AllFiles) /\ IsFiniteSet(Handles) /\ Cardinality(Handles) = MaxFileHandles
         /\ IsFiniteSet(HeldFiles) /\ NumberOpen \in Nat
<1>1. DOMAIN held = AllFiles
  BY DEF Types
<1>2. NumberOpen = Cardinality(HeldFiles) /\ HeldFiles \subseteq AllFiles
  BY <1>1 DEF NumberOpen, HeldFiles
<1>3. MaxFileHandles - 1 \in Int /\ MaxFileHandles \in Nat \ {0}
  BY GeometryAssumption
<1>4. IsFiniteSet(Handles) /\ Cardinality(Handles) = MaxFileHandles
  BY <1>3, FS_Interval DEF Handles
<1>5. IsFiniteSet(AllFiles)
  BY <1>4, FS_AddElement DEF AllFiles
<1>6. IsFiniteSet(HeldFiles)
  BY <1>2, <1>5, FS_Subset
<1> QED BY <1>2, <1>4, <1>5, <1>6, FS_CardinalityType

LEMMA NumberOpenNext ==
  ASSUME Types'
  PROVE  NumberOpen' = Cardinality(HeldFiles')
<1>1. held' \in [AllFiles -> DOMAIN Entries \cup {NoEntry}]
  BY DEF Types
<1>2. DOMAIN held' = AllFiles
  BY <1>1
<1> QED BY <1>2 DEF NumberOpen, HeldFiles

\* Closing the directory that is searched leaves open what callers hold.
LEMMA DirectoryClosed ==
  ASSUME Types, Accounts, call.op \in {"search", "enter"}, NEW c, c = Closed(files, call.file)
  PROVE  \A h \in Handles : c[h].opened <=> held[h] # NoEntry
<1> SUFFICES ASSUME NEW h \in Handles PROVE c[h].opened <=> held[h] # NoEntry
  OBVIOUS
<1>1. PICK d \in AllFiles : d = call.file
  BY FilesAre
<1>2. h \in AllFiles /\ Searched = {d} \cap Handles
  BY <1>1 DEF AllFiles, Searched
<1>3. files[h].opened <=> held[h] # NoEntry \/ h \in Searched
  BY DEF Accounts
<1>4. CASE h = d
  <2>1. c[h].opened = FALSE
    BY <1>1, <1>4, ClosedResult
  <2>2. held[h] = NoEntry
    BY <1>2, <1>4 DEF Accounts
  <2> QED BY <2>1, <2>2
<1>5. CASE h # d
  <2>0. \A g \in AllFiles : g # d => c[g] = files[g]
    <3>1. c = Closed(files, d)
      BY <1>1
    <3> QED BY <3>1, OthersStay
  <2>1. c[h] = files[h]
    BY <1>2, <1>5, <2>0
  <2> QED BY <1>2, <1>3, <1>5, <2>1
<1> QED BY <1>4, <1>5

\* An open finds a handle.
LEMMA HandleLeft ==
  ASSUME Types, Accounts, EnoughHandles, call.op = "enter", NEW c, c = Closed(files, call.file),
         NEW h, h = FreeHandle(c)
  PROVE  h \in Handles /\ held[h] = NoEntry
<1>1. NumberOpen < MaxOpen /\ MaxOpen <= MaxFileHandles /\ MaxOpen \in Nat
  BY CallersAssumption DEF Accounts, EnoughHandles
<1>2. ~(Handles \subseteq HeldFiles)
  <2> SUFFICES ASSUME Handles \subseteq HeldFiles PROVE FALSE
    OBVIOUS
  <2>1. MaxFileHandles <= NumberOpen
    BY NumberOpenIs, FS_Subset
  <2> QED BY <1>1, <2>1, NumberOpenIs, GeometryAssumption
<1>3. PICK g \in Handles : held[g] = NoEntry
  BY <1>2 DEF HeldFiles, AllFiles
<1>4. ~c[g].opened
  BY <1>3, DirectoryClosed
<1>5. h \in Handles
  BY <1>4, FreeHandleIs
<1>6. h # Root
  BY <1>5, FilesAre
<1> QED BY <1>5, <1>6, FreeHandleIs, DirectoryClosed

\* What makes the accounts balance again after a step that holds nothing more.
LEMMA AccountsKept ==
  ASSUME Types, Types', Accounts,
         \A h \in Handles : files'[h].opened <=> held'[h] # NoEntry \/ h \in Searched',
         \A h \in Searched' : held'[h] = NoEntry,
         \A h \in AllFiles : held'[h] # NoEntry => held[h] # NoEntry,
         (call.op \in {"search", "enter"})' => NumberOpen < MaxOpen
  PROVE  Accounts'
<1>1. HeldFiles' \subseteq HeldFiles
  BY DEF HeldFiles
<1>2. NumberOpen' <= NumberOpen
  <2> QED BY <1>1, NumberOpenNext, NumberOpenIs, FS_Subset
<1>3. NumberOpen \in Nat /\ NumberOpen' \in Nat /\ NumberOpen <= MaxOpen /\ MaxOpen \in Nat
  <2>1. IsFiniteSet(HeldFiles')
    BY <1>1, NumberOpenIs, FS_Subset
  <2>2. NumberOpen' \in Nat
    BY <2>1, NumberOpenNext, FS_CardinalityType
  <2> QED BY <2>2, NumberOpenIs, CallersAssumption DEF Accounts
<1>4. held'[Root] = NoEntry
  BY FilesAre DEF Accounts
<1>5. (NumberOpen <= MaxOpen /\ (call.op \in {"search", "enter"} => NumberOpen < MaxOpen))'
  BY <1>2, <1>3
<1> QED BY <1>4, <1>5 DEF Accounts

\* The same for a step that leaves what is open and held alone.
LEMMA AccountsSame ==
  ASSUME Types, Types', Accounts, held' = held, Searched' = Searched,
         \A h \in Handles : files'[h].opened <=> files[h].opened,
         (call.op \in {"search", "enter"})' => NumberOpen < MaxOpen
  PROVE  Accounts'
<1>1. \A h \in Handles : files'[h].opened <=> held'[h] # NoEntry \/ h \in Searched'
  BY DEF Accounts
<1>2. \A h \in Searched' : held'[h] = NoEntry
  BY DEF Accounts
<1> QED BY <1>1, <1>2, AccountsKept

LEMMA AccountsStep ==
  ASSUME Types, Types', Accounts, EnoughHandles, Next
  PROVE  Accounts'
<1>0. Root \notin Handles /\ Handles \subseteq AllFiles
  BY FilesAre DEF AllFiles
<1>1. ASSUME NEW path \in Paths, BeginOpen(path) PROVE Accounts'
  <2>1. files' = files /\ held' = held /\ call.op = "none" /\ NumberOpen < MaxOpen
    BY <1>1 DEF BeginOpen
  <2>2. call'.op = "search" /\ call'.file = Root
    BY <1>1 DEF BeginOpen, NoCall
  <2>3. Searched' = Searched
    BY <1>0, <2>1, <2>2 DEF Searched
  <2> QED BY <2>1, <2>3, AccountsSame
<1>2. ASSUME NEW h \in AllFiles, Close(h) PROVE Accounts'
  <2>1. files' = Closed(files, h) /\ held' = [held EXCEPT ![h] = NoEntry] /\ call' = call /\ call.op = "none"
    BY <1>2 DEF Close
  <2>2. h # Root
    BY <1>2 DEF Close, Accounts
  <2>3. PICK c : c = Closed(files, h)
    OBVIOUS
  <2>4. Searched = {} /\ Searched' = {}
    BY <2>1 DEF Searched
  <2>5. h \in Handles /\ c[h].opened = FALSE /\ \A g \in AllFiles : g # h => c[g] = files[g]
    <3>1. h \in Handles
      BY <2>2 DEF AllFiles
    <3>2. \A g \in AllFiles \ {h} : c[g] = files[g]
      BY <2>3, OthersStay
    <3>3. c[h].opened = FALSE
      BY <2>3, <3>1, ClosedResult
    <3> QED BY <3>1, <3>2, <3>3
  <2>6. held'[h] = NoEntry /\ \A g \in AllFiles \ {h} : held'[g] = held[g]
    BY <2>1 DEF Types
  <2>7. ASSUME NEW g \in Handles PROVE files'[g].opened <=> held'[g] # NoEntry \/ g \in Searched'
    <3>1. CASE g = h
      BY <2>1, <2>3, <2>4, <2>5, <2>6, <3>1
    <3>2. CASE g # h
      <4>1. files'[g] = files[g] /\ held'[g] = held[g]
        BY <1>0, <2>1, <2>3, <2>5, <2>6, <3>2
      <4> QED BY <2>4, <4>1 DEF Accounts
    <3> QED BY <3>1, <3>2
  <2>8. \A g \in AllFiles : held'[g] # NoEntry => held[g] # NoEntry
    BY <2>6
  <2>9. ~(call.op \in {"search", "enter"})'
    BY <2>1
  <2> QED BY <2>4, <2>7, <2>8, <2>9, AccountsKept
<1>3. ASSUME NEW h \in AllFiles, NEW count \in Counts, BeginRead(h, count) PROVE Accounts'
  <2>1. files' = files /\ held' = held /\ call.op = "none" /\ call'.op = "read"
    BY <1>3 DEF BeginRead, NoCall
  <2>2. Searched' = Searched /\ ~(call.op \in {"search", "enter"})'
    BY <2>1 DEF Searched
  <2> QED BY <2>1, <2>2, AccountsSame
<1>4. CASE ReadChunk
  <2>1. PICK h, f : h \in AllFiles /\ h = call.file /\ f = files[h] /\ Sound(h, f) /\ f \in FileType
    BY FilesAre
  <2>2. call.op = "read" /\ call.left \in Nat \ {0} /\ held' = held
    BY <1>4, FilesAre DEF ReadChunk
  <2>3. call'.op = "read" /\ \E take, ok : files' = [files EXCEPT ![h] = Advance(h, f, take, ok)]
    <3>1. call \in CallType
      BY DEF Types
    <3> QED BY <1>4, <2>1, <2>2, <3>1 DEF ReadChunk, CallType
  <2>4. PICK take, ok : files' = [files EXCEPT ![h] = Advance(h, f, take, ok)]
    BY <2>3
  <2>5. Advance(h, f, take, ok).opened = f.opened
    BY <2>1 DEF Advance, NextSector, FileType
  <2>6. \A g \in Handles : files'[g].opened <=> files[g].opened
    BY <1>0, <2>1, <2>4, <2>5, FilesAre
  <2>7. Searched' = Searched /\ ~(call.op \in {"search", "enter"})'
    BY <2>2, <2>3 DEF Searched
  <2> QED BY <2>2, <2>6, <2>7, AccountsSame
<1>5. CASE EndRead
  <2>1. files' = files /\ held' = held /\ call.op = "read" /\ call'.op = "none"
    BY <1>5 DEF EndRead, NoCall
  <2>2. Searched' = Searched /\ ~(call.op \in {"search", "enter"})'
    BY <2>1 DEF Searched
  <2> QED BY <2>1, <2>2, AccountsSame
<1>6. CASE ReadEntry
  <2> PICK r, error, astray : SearchRound(r, error, astray)
    BY <1>6, ReadEntryResult
  <2>1. call.op = "search" /\ held' = held /\ call \in CallType
    BY <1>6 DEF ReadEntry, Types
  <2>2. /\ r.opened = files[call.file].opened
        /\ files' = [g \in AllFiles |-> IF g = call.file THEN r ELSE files[g]]
        /\ call' = IF Matches(Head(call.path), SearchedEntry)
                   THEN [call EXCEPT !.op = "enter", !.found = SearchedEntry,
                                     !.error = error, !.astray = astray]
                   ELSE [call EXCEPT !.error = error, !.astray = astray]
    BY DEF SearchRound
  <2>3. call'.op \in {"search", "enter"} /\ call'.file = call.file
    BY <2>1, <2>2 DEF CallType
  <2>4. Searched' = Searched
    BY <2>1, <2>3 DEF Searched
  <2>5. \A g \in Handles : files'[g].opened <=> files[g].opened
    BY <1>0, <2>2
  <2>6. NumberOpen < MaxOpen
    BY <2>1 DEF Accounts
  <2> QED BY <2>1, <2>4, <2>5, <2>6, AccountsSame
<1>7. CASE NotFound
  <2>1. files' = Closed(files, call.file) /\ held' = held /\ call'.op = "none" /\ call.op = "search"
    BY <1>7 DEF NotFound, Return, NoCall
  <2>2. PICK c : c = Closed(files, call.file)
    OBVIOUS
  <2>3. Searched' = {} /\ ~(call.op \in {"search", "enter"})'
    BY <2>1 DEF Searched
  <2>4. \A h \in Handles : c[h].opened <=> held[h] # NoEntry
    BY <2>1, <2>2, DirectoryClosed
  <2>5. \A h \in Handles : files'[h].opened <=> held'[h] # NoEntry \/ h \in Searched'
    BY <2>1, <2>2, <2>3, <2>4
  <2> QED BY <2>1, <2>3, <2>5, AccountsKept
<1>8. ASSUME NEW ok \in BOOLEAN, IF ok THEN Enter ELSE EnterFails PROVE Accounts'
  <2>0. PICK c, r : \E h \in AllFiles :
          /\ h = FreeHandle(c) /\ c = Closed(files, call.file) /\ Sound(h, r)
          /\ files' = [g \in AllFiles |-> IF g = h THEN r ELSE c[g]]
          /\ r.opened <=> ok \/ c[h].opened
    BY <1>8, EnterResult, Zenon
  <2>1. PICK h \in AllFiles :
          /\ h = FreeHandle(c) /\ c = Closed(files, call.file)
          /\ files' = [g \in AllFiles |-> IF g = h THEN r ELSE c[g]]
          /\ r.opened <=> ok \/ c[h].opened
    BY <2>0
  <2>2. call.op = "enter" /\ call.found # NoEntry
    BY <1>8 DEF Enter, EnterFails, Types
  <2>3. \A g \in Handles : c[g].opened <=> held[g] # NoEntry
    BY <2>1, <2>2, DirectoryClosed
  <2>4. h \in Handles /\ held[h] = NoEntry
    BY <2>1, <2>2, HandleLeft
  <2>5. \A g \in Handles : files'[g].opened <=> held[g] # NoEntry \/ (ok /\ g = h)
    BY <1>0, <2>1, <2>3, <2>4
  <2>6. NumberOpen < MaxOpen
    BY <2>2 DEF Accounts
  <2>7. CASE ~ok
    <3>1. held' = held /\ call'.op \in {"none", "lost"}
      BY <1>8, <2>7 DEF EnterFails, NoCall, Types, CallType
    <3>2. Searched' = {} /\ ~(call.op \in {"search", "enter"})'
      BY <3>1 DEF Searched
    <3> QED BY <2>5, <2>7, <3>1, <3>2, AccountsKept
  <2>8. CASE ok /\ ~IsLast
    <3>1. held' = held /\ call'.op = "search" /\ call'.file = h
      BY <1>8, <2>1, <2>8 DEF Enter, Types, CallType
    <3>2. Searched' = {h}
      BY <2>4, <3>1 DEF Searched
    <3> QED BY <2>4, <2>5, <2>6, <2>8, <3>1, <3>2, AccountsKept
  <2>9. CASE ok /\ IsLast
    <3>1. held' = [held EXCEPT ![h] = call.found] /\ call'.op = "none"
      BY <1>8, <2>1, <2>9 DEF Enter, Return, NoCall
    <3>2. Searched' = {} /\ ~(call.op \in {"search", "enter"})'
      BY <3>1 DEF Searched
    <3>3. held'[h] # NoEntry /\ \A g \in AllFiles \ {h} : held'[g] = held[g]
      BY <2>2, <3>1 DEF Types
    <3>4. \A g \in Handles : files'[g].opened <=> held'[g] # NoEntry \/ g \in Searched'
      BY <1>0, <2>4, <2>5, <2>9, <3>2, <3>3
    <3>5. HeldFiles' = HeldFiles \cup {h} /\ h \notin HeldFiles
      BY <2>4, <3>3 DEF HeldFiles
    <3>6. NumberOpen' = NumberOpen + 1
      <4> QED BY <3>5, NumberOpenNext, NumberOpenIs, FS_AddElement
    <3>7. held'[Root] = NoEntry
      BY <1>0, <2>4, <3>3, FilesAre DEF Accounts
    <3>8. NumberOpen' <= MaxOpen
      BY <2>6, <3>6, NumberOpenIs, CallersAssumption
    <3> QED BY <3>2, <3>4, <3>7, <3>8 DEF Accounts
  <2> QED BY <2>7, <2>8, <2>9
<1>9. CASE Enter
  BY <1>8, <1>9
<1>10. CASE EnterFails
  BY <1>8, <1>10
<1> QED BY <1>1, <1>2, <1>3, <1>4, <1>5, <1>6, <1>7, <1>9, <1>10, FilesAre DEF Next, Step

LEMMA InitAccounts ==
  ASSUME Init
  PROVE  Accounts
<1>1. Types /\ Root \in AllFiles /\ Root \notin Handles
  BY InitTypes, FilesAre
<1>2. held = [h \in AllFiles |-> NoEntry] /\ call.op = "none"
  BY DEF Init, AllFiles, NoCall
<1>3. \A h \in Handles : ~files[h].opened
  BY <1>1 DEF Init, ClosedFile
<1>4. HeldFiles = {}
  BY <1>2 DEF HeldFiles
<1>5. NumberOpen = 0 /\ MaxOpen \in Nat
  BY <1>1, <1>4, NumberOpenIs, FS_EmptySet, CallersAssumption
<1>6. Searched = {}
  BY <1>2 DEF Searched
<1>7. \A h \in Handles : files[h].opened <=> held[h] # NoEntry \/ h \in Searched
  BY <1>2, <1>3, <1>6 DEF AllFiles
<1> QED BY <1>1, <1>2, <1>5, <1>6, <1>7 DEF Accounts

\* While callers keep no more files open than there are handles, a handle is in use
\* exactly while a caller holds it or a search goes on in its directory, whichever
\* calls fail and on which way.
THEOREM HandlesNeverLeak ==
  ASSUME EnoughHandles
  PROVE  Spec => []HandlesAccounted
<1>1. Init => Types /\ Accounts
  BY InitTypes, InitAccounts
<1>2. Types /\ Accounts /\ [Next]_vars => (Types /\ Accounts)'
  <2> SUFFICES ASSUME Types, Accounts, [Next]_vars PROVE (Types /\ Accounts)'
    OBVIOUS
  <2>1. Types'
    BY TypesStep
  <2>2. CASE Next
    BY <2>1, <2>2, AccountsStep
  <2>3. CASE UNCHANGED vars
    BY <2>1, <2>3 DEF vars, Accounts, Searched, NumberOpen
  <2> QED BY <2>1, <2>2, <2>3
<1>3. Types /\ Accounts => HandlesAccounted
  <2> SUFFICES ASSUME Types, Accounts PROVE HandlesAccounted
    OBVIOUS
  <2>1. \A h \in Handles : files[h].opened <=> held[h] # NoEntry \/ h \in Searched
    BY DEF Accounts
  <2>2. Searched \subseteq Handles
    BY DEF Searched
  <2>3. { h \in Handles : files[h].opened } = { h \in Handles : held[h] # NoEntry } \cup Searched
    BY <2>1, <2>2
  <2> QED BY <2>3 DEF HandlesAccounted, Searched
<1> QED BY <1>1, <1>2, <1>3, PTL DEF Spec

-----------------------------------------------------------------------------
(***************************************************************************)
(* The files on the disk.  Counting up proves what chains and paths are.   *)
(***************************************************************************)

\* Counting up from 0 reaches every number.
LEMMA CountUp ==
  ASSUME NEW n \in Nat, NEW S, 0 \in S, \A i \in 1..n : i - 1 \in S => i \in S
  PROVE  \A i \in 0..n : i \in S
<1> DEFINE Rest == { i \in 0..n : i \notin S }
<1> SUFFICES ASSUME Rest # {} PROVE FALSE
  OBVIOUS
<1>1. Rest \in SUBSET Nat
  OBVIOUS
<1>2. PICK b \in Rest : \A c \in Rest : <<c, b>> \notin OpToRel(<, Nat)
  BY <1>1, NatLessThanWellFounded, WFMin, Zenon
<1>3. \A c \in Rest : ~ (c < b)
  BY <1>1, <1>2, Zenon DEF OpToRel
<1>4. b \in 1..n /\ b - 1 \in 0..n
  <2>1. b \in 0..n /\ b \notin S
    BY <1>2, Zenon
  <2>2. b # 0
    BY <2>1
  <2> QED BY <2>1, <2>2
<1>5. b - 1 \notin Rest
  BY <1>3, <1>4
<1> QED BY <1>2, <1>4, <1>5

\* A function that is defined by its step from one number to the next exists.
AreSteps(g, A, a, n, step) ==
  g \in [0..n -> A] /\ g[0] = a /\ \A i \in 1..n : g[i] = step[i][g[i - 1]]

LEMMA StepsRun ==
  ASSUME NEW A, NEW a \in A, NEW n \in Nat, NEW step \in [1..n -> [A -> A]]
  PROVE  \E g : AreSteps(g, A, a, n, step)
<1> DEFINE Good(k) == \E g \in [0..k -> A] :
                        g[0] = a /\ \A i \in 1..k : g[i] = step[i][g[i - 1]]
           S == { k \in 0..n : Good(k) }
<1>1. 0 \in S
  <2>1. [i \in 0..0 |-> a] \in [0..0 -> A] /\ [i \in 0..0 |-> a][0] = a
    OBVIOUS
  <2>2. \A i \in 1..0 : FALSE
    OBVIOUS
  <2>3. Good(0)
    BY <2>1, <2>2
  <2> HIDE DEF Good
  <2> QED BY <2>3
<1>2. ASSUME NEW k \in 1..n, k - 1 \in S PROVE k \in S
  <2>1. PICK g \in [0..(k - 1) -> A] :
          g[0] = a /\ \A i \in 1..(k - 1) : g[i] = step[i][g[i - 1]]
    BY <1>2
  <2> DEFINE h == [i \in 0..k |-> IF i = k THEN step[k][g[k - 1]] ELSE g[i]]
  <2>2. g[k - 1] \in A /\ step[k][g[k - 1]] \in A
    BY <2>1
  <2>3. h \in [0..k -> A]
    BY <2>1, <2>2
  <2>4. h[0] = a
    BY <2>1
  <2>5. ASSUME NEW i \in 1..k PROVE h[i] = step[i][h[i - 1]]
    <3>1. h[i - 1] = g[i - 1]
      OBVIOUS
    <3> QED BY <2>1, <3>1
  <2> HIDE DEF h
  <2>6. Good(k)
    BY <2>3, <2>4, <2>5
  <2> HIDE DEF Good
  <2> QED BY <2>6
<1> HIDE DEF S
<1>3. n \in S
  <2>1. \A i \in 0..n : i \in S
    BY <1>1, <1>2, CountUp, Zenon
  <2> QED BY <2>1
<1>4. \E g \in [0..n -> A] : g[0] = a /\ \A i \in 1..n : g[i] = step[i][g[i - 1]]
  BY <1>3, Zenon DEF S
<1> QED BY <1>4, Zenon DEF AreSteps

LEMMA TableSizeIs == TableSize \in Nat
<1>1. PICK k \in 0 .. (EndOfChain - 1) : Clusters = 0..k
  BY DiskAssumption, Zenon DEF Clusters
<1>2. k \in Int /\ 0 \in Int
  BY DEF EndOfChain
<1> QED BY <1>1, <1>2, FS_Interval, FS_CardinalityType DEF TableSize

\* What the entry of a cluster says, and behind the end the same for ever.
After(c) == IF c \in Clusters THEN ClusterTable[c] ELSE c

Ends == EndOfChain .. 4095

LEMMA AfterIs ==
  ASSUME NEW c \in Clusters \cup Ends
  PROVE  After(c) \in Clusters \cup Ends
BY TableIs DEF After, Clusters, Ends

LEMMA EndsOutside == Clusters \cap Ends = {} /\ Clusters \subseteq Nat
<1>1. \A c \in Clusters : c \in Nat /\ c < EndOfChain
  BY TableIs DEF Clusters
<1>2. EndOfChain \in Nat
  BY DEF EndOfChain
<1> QED BY <1>1, <1>2 DEF Ends

\* A chain goes from each cluster to the one the table names.
LEMMA ChainGoesOn ==
  ASSUME NEW c \in Clusters
  PROVE  /\ ChainFrom(c) \in [0..TableSize -> Clusters \cup Ends]
         /\ ChainFrom(c)[0] = c
         /\ \A n \in 1..TableSize : ChainFrom(c)[n] = After(ChainFrom(c)[n - 1])
<1> DEFINE A == Clusters \cup Ends
           Loop(g) == g = [n \in 0..TableSize |-> IF n = 0 THEN c ELSE After(g[n - 1])]
           step == [n \in 1..TableSize |-> [a \in A |-> After(a)]]
<1>1. ChainFrom(c) = CHOOSE g : Loop(g)
  BY Zenon DEF ChainFrom, After, TableSize
<1>2. step \in [1..TableSize -> [A -> A]]
  BY AfterIs
<1>3. c \in A /\ TableSize \in Nat
  BY TableSizeIs
<1>4. PICK g \in [0..TableSize -> A] : g[0] = c /\ \A n \in 1..TableSize : g[n] = step[n][g[n - 1]]
  <2> HIDE DEF step, A
  <2>1. PICK g : AreSteps(g, A, c, TableSize, step)
    BY <1>2, <1>3, StepsRun, Zenon
  <2> QED BY <2>1, Zenon DEF AreSteps
<1>5. \A n \in 1..TableSize : n - 1 \in 0..TableSize /\ g[n] = After(g[n - 1])
  <2> SUFFICES ASSUME NEW n \in 1..TableSize
               PROVE  n - 1 \in 0..TableSize /\ g[n] = After(g[n - 1])
    OBVIOUS
  <2>1. n - 1 \in 0..TableSize
    BY <1>3
  <2>2. g[n - 1] \in A
    BY <1>4, <2>1
  <2>3. step[n][g[n - 1]] = After(g[n - 1])
    BY <2>2
  <2> QED BY <1>4, <2>1, <2>3, Zenon
<1>6. Loop(g)
  <2>1. \A n \in 0..TableSize : g[n] = IF n = 0 THEN c ELSE After(g[n - 1])
    BY <1>3, <1>4, <1>5
  <2>2. DOMAIN g = 0..TableSize /\ g = [n \in 0..TableSize |-> g[n]]
    BY <1>4
  <2> HIDE DEF A
  <2> QED BY <2>1, <2>2
<1>7. PICK k : k = CHOOSE h : Loop(h)
  OBVIOUS
<1>8. Loop(k)
  <2> HIDE DEF Loop
  <2> QED BY <1>6, <1>7
<1>9. /\ DOMAIN k = 0..TableSize /\ k[0] = c
      /\ \A n \in 1..TableSize : n \in 0..TableSize /\ n # 0
      /\ \A n \in 1..TableSize : k[n] = After(k[n - 1])
  BY <1>3, <1>8
<1>10. \A n \in 0..TableSize : k[n] \in A
  <2> DEFINE S == { n \in 0..TableSize : k[n] \in A }
  <2>1. 0 \in S
    BY <1>3, <1>9
  <2>2. ASSUME NEW n \in 1..TableSize, n - 1 \in S PROVE n \in S
    BY <1>9, <2>2, AfterIs
  <2> HIDE DEF S
  <2>3. \A n \in 0..TableSize : n \in S
    BY <1>3, <2>1, <2>2, CountUp, Zenon
  <2> QED BY <2>3 DEF S
<1>11. k \in [0..TableSize -> A]
  <2>1. k = [n \in 0..TableSize |-> k[n]]
    BY <1>8, <1>9
  <2> HIDE DEF A, Loop
  <2> QED BY <1>10, <2>1
<1> QED BY <1>1, <1>7, <1>9, <1>11

\* A sector of a file.
SectorIn(e, m) == ClusterToLBA(Chain(e)[m \div SectorsPerCluster]) + (m % SectorsPerCluster)
Length(e) == Len(Content[e])

\* A chain that ends in the table: its clusters come first, and behind them its end.
LEMMA ChainEnds ==
  ASSUME NEW c \in Clusters, ChainFrom(c)[TableSize] \notin Clusters
  PROVE  /\ ChainLength(c) \in 1..TableSize
         /\ \A n \in 0..TableSize : ChainFrom(c)[n] \in Clusters <=> n < ChainLength(c)
<1> PICK at, N : at = ChainFrom(c) /\ N = TableSize
  OBVIOUS
<1>1. /\ at \in [0..N -> Clusters \cup Ends] /\ at[0] = c
      /\ \A n \in 1..N : at[n] = After(at[n - 1])
      /\ N \in Nat /\ at[N] \notin Clusters
  BY ChainGoesOn, TableSizeIs
<1> DEFINE Behind == { n \in 0..N : at[n] \notin Clusters }
<1>2. Behind \in SUBSET Nat /\ N \in Behind
  BY <1>1
<1>3. PICK b \in Behind : \A n \in Behind : <<n, b>> \notin OpToRel(<, Nat)
  BY <1>2, NatLessThanWellFounded, WFMin, Zenon
<1>4. \A n \in Behind : ~(n < b)
  BY <1>2, <1>3, Zenon DEF OpToRel
<1>5. b \in 0..N /\ at[b] \notin Clusters /\ b # 0
  BY <1>1, <1>3
<1>6. \A n \in 0..N : n < b => at[n] \in Clusters
  BY <1>4
\* Behind the end there is only the end.
<1>7. \A n \in 0..N : n >= b => at[n] \notin Clusters
  <2> DEFINE S == { n \in 0..N : n >= b => at[n] \notin Clusters }
  <2>1. 0 \in S
    BY <1>1, <1>5
  <2>2. ASSUME NEW n \in 1..N, n - 1 \in S PROVE n \in S
    <3>1. n - 1 \in 0..N /\ n \in 0..N
      BY <1>1
    <3>2. CASE n = b
      BY <1>5, <3>1, <3>2
    <3>3. CASE n # b
      <4>1. n >= b => n - 1 >= b
        BY <1>1, <1>5, <3>1, <3>3
      <4>2. n >= b => at[n - 1] \notin Clusters
        BY <2>2, <4>1
      <4>3. at[n] = After(at[n - 1])
        BY <1>1
      <4>4. n >= b => at[n] \notin Clusters
        BY <4>2, <4>3 DEF After
      <4> QED BY <3>1, <4>4
    <3> QED BY <3>2, <3>3
  <2> HIDE DEF S
  <2>3. \A n \in 0..N : n \in S
    BY <1>1, <2>1, <2>2, CountUp, Zenon
  <2> QED BY <2>3 DEF S
<1>8. { n \in 0..N : at[n] \in Clusters } = 0..(b - 1)
  <2>1. \A n \in 0..N : at[n] \in Clusters <=> n < b
    BY <1>1, <1>5, <1>6, <1>7
  <2>2. b \in Nat /\ N \in Nat /\ b <= N
    BY <1>1, <1>5
  <2>3. \A n : n \in 0..(b - 1) <=> n \in 0..N /\ n < b
    BY <2>2
  <2> QED BY <2>1, <2>3
<1>9. Cardinality(0..(b - 1)) = b
  <2>1. b - 1 \in Int /\ 0 \in Int /\ 0 <= b - 1
    BY <1>1, <1>5
  <2>2. Cardinality(0..(b - 1)) = b - 1 - 0 + 1
    BY <2>1, FS_Interval
  <2> QED BY <1>1, <1>5, <2>2
<1>10. ChainLength(c) = b
  BY <1>8, <1>9 DEF ChainLength, TableSize
<1> QED BY <1>1, <1>5, <1>6, <1>7, <1>10

-----------------------------------------------------------------------------
(***************************************************************************)
(* The unit at a place of a file lies in the sector, and the sector in the *)
(* cluster, that division says.                                            *)
(***************************************************************************)
LEMMA SizesAre ==
  /\ SectorSize \in Nat /\ SectorSize > 0
  /\ SectorsPerCluster \in Nat /\ SectorsPerCluster > 0
BY GeometryAssumption

\* Less than so many times so much has a quotient less than so many.
LEMMA QuotientBelow ==
  ASSUME NEW d \in Nat, d > 0, NEW n \in Nat, NEW l \in Nat
  PROVE  n \div d < l <=> n < l * d
<1> PICK q, r : q = n \div d /\ r = n % d
  OBVIOUS
<1>1. q \in Nat /\ r \in 0..(d - 1) /\ n = d * q + r
  BY Division
<1>2. ASSUME q < l PROVE n < l * d
  <2>1. PICK k \in Nat : l = q + 1 + k
    <3>1. l - q - 1 \in Nat /\ l = q + 1 + (l - q - 1)
      BY <1>1, <1>2
    <3> QED BY <3>1
  <2>2. (q + 1 + k) * d = d * q + d + k * d /\ k * d \in Nat /\ d * q \in Nat
    BY <1>1, <2>1
  <2> QED BY <1>1, <2>1, <2>2
<1>3. ASSUME ~(q < l) PROVE ~(n < l * d)
  <2>1. PICK k \in Nat : q = l + k
    <3>1. q - l \in Nat /\ q = l + (q - l)
      BY <1>1, <1>3
    <3> QED BY <3>1
  <2>2. d * (l + k) = l * d + d * k /\ d * k \in Nat /\ l * d \in Nat
    BY <1>1, <2>1
  <2> QED BY <1>1, <2>1, <2>2
<1> QED BY <1>2, <1>3

\* The next multiple behind a number.
LEMMA NextMultiple ==
  ASSUME NEW d \in Nat, d > 0, NEW n \in Nat, NEW take \in Nat, take <= d - (n % d)
  PROVE  /\ take < d - (n % d) => (n + take) \div d = n \div d /\ (n + take) % d = (n % d) + take
         /\ take = d - (n % d) => /\ (n + take) \div d = (n \div d) + 1 /\ (n + take) % d = 0
                                  /\ n + take = d * ((n \div d) + 1)
<1> PICK q, r : q = n \div d /\ r = n % d
  OBVIOUS
<1>1. q \in Nat /\ r \in 0..(d - 1) /\ n = d * q + r
  BY Division
<1>2. ASSUME NEW p \in Nat, NEW s \in 0..(d - 1), NEW m, m = d * p + s
      PROVE  m \div d = p /\ m % d = s
  <2>1. m \in Nat /\ m \div d = p
    BY <1>2, Quotient
  <2>2. m = d * (m \div d) + (m % d) /\ m % d \in 0..(d - 1)
    BY <2>1, Division
  <2>3. d * p \in Nat
    OBVIOUS
  <2> QED BY <1>2, <2>1, <2>2, <2>3
<1>3. ASSUME take < d - r
      PROVE  (n + take) \div d = q /\ (n + take) % d = r + take
  <2>1. r + take \in 0..(d - 1) /\ n + take = d * q + (r + take)
    <3>1. d * q \in Nat
      BY <1>1
    <3> QED BY <1>1, <1>3, <3>1
  <2> QED BY <1>1, <1>2, <2>1
<1>4. ASSUME take = d - r
      PROVE  (n + take) \div d = q + 1 /\ (n + take) % d = 0 /\ n + take = d * (q + 1)
  <2>1. 0 \in 0..(d - 1) /\ q + 1 \in Nat /\ n + take = d * (q + 1) + 0 /\ n + take = d * (q + 1)
    <3>1. d * q \in Nat /\ d * (q + 1) = d * q + d
      BY <1>1
    <3> QED BY <1>1, <1>4, <3>1
  <2> QED BY <1>2, <2>1
<1> QED BY <1>1, <1>3, <1>4

LEMMA EntryIs ==
  ASSUME NEW e \in DOMAIN Entries
  PROVE  /\ Entries[e].startCluster \in Clusters
         /\ Entries[e].size \in Nat /\ Entries[e].isDirectory \in BOOLEAN
BY DiskAssumption DEF Clusters

\* The units of an entry: as many as it has, each in its sector.
LEMMA ContentIs ==
  ASSUME NEW e \in DOMAIN Entries
  PROVE  /\ Length(e) \in Nat
         /\ Length(e) = IF Entries[e].isDirectory THEN Links(e) * SectorsPerCluster * SectorSize
                        ELSE Entries[e].size
         /\ DOMAIN Content[e] = 1..Length(e)
         /\ \A i \in 1..Length(e) :
              Content[e][i] = <<SectorIn(e, (i - 1) \div SectorSize), (i - 1) % SectorSize>>
<1> DEFINE chain == Chain(e)
           length == IF Entries[e].isDirectory THEN Links(e) * SectorsPerCluster * SectorSize
                     ELSE Entries[e].size
           Unit(i) == LET n == (i - 1) \div SectorSize
                      IN <<DataLBA + (chain[n \div SectorsPerCluster] - 2) * SectorsPerCluster
                             + (n % SectorsPerCluster),
                           (i - 1) % SectorSize>>
<1>1. Content[e] = [i \in 1..length |-> Unit(i)]
  BY Zenon DEF Content, Chain, Links
<1>2. length \in Nat
  <2>1. Links(e) \in Nat
    <3>1. IsFiniteSet(0..TableSize) /\ TableSize \in Nat
      BY TableSizeIs, FS_Interval
    <3> DEFINE S == { n \in 0..TableSize : Chain(e)[n] \in Clusters }
    <3>2. IsFiniteSet(S)
      BY <3>1, FS_Subset
    <3>3. Cardinality(S) \in Nat
      BY <3>2, FS_CardinalityType
    <3> QED BY <3>3 DEF Links, ChainLength, TableSize, Chain
  <2>2. Links(e) * SectorsPerCluster \in Nat
    BY <2>1, SizesAre
  <2>3. Links(e) * SectorsPerCluster * SectorSize \in Nat
    BY <2>2, SizesAre
  <2> QED BY <2>3, EntryIs
<1> PICK n : n = length
  OBVIOUS
<1>3. n \in Nat /\ Content[e] = [i \in 1..n |-> Unit(i)]
  BY <1>1, <1>2
<1>4. Len(Content[e]) = n /\ DOMAIN Content[e] = 1..n
  <2> HIDE DEF Unit
  <2> QED BY <1>3
<1>5. ASSUME NEW i \in 1..n
      PROVE  Content[e][i] = <<SectorIn(e, (i - 1) \div SectorSize), (i - 1) % SectorSize>>
  <2>1. Content[e][i] = Unit(i)
    BY <1>3
  <2> QED BY <2>1 DEF SectorIn, ClusterToLBA
<1> QED BY <1>3, <1>4, <1>5 DEF Length

\* The chain of an entry that has units.
LEMMA LinksAre ==
  ASSUME ChainsFit, NEW e \in DOMAIN Entries, HasUnits(e)
  PROVE  /\ Links(e) \in 1..TableSize /\ Chain(e)[0] = Entries[e].startCluster
         /\ \A n \in 0..TableSize : Chain(e)[n] \in Clusters <=> n < Links(e)
         /\ \A n \in 0..TableSize : Chain(e)[n] \in Clusters \cup Ends
         /\ \A n \in 1..TableSize : Chain(e)[n] = After(Chain(e)[n - 1])
<1>1. Entries[e].startCluster \in Clusters /\ Chain(e)[TableSize] \notin Clusters
  BY EntryIs DEF ChainsFit
<1> QED BY <1>1, ChainEnds, ChainGoesOn DEF Chain, Links

LEMMA Divided ==
  ASSUME NEW n \in Nat
  PROVE  /\ n \div SectorSize \in Nat /\ n % SectorSize \in 0..(SectorSize - 1)
         /\ n \div SectorsPerCluster \in Nat
         /\ n % SectorsPerCluster \in 0..(SectorsPerCluster - 1)
<1>1. SectorSize \in Nat \ {0} /\ SectorsPerCluster \in Nat \ {0}
  BY SizesAre
<1> QED BY <1>1, Division

\* A place in a file lies in a cluster of its chain.
LEMMA PlaceInChain ==
  ASSUME ChainsFit, NEW e \in DOMAIN Entries, NEW p \in Nat, p < Length(e)
  PROVE  /\ HasUnits(e) /\ p \div SectorSize \in Nat
         /\ (p \div SectorSize) \div SectorsPerCluster \in 0..(Links(e) - 1)
<1>0. Links(e) \in Nat /\ HasUnits(e)
  <2>1. HasUnits(e)
    BY ContentIs, EntryIs DEF HasUnits
  <2> QED BY <2>1, LinksAre
<1>1. p < Links(e) * SectorsPerCluster * SectorSize
  <2>1. CASE Entries[e].isDirectory
    <3>1. Length(e) = Links(e) * SectorsPerCluster * SectorSize
      BY <2>1, ContentIs
    <3> QED BY <3>1
  <2>2. CASE ~Entries[e].isDirectory
    <3>1. Length(e) = Entries[e].size /\ Entries[e].size \in Nat
      BY <2>2, ContentIs, EntryIs
    <3>2. PICK most : most = Links(e) * SectorsPerCluster * SectorSize
      OBVIOUS
    <3>3. Entries[e].size <= most /\ most \in Nat
      <4>1. Links(e) * SectorsPerCluster \in Nat
        BY <1>0, SizesAre
      <4>2. most \in Nat
        BY <3>2, <4>1, SizesAre
      <4> QED BY <2>2, <3>2, <4>2 DEF ChainsFit
    <3> QED BY <3>1, <3>2, <3>3
  <2> QED BY <2>1, <2>2
<1>2. Links(e) * SectorsPerCluster \in Nat
  BY <1>0, SizesAre
<1>3. p \div SectorSize \in Nat /\ p \div SectorSize < Links(e) * SectorsPerCluster
  <2>1. p \div SectorSize \in Nat
    BY Divided
  <2> PICK l \in Nat : l = Links(e) * SectorsPerCluster
    BY <1>2
  <2>2. p \div SectorSize < l
    BY <1>1, QuotientBelow, SizesAre
  <2> QED BY <2>1, <2>2
<1>4. (p \div SectorSize) \div SectorsPerCluster \in Nat
  BY <1>3, Divided
<1>5. (p \div SectorSize) \div SectorsPerCluster < Links(e)
  BY <1>0, <1>3, QuotientBelow, SizesAre
<1> QED BY <1>0, <1>3, <1>4, <1>5

\* A place whose cluster is in the chain of a directory lies in the directory.
LEMMA PlaceInDirectory ==
  ASSUME ChainsFit, NEW e \in DOMAIN Entries, Entries[e].isDirectory, NEW p \in Nat,
         (p \div SectorSize) \div SectorsPerCluster < Links(e)
  PROVE  p < Length(e)
<1>0. Links(e) \in Nat
  BY LinksAre DEF HasUnits
<1>1. p \div SectorSize \in Nat
  BY Divided
<1>2. p \div SectorSize < Links(e) * SectorsPerCluster
  BY <1>0, <1>1, QuotientBelow, SizesAre
<1>3. Links(e) * SectorsPerCluster \in Nat
  BY <1>0, SizesAre
<1>4. p < Links(e) * SectorsPerCluster * SectorSize
  BY <1>2, <1>3, QuotientBelow, SizesAre
<1> QED BY <1>4, ContentIs

\* A sector that is read is one of the disk.
LEMMA SectorIs ==
  ASSUME ChainsFit, NEW e \in DOMAIN Entries, HasUnits(e), NEW n \in Nat,
         n \div SectorsPerCluster < Links(e)
  PROVE  SectorIn(e, n) \in Nat
<1>1. n \div SectorsPerCluster \in Nat /\ n % SectorsPerCluster \in Nat
  BY Divided, SizesAre
<1>2. Chain(e)[n \div SectorsPerCluster] \in Nat
  <2>1. n \div SectorsPerCluster \in 0..TableSize
    BY <1>1, LinksAre, TableSizeIs
  <2> QED BY <2>1, LinksAre, EndsOutside
<1> QED BY <1>1, <1>2, PlaceOfCluster DEF SectorIn

-----------------------------------------------------------------------------
(***************************************************************************)
(* The root directory is ready for the next path.                          *)
(***************************************************************************)
LEMMA RootKept ==
  ASSUME RootStands(files'[Root]), files'[Root].position = 0,
         call'.op = "read" => call'.file # Root
  PROVE  RootInv'
BY DEF RootInv, RootStands

\* Closing a directory rewinds the root directory.
LEMMA RootRewound ==
  ASSUME Types, RootInv, call.op \in {"search", "enter"}, NEW c, c = Closed(files, call.file)
  PROVE  RootStands(c[Root]) /\ c[Root].position = 0
<1>1. PICK d \in AllFiles : d = call.file
  BY FilesAre
<1>2. PICK root : root = files[Root]
  OBVIOUS
<1>3. root \in FileType /\ RootStands(root) /\ (root.position = 0 \/ d = Root) /\ Root \in AllFiles
  BY <1>1, <1>2, FilesAre DEF RootInv
<1>4. 0 \div SectorSize = 0 /\ RootDirLBA \in Nat
  BY GeometryAssumption, PlaceOfCluster
<1>5. CASE d = Root
  <2>1. c[Root] = [root EXCEPT !.position = 0, !.currentCluster = root.firstCluster]
    BY <1>1, <1>2, <1>5, ClosedResult
  <2> QED BY <1>3, <1>4, <2>1 DEF RootStands, FileType
<1>6. CASE d # Root
  <2>1. c[Root] = root
    BY <1>1, <1>2, <1>3, <1>6, OthersStay
  <2> QED BY <1>3, <1>6, <2>1
<1> QED BY <1>5, <1>6

\* The unit behind a place is in the same sector or the first of the next.
LEMMA NextUnit ==
  ASSUME NEW p \in Nat
  PROVE  /\ SectorSize - (p % SectorSize) # 1 => (p + 1) \div SectorSize = p \div SectorSize
         /\ SectorSize - (p % SectorSize) = 1 => (p + 1) \div SectorSize = (p \div SectorSize) + 1
<1>1. p % SectorSize \in 0 .. (SectorSize - 1)
  BY Divided
<1>2. 1 \in Nat /\ 1 <= SectorSize - (p % SectorSize)
  BY <1>1, SizesAre
<1> PICK left : left = SectorSize - (p % SectorSize)
  OBVIOUS
<1>3. /\ 1 < left => (p + 1) \div SectorSize = p \div SectorSize
      /\ 1 = left => (p + 1) \div SectorSize = (p \div SectorSize) + 1
  BY <1>2, SizesAre, NextMultiple
<1>4. left \in Nat /\ 1 <= left
  BY <1>1, <1>2, SizesAre
<1>5. left # 1 => 1 < left
  BY <1>4
<1> QED BY <1>3, <1>5

\* One entry further, the root directory's cluster has moved with its position.
LEMMA RootMoves ==
  ASSUME NEW f \in FileType, RootStands(f), NEW ok \in BOOLEAN, NEW r, r = Advance(Root, f, 1, ok)
  PROVE  RootStands(r) /\ r.position = f.position + 1
<1> PICK p : p = f.position
  OBVIOUS
<1>1. p \in Nat /\ RootDirLBA \in Nat /\ p \div SectorSize \in Nat
  BY Divided, PlaceOfCluster DEF FileType
<1>2. LeftInBuffer(f) = SectorSize - (p % SectorSize) /\ LeftInBuffer(f) \in Nat /\ 1 <= LeftInBuffer(f)
  <2>1. LeftInBuffer(f) \in 1..SectorSize
    BY BufferIs
  <2> QED BY <2>1, SizesAre DEF LeftInBuffer
<1>3. PICK m : m = [f EXCEPT !.position = @ + 1]
  OBVIOUS
<1>4. /\ m \in FileType /\ m.position = p + 1 /\ m.isDirectory = f.isDirectory /\ m.size = f.size
      /\ m.firstCluster = f.firstCluster /\ m.currentCluster = f.currentCluster
  BY <1>1, <1>3 DEF FileType
<1>5. CASE 1 < LeftInBuffer(f)
  <2>1. r = m
    BY <1>3, <1>5 DEF Advance
  <2>2. (p + 1) \div SectorSize = p \div SectorSize
    BY <1>1, <1>2, <1>5, NextUnit
  <2> QED BY <1>4, <2>1, <2>2 DEF RootStands
<1>6. CASE LeftInBuffer(f) = 1
  <2>1. PICK n : n = [m EXCEPT !.currentCluster = @ + 1]
    OBVIOUS
  <2>2. /\ n.position = p + 1 /\ n.isDirectory = f.isDirectory /\ n.size = f.size
        /\ n.firstCluster = f.firstCluster /\ n.currentCluster = f.currentCluster + 1
        /\ DOMAIN n = DOMAIN m
    BY <1>4, <2>1 DEF FileType
  <2>3. r = n \/ \E b : r = [n EXCEPT !.buffer = b]
    <3>1. NextSector(Root, m) = n /\ ~AtEnd(Root, n)
      BY <2>1 DEF NextSector, AtEnd
    <3>2. PICK b : b = ReadSector(CurrentLBA(Root, n))
      OBVIOUS
    <3>3. r = IF ~ok THEN n ELSE [n EXCEPT !.buffer = b]
      BY <1>3, <1>6, <3>1, <3>2 DEF Advance
    <3> QED BY <3>3
  <2>4. /\ r.position = n.position /\ r.isDirectory = n.isDirectory /\ r.size = n.size
        /\ r.firstCluster = n.firstCluster /\ r.currentCluster = n.currentCluster
    BY <1>4, <2>2, <2>3 DEF FileType
  <2>5. (p + 1) \div SectorSize = (p \div SectorSize) + 1
    BY <1>1, <1>2, <1>6, NextUnit
  <2>6. f.currentCluster + 1 = RootDirLBA + ((p \div SectorSize) + 1)
    BY <1>1 DEF RootStands
  <2> QED BY <2>2, <2>4, <2>5, <2>6 DEF RootStands
<1>7. 1 < LeftInBuffer(f) \/ LeftInBuffer(f) = 1
  BY <1>2
<1> QED BY <1>5, <1>6, <1>7

\* A search in the root directory goes on there.
LEMMA RootSearched ==
  ASSUME Types, RootInv, ReadEntry, call.file = Root
  PROVE  RootInv'
<1> PICK f : f = files[Root]
  OBVIOUS
<1>1. f \in FileType /\ RootStands(f) /\ call \in CallType /\ call.op = "search"
  BY FilesAre DEF RootInv, Types, ReadEntry
<1>2. PICK ok \in BOOLEAN : files' = [files EXCEPT ![Root] = Advance(Root, f, 1, ok)]
  BY DEF ReadEntry, Outcomes
<1>3. files'[Root] = Advance(Root, f, 1, ok)
  BY <1>2, FilesAre
<1>4. RootStands(files'[Root])
  BY <1>1, <1>3, RootMoves
<1> PICK r, error, astray : SearchRound(r, error, astray)
  BY ReadEntryResult
<1>5. call' = IF Matches(Head(call.path), SearchedEntry)
              THEN [call EXCEPT !.op = "enter", !.found = SearchedEntry,
                                !.error = error, !.astray = astray]
              ELSE [call EXCEPT !.error = error, !.astray = astray]
  BY DEF SearchRound
<1>6. call'.op \in {"search", "enter"} /\ call'.file = Root
  BY <1>1, <1>5 DEF CallType
<1> QED BY <1>4, <1>6 DEF RootInv, RootStands

LEMMA RootStep ==
  ASSUME Types, Accounts, RootInv, EnoughHandles, Next
  PROVE  RootInv'
<1>0. /\ Root \notin Handles /\ Root \in AllFiles /\ held[Root] = NoEntry
      /\ RootStands(files[Root])
  BY FilesAre DEF Accounts, RootInv
<1>1. ASSUME NEW path \in Paths, BeginOpen(path) PROVE RootInv'
  <2>1. files' = files /\ call.op = "none"
    BY <1>1 DEF BeginOpen
  <2>2. call'.op = "search" /\ call'.path = path
    BY <1>1 DEF BeginOpen, NoCall
  <2>3. files[Root].position = 0
    BY <2>1 DEF RootInv
  <2> QED BY <1>0, <2>1, <2>2, <2>3, RootKept
<1>2. ASSUME NEW h \in AllFiles, Close(h) PROVE RootInv'
  <2>1. files' = Closed(files, h) /\ call' = call /\ call.op = "none" /\ h # Root
    BY <1>0, <1>2 DEF Close
  <2>2. files'[Root] = files[Root]
    BY <1>0, <2>1, OthersStay
  <2>3. files[Root].position = 0
    BY <2>1 DEF RootInv
  <2> QED BY <1>0, <2>1, <2>2, <2>3, RootKept
<1>3. ASSUME NEW h \in AllFiles, NEW count \in Counts, BeginRead(h, count) PROVE RootInv'
  <2>1. files' = files /\ call.op = "none" /\ h # Root
    BY <1>0, <1>3 DEF BeginRead
  <2>2. call'.op = "read" /\ call'.file = h
    BY <1>3 DEF BeginRead, NoCall
  <2>3. files[Root].position = 0
    BY <2>1 DEF RootInv
  <2> QED BY <1>0, <2>1, <2>2, <2>3, RootKept
<1>4. CASE ReadChunk
  <2>1. call.op = "read" /\ call.file # Root
    BY <1>4 DEF ReadChunk, RootInv
  <2>2. call'.op = "read" /\ call'.file = call.file
    <3>1. call \in CallType
      BY DEF Types
    <3> QED BY <1>4, <2>1, <3>1 DEF ReadChunk, CallType
  <2>3. \E r : files' = [files EXCEPT ![call.file] = r]
    BY <1>4 DEF ReadChunk
  <2>4. files'[Root] = files[Root]
    BY <1>0, <2>1, <2>3, FilesAre
  <2>5. files[Root].position = 0
    BY <2>1 DEF RootInv
  <2> QED BY <1>0, <2>1, <2>2, <2>4, <2>5, RootKept
<1>5. CASE EndRead
  <2>1. files' = files /\ call.op = "read" /\ call'.op = "none"
    BY <1>5 DEF EndRead, NoCall
  <2>2. files[Root].position = 0
    BY <2>1 DEF RootInv
  <2> QED BY <1>0, <2>1, <2>2, RootKept
<1>6. CASE ReadEntry /\ call.file = Root
  BY <1>6, RootSearched
<1>7. CASE ReadEntry /\ call.file # Root
  <2> PICK r, error, astray : SearchRound(r, error, astray)
    BY <1>7, ReadEntryResult
  <2>1. files'[Root] = files[Root]
    BY <1>0, <1>7 DEF SearchRound
  <2>2. call.op = "search" /\ call \in CallType
    BY <1>7 DEF ReadEntry, Types
  <2>3. call' = IF Matches(Head(call.path), SearchedEntry)
                THEN [call EXCEPT !.op = "enter", !.found = SearchedEntry,
                                  !.error = error, !.astray = astray]
                ELSE [call EXCEPT !.error = error, !.astray = astray]
    BY DEF SearchRound
  <2>4. call'.op # "read" /\ call'.file = call.file
    BY <2>2, <2>3 DEF CallType
  <2>5. files[Root].position = 0
    BY <1>7 DEF RootInv
  <2> QED BY <1>0, <1>7, <2>1, <2>4, <2>5, RootKept
<1>8. CASE NotFound
  <2>1. files' = Closed(files, call.file) /\ call'.op = "none" /\ call.op = "search"
    BY <1>8 DEF NotFound, Return, NoCall
  <2> QED BY <2>1, RootRewound, RootKept
<1>9. ASSUME NEW ok \in BOOLEAN, IF ok THEN Enter ELSE EnterFails PROVE RootInv'
  <2>0. PICK c, r : \E h \in AllFiles :
          /\ h = FreeHandle(c) /\ c = Closed(files, call.file) /\ Sound(h, r)
          /\ files' = [g \in AllFiles |-> IF g = h THEN r ELSE c[g]]
          /\ r.opened <=> ok \/ c[h].opened
    BY <1>9, EnterResult, Zenon
  <2>1. PICK h \in AllFiles :
          /\ h = FreeHandle(c) /\ c = Closed(files, call.file)
          /\ files' = [g \in AllFiles |-> IF g = h THEN r ELSE c[g]]
    BY <2>0
  <2>2. call.op = "enter" /\ call \in CallType
    BY <1>9 DEF Enter, EnterFails, Types
  <2>3. h # Root
    BY <1>0, <2>1, <2>2, HandleLeft
  <2>4. files'[Root] = c[Root]
    BY <1>0, <2>1, <2>3
  <2>5. \/ call'.op \in {"none", "lost"}
        \/ call'.op = "search" /\ call'.file = h
    <3>1. CASE ~ok
      BY <1>9, <2>2, <3>1 DEF EnterFails, NoCall, CallType
    <3>2. CASE ok /\ IsLast
      BY <1>9, <3>2 DEF Enter, Return, NoCall
    <3>3. CASE ok /\ ~IsLast
      BY <1>9, <2>1, <3>3 DEF Enter, Types, CallType
    <3> QED BY <3>1, <3>2, <3>3
  <2> QED BY <2>1, <2>2, <2>3, <2>4, <2>5, RootRewound, RootKept
<1>10. CASE Enter
  BY <1>9, <1>10
<1>11. CASE EnterFails
  BY <1>9, <1>11
<1> QED BY <1>1, <1>2, <1>3, <1>4, <1>5, <1>6, <1>7, <1>8, <1>10, <1>11, FilesAre DEF Next, Step

LEMMA InitInvariant ==
  ASSUME Init
  PROVE  IInv
<1>1. files[Root] = [opened |-> TRUE, isDirectory |-> TRUE, size |-> RootDirectoryEntries,
                     position |-> 0, buffer |-> RootDirLBA, firstCluster |-> RootDirLBA,
                     currentCluster |-> RootDirLBA, currentSectorInCluster |-> 0]
  BY Zenon DEF Init
<1>2. call.op = "none" /\ 0 \div SectorSize = 0 /\ RootDirLBA \in Nat
  BY GeometryAssumption, PlaceOfCluster DEF Init, NoCall
<1>3. RootInv
  BY <1>1, <1>2 DEF RootInv, RootStands
<1> QED BY <1>3, InitTypes, InitAccounts DEF IInv

LEMMA InvariantStep ==
  ASSUME EnoughHandles, IInv, [Next]_vars
  PROVE  IInv'
<1>1. Types /\ Accounts /\ RootInv
  BY DEF IInv
<1>2. Types'
  BY <1>1, TypesStep
<1>3. CASE Next
  BY <1>1, <1>2, <1>3, AccountsStep, RootStep DEF IInv
<1>4. CASE UNCHANGED vars
  BY <1>1, <1>2, <1>4 DEF vars, IInv, Accounts, Searched, NumberOpen, RootInv, RootStands
<1> QED BY <1>3, <1>4

\* While callers keep no more files open than there are handles, the root directory's
\* cluster is the one of its position, and every path begins at its first entry, in
\* whichever sector the searches before it ended and whichever of their reads failed.
THEOREM RootIsReady ==
  ASSUME EnoughHandles
  PROVE  Spec => []RootReady
<1>1. Init => IInv
  BY InitInvariant
<1>2. IInv /\ [Next]_vars => IInv'
  BY InvariantStep
<1>3. IInv => RootReady
  BY DEF IInv, RootInv, RootStands, RootReady
<1> QED BY <1>1, <1>2, <1>3, PTL DEF Spec

-----------------------------------------------------------------------------
(***************************************************************************)
(* Where a file stands.                                                    *)
(***************************************************************************)

\* The file of an entry: its size is the entry's as soon as it is known, and while
\* there are units left, cluster and sector are those of the position.
Placed(f, e) ==
  /\ f.isDirectory = Entries[e].isDirectory /\ f.position <= Length(e)
  /\ IF SizeKnown(f) THEN f.size = Length(e) ELSE f.position < Length(e)
  /\ f.position < Length(e) =>
       LET n == f.position \div SectorSize
       IN /\ f.currentCluster = Chain(e)[n \div SectorsPerCluster]
          /\ f.currentSectorInCluster = n % SectorsPerCluster

\* The buffer holds the sector of the position, or at least some sector of the file.
Buffered(f, e) ==
  f.position < Length(e) => f.buffer = SectorIn(e, f.position \div SectorSize)

Covered(f, e) ==
  f.position < Length(e) =>
    \E p \in 0 .. (Length(e) - 1) : f.buffer = SectorIn(e, p \div SectorSize)

\* A file that has just been opened stands at its first unit.
LEMMA OpenedPlaced ==
  ASSUME ChainsFit, NEW e \in DOMAIN Entries, NEW f \in FileType, NEW r,
         r = [OpenedFile(f, e) EXCEPT
                !.buffer = ReadSector(ClusterToLBA(OpenedFile(f, e).currentCluster)), !.opened = TRUE]
  PROVE  Placed(r, e) /\ Buffered(r, e) /\ r.position = 0
<1> PICK c, s, d : c = Entries[e].startCluster /\ s = Entries[e].size /\ d = Entries[e].isDirectory
  OBVIOUS
<1>1. c \in Nat /\ s \in Nat /\ d \in BOOLEAN
  BY EntryIs, EndsOutside
<1>2. PICK b : b = ReadSector(ClusterToLBA(c))
  OBVIOUS
<1>3. b = ClusterToLBA(c)
  BY <1>1, <1>2, PlaceOfCluster, SectorsAreFound
<1>4. PICK o : o = OpenedFile(f, e)
  OBVIOUS
<1>5. o = [f EXCEPT !.firstCluster = c, !.currentCluster = c, !.currentSectorInCluster = 0,
                    !.isDirectory = d, !.position = 0, !.size = s]
  BY <1>4 DEF OpenedFile
<1>6. o.currentCluster = c
  BY <1>5 DEF FileType
<1>7. r = [o EXCEPT !.buffer = b, !.opened = TRUE]
  BY <1>2, <1>4, <1>6
<1>8. /\ r.position = 0 /\ r.size = s /\ r.isDirectory = d /\ r.buffer = b
      /\ r.currentCluster = c /\ r.currentSectorInCluster = 0
  BY <1>5, <1>7 DEF FileType
<1>9. /\ 0 \div SectorSize = 0 /\ 0 \div SectorsPerCluster = 0 /\ 0 % SectorsPerCluster = 0
      /\ Length(e) \in Nat
  BY SizesAre, ContentIs
<1>10. ASSUME 0 < Length(e)
       PROVE  Chain(e)[0] = c /\ SectorIn(e, 0) = b
  <2>1. HasUnits(e)
    BY <1>10, PlaceInChain
  <2>2. Chain(e)[0] = c
    BY <2>1, LinksAre
  <2>3. ClusterToLBA(c) \in Nat
    BY <1>1, PlaceOfCluster
  <2> QED BY <1>3, <1>9, <2>2, <2>3 DEF SectorIn
<1>11. CASE d
  <2>1. HasUnits(e) /\ s = 0 /\ d = TRUE
    BY <1>1, <1>11 DEF HasUnits, ChainsFit
  <2>2. Links(e) \in Nat /\ 0 < Links(e)
    BY <2>1, LinksAre, TableSizeIs
  <2>3. 0 < Length(e)
    BY <1>9, <1>11, <2>2, PlaceInDirectory
  <2>4. Placed(r, e)
    BY <1>8, <1>9, <1>10, <2>1, <2>3 DEF Placed, SizeKnown
  <2> QED BY <1>8, <1>9, <1>10, <2>3, <2>4 DEF Buffered
<1>12. CASE ~d
  <2>1. Length(e) = s
    BY <1>12, ContentIs
  <2>2. Placed(r, e)
    BY <1>1, <1>8, <1>9, <1>10, <1>12, <2>1 DEF Placed, SizeKnown
  <2> QED BY <1>8, <1>9, <1>10, <2>2 DEF Buffered
<1> QED BY <1>11, <1>12

\* What a round of the read loop does to a file at its place.
PlacedAfter(f, e, take, ok, r, h) ==
  /\ Placed(r, e) /\ r.position = f.position + take
  /\ Buffered(f, e) /\ (ok \/ ~Loads(h, f, take)) => Buffered(r, e)
  /\ r.position < Length(e) =>
       r.buffer = f.buffer \/ r.buffer = SectorIn(e, r.position \div SectorSize)
  /\ ok /\ Stops(h, f, take, ok) => r.position = Length(e)

\* Within the sector in the buffer.
LEMMA AdvanceWithin ==
  ASSUME ChainsFit, NEW e \in DOMAIN Entries, NEW h \in Handles, NEW f \in FileType, Placed(f, e),
         NEW take \in Nat \ {0}, take < LeftInBuffer(f),
         SizeKnown(f) => take <= f.size - f.position,
         NEW ok \in BOOLEAN, NEW r, r = Advance(h, f, take, ok)
  PROVE  PlacedAfter(f, e, take, ok, r, h)
<1> PICK p, n : p = f.position /\ n = p \div SectorSize
  OBVIOUS
<1>1. p \in Nat /\ f.size \in Nat /\ f.isDirectory \in BOOLEAN /\ Length(e) \in Nat
  BY ContentIs DEF FileType
<1>2. r = [f EXCEPT !.position = @ + take]
  BY DEF Advance
<1>3. /\ r.position = p + take /\ r.size = f.size /\ r.isDirectory = f.isDirectory /\ r.buffer = f.buffer
      /\ r.currentCluster = f.currentCluster /\ r.currentSectorInCluster = f.currentSectorInCluster
  BY <1>2 DEF FileType
<1>4. (p + take) \div SectorSize = n
  BY <1>1, SizesAre, NextMultiple DEF LeftInBuffer
<1>5. SizeKnown(r) <=> SizeKnown(f)
  BY <1>3 DEF SizeKnown
<1>6. p < Length(e) /\ p + take <= Length(e) /\ (~SizeKnown(f) => p + take < Length(e))
  <2>1. CASE SizeKnown(f)
    BY <1>1, <2>1 DEF Placed
  <2>2. CASE ~SizeKnown(f)
    <3>1. p < Length(e) /\ Entries[e].isDirectory
      BY <1>1, <2>2 DEF Placed, SizeKnown
    <3>2. n \div SectorsPerCluster < Links(e)
      BY <1>1, <3>1, PlaceInChain, LinksAre, TableSizeIs
    <3>3. p + take \in Nat
      BY <1>1
    <3>4. p + take < Length(e)
      BY <1>4, <3>1, <3>2, <3>3, PlaceInDirectory
    <3> QED BY <1>1, <2>2, <3>1, <3>4
  <2> QED BY <2>1, <2>2
<1>7. Placed(r, e)
  BY <1>1, <1>3, <1>4, <1>5, <1>6 DEF Placed
<1>8. Buffered(f, e) => Buffered(r, e)
  BY <1>3, <1>4, <1>6 DEF Buffered
<1>9. ~Stops(h, f, take, ok)
  <2>1. take # LeftInBuffer(f)
    BY BufferIs, SizesAre
  <2> QED BY <2>1 DEF Stops
<1> QED BY <1>3, <1>7, <1>8, <1>9 DEF PlacedAfter

LEMMA NextPlace ==
  ASSUME NEW n \in Nat
  PROVE  IF (n % SectorsPerCluster) + 1 >= SectorsPerCluster
         THEN /\ (n + 1) \div SectorsPerCluster = (n \div SectorsPerCluster) + 1
              /\ (n + 1) % SectorsPerCluster = 0
         ELSE /\ (n + 1) \div SectorsPerCluster = n \div SectorsPerCluster
              /\ (n + 1) % SectorsPerCluster = (n % SectorsPerCluster) + 1
<1> PICK d, s : d = SectorsPerCluster /\ s = n % SectorsPerCluster
  OBVIOUS
<1>1. d \in Nat /\ d > 0 /\ s \in 0..(d - 1) /\ 1 \in Nat /\ 1 <= d - s
  BY SizesAre, Divided
<1>2. /\ 1 < d - s => (n + 1) \div d = n \div d /\ (n + 1) % d = s + 1
      /\ 1 = d - s => (n + 1) \div d = (n \div d) + 1 /\ (n + 1) % d = 0
  BY <1>1, NextMultiple
<1>3. IF s + 1 >= d THEN 1 = d - s ELSE 1 < d - s
  BY <1>1
<1> QED BY <1>2, <1>3

\* The sector behind the one in the buffer, r, is the next one of the chain.
NextIs(r, f, e, h) ==
  LET n == f.position \div SectorSize
      k == (n + 1) \div SectorsPerCluster
  IN /\ k \in 0..Links(e) /\ n + 1 \in Nat
     /\ r = [f EXCEPT !.currentCluster = Chain(e)[k],
                      !.currentSectorInCluster = (n + 1) % SectorsPerCluster]
     /\ AtEnd(h, r) <=> k = Links(e)

LEMMA NextSectorIs ==
  ASSUME ChainsFit, NEW e \in DOMAIN Entries, NEW h \in Handles, NEW f \in FileType, Placed(f, e),
         f.position < Length(e)
  PROVE  NextIs(NextSector(h, f), f, e, h)
<1> PICK n, r : n = f.position \div SectorSize /\ r = NextSector(h, f)
  OBVIOUS
<1> PICK q, s, k : /\ q = n \div SectorsPerCluster /\ s = n % SectorsPerCluster
                   /\ k = (n + 1) \div SectorsPerCluster
  OBVIOUS
<1>1. /\ n \in Nat /\ q \in 0..(Links(e) - 1) /\ HasUnits(e) /\ s \in 0..(SectorsPerCluster - 1)
      /\ f.currentCluster = Chain(e)[q] /\ f.currentSectorInCluster = s
  <2>1. f.position \in Nat
    BY DEF FileType
  <2>2. n \in Nat /\ q \in 0..(Links(e) - 1) /\ HasUnits(e)
    BY <2>1, PlaceInChain
  <2> QED BY <2>2, Divided DEF Placed
<1>2. Links(e) \in 1..TableSize /\ TableSize \in Nat
  BY <1>1, LinksAre, TableSizeIs
<1>3. /\ q \in 0..TableSize /\ Chain(e)[q] \in Clusters
      /\ q + 1 \in 1..TableSize /\ Chain(e)[q + 1] = ClusterTable[Chain(e)[q]]
  <2>1. q \in 0..TableSize /\ q < Links(e) /\ q + 1 \in 1..TableSize /\ (q + 1) - 1 = q
    BY <1>1, <1>2
  <2>2. Chain(e)[q] \in Clusters
    BY <1>1, <2>1, LinksAre
  <2>3. Chain(e)[q + 1] = After(Chain(e)[q])
    BY <1>1, <2>1, LinksAre
  <2> QED BY <2>1, <2>2, <2>3 DEF After
<1>4. h # Root
  BY DEF Root, Handles
<1>5. /\ k \in 0..Links(e)
      /\ r = [f EXCEPT !.currentCluster = Chain(e)[k],
                       !.currentSectorInCluster = (n + 1) % SectorsPerCluster]
  <2>1. CASE s + 1 >= SectorsPerCluster
    <3>2. k = q + 1 /\ (n + 1) % SectorsPerCluster = 0
      BY <1>1, <2>1, NextPlace
    <3>3. NextCluster(f.currentCluster) = Chain(e)[k]
      BY <1>1, <1>3, <3>2, ClustersAreFound DEF Clusters
    <3>4. r = [f EXCEPT !.currentSectorInCluster = 0, !.currentCluster = Chain(e)[k]]
      BY <1>1, <1>4, <2>1, <3>3 DEF NextSector, FileType
    <3>5. r = [f EXCEPT !.currentCluster = Chain(e)[k], !.currentSectorInCluster = 0]
      BY <3>4 DEF FileType
    <3>6. k \in 0..Links(e)
      BY <1>1, <1>2, <3>2
    <3> QED BY <3>2, <3>5, <3>6
  <2>2. CASE ~(s + 1 >= SectorsPerCluster)
    <3>2. k = q /\ (n + 1) % SectorsPerCluster = s + 1
      BY <1>1, <2>2, NextPlace
    <3>3. r = [f EXCEPT !.currentSectorInCluster = s + 1]
      BY <1>1, <1>4, <2>2 DEF NextSector, FileType
    <3>4. r = [f EXCEPT !.currentCluster = Chain(e)[k], !.currentSectorInCluster = s + 1]
      BY <1>1, <3>2, <3>3 DEF FileType
    <3>5. k \in 0..Links(e)
      BY <1>1, <1>2, <3>2
    <3> QED BY <3>2, <3>4, <3>5
  <2> QED BY <2>1, <2>2
<1>6. AtEnd(h, r) <=> k = Links(e)
  <2>1. k \in 0..TableSize
    BY <1>2, <1>5
  <2>2. Chain(e)[k] \in Clusters <=> k < Links(e)
    BY <1>1, <2>1, LinksAre
  <2>3. Chain(e)[k] \in Clusters \cup Ends
    BY <1>1, <2>1, LinksAre
  <2>4. r.currentCluster = Chain(e)[k]
    BY <1>5 DEF FileType
  <2>5. AtEnd(h, r) <=> Chain(e)[k] >= EndOfChain
    BY <1>4, <2>4 DEF AtEnd
  <2>6. EndOfChain \in Nat /\ \A c \in Clusters : c \in Nat /\ c < EndOfChain
    BY TableIs DEF EndOfChain, Clusters
  <2>7. Chain(e)[k] >= EndOfChain <=> Chain(e)[k] \notin Clusters
    <3>1. PICK c : c = Chain(e)[k]
      OBVIOUS
    <3> QED BY <2>3, <2>6, <3>1 DEF Ends
  <2> QED BY <1>2, <1>5, <2>2, <2>5, <2>7
<1>7. n + 1 \in Nat
  BY <1>1
<1> QED BY <1>5, <1>6, <1>7, Zenon DEF NextIs

\* The sector is used up, and the next one is read, if there is one.
LEMMA AdvanceOnward ==
  ASSUME ChainsFit, NEW e \in DOMAIN Entries, NEW h \in Handles, NEW f \in FileType, Placed(f, e),
         NEW take, take = LeftInBuffer(f), f.position < Length(e),
         SizeKnown(f) => take <= f.size - f.position,
         NEW ok \in BOOLEAN, NEW r, r = Advance(h, f, take, ok)
  PROVE  PlacedAfter(f, e, take, ok, r, h)
<1> PICK p, n, k : /\ p = f.position /\ n = p \div SectorSize
                   /\ k = (n + 1) \div SectorsPerCluster
  OBVIOUS
<1>1. p \in Nat /\ f.size \in Nat /\ f.isDirectory \in BOOLEAN /\ Length(e) \in Nat
  BY ContentIs DEF FileType
<1>2. take \in Nat \ {0} /\ ~(take < LeftInBuffer(f))
  BY BufferIs, SizesAre
<1>3. (p + take) \div SectorSize = n + 1 /\ p + take = SectorSize * (n + 1) /\ p + take \in Nat
  BY <1>1, <1>2, SizesAre, NextMultiple DEF LeftInBuffer
<1> PICK m, x : m = [f EXCEPT !.position = @ + take] /\ x = NextSector(h, m)
  OBVIOUS
<1>4. /\ HasUnits(e) /\ n \in Nat /\ n \div SectorsPerCluster \in 0..(Links(e) - 1)
      /\ Links(e) \in 1..TableSize /\ TableSize \in Nat
  BY <1>1, PlaceInChain, LinksAre, TableSizeIs
<1>5. /\ k \in 0..Links(e) /\ n + 1 \in Nat
      /\ NextSector(h, f) = [f EXCEPT !.currentCluster = Chain(e)[k],
                                      !.currentSectorInCluster = (n + 1) % SectorsPerCluster]
      /\ AtEnd(h, NextSector(h, f)) <=> k = Links(e)
  <2>1. NextIs(NextSector(h, f), f, e, h)
    BY NextSectorIs
  <2> QED BY <2>1 DEF NextIs
<1>6. x = [NextSector(h, f) EXCEPT !.position = p + take]
  BY DEF NextSector, FileType
<1>7. /\ x.position = p + take /\ x.size = f.size /\ x.isDirectory = f.isDirectory
      /\ x.buffer = f.buffer /\ x.currentCluster = Chain(e)[k]
      /\ x.currentSectorInCluster = (n + 1) % SectorsPerCluster
  <2> PICK y, c, s : y = NextSector(h, f) /\ c = Chain(e)[k] /\ s = (n + 1) % SectorsPerCluster
    OBVIOUS
  <2>1. y = [f EXCEPT !.currentCluster = c, !.currentSectorInCluster = s]
    BY <1>5
  <2>2. x = [y EXCEPT !.position = p + take]
    BY <1>6
  <2>3. DOMAIN f = {"opened", "isDirectory", "size", "position", "buffer", "firstCluster",
                    "currentCluster", "currentSectorInCluster"}
    BY DEF FileType
  <2>4. /\ DOMAIN y = DOMAIN f /\ y.size = f.size /\ y.isDirectory = f.isDirectory
        /\ y.buffer = f.buffer /\ y.currentCluster = c /\ y.currentSectorInCluster = s
    BY <2>1, <2>3
  <2>5. /\ x.position = p + take /\ x.size = y.size /\ x.isDirectory = y.isDirectory
        /\ x.buffer = y.buffer /\ x.currentCluster = y.currentCluster
        /\ x.currentSectorInCluster = y.currentSectorInCluster
    BY <2>2, <2>3, <2>4
  <2> QED BY <2>4, <2>5
<1>8. AtEnd(h, x) <=> k = Links(e)
  BY <1>5, <1>7 DEF AtEnd, FileType
<1>9. r = IF AtEnd(h, x) THEN [x EXCEPT !.size = x.position]
          ELSE IF ~ok THEN x
          ELSE [x EXCEPT !.buffer = ReadSector(CurrentLBA(h, x))]
  BY <1>2 DEF Advance
<1>10. CASE AtEnd(h, x)
  <2>1. k = Links(e) /\ r = [x EXCEPT !.size = x.position]
    BY <1>8, <1>9, <1>10
  <2>2. /\ r.position = p + take /\ r.size = p + take /\ r.isDirectory = f.isDirectory
        /\ r.buffer = f.buffer
    BY <1>5, <1>6, <1>7, <2>1 DEF FileType
  <2>3. p + take = Length(e)
    <3> PICK l \in Nat : l = Links(e)
      BY <1>4
    <3>1. PICK last \in Nat : last = l * SectorsPerCluster
      BY SizesAre
    <3>2. ~(n + 1 < last) /\ n < last
      BY <1>4, <1>5, <2>1, <3>1, QuotientBelow, SizesAre
    <3>3. n + 1 = last
      BY <1>4, <3>1, <3>2
    <3>4. PICK all \in Nat : all = last * SectorSize
      BY <3>1, SizesAre
    <3>5. p + take = all
      BY <1>3, <3>3, <3>4, SizesAre
    <3>6. Entries[e].isDirectory => Length(e) = all
      BY <3>1, <3>4, ContentIs
    <3>7. ~Entries[e].isDirectory => Length(e) <= all /\ p + take <= Length(e)
      <4> SUFFICES ASSUME ~Entries[e].isDirectory PROVE Length(e) <= all /\ p + take <= Length(e)
        OBVIOUS
      <4>1. Length(e) = Entries[e].size
        BY ContentIs
      <4>2. Length(e) <= all
        BY <3>1, <3>4, <4>1 DEF ChainsFit
      <4>3. SizeKnown(f) /\ f.size = Length(e)
        BY DEF Placed, SizeKnown
      <4> QED BY <1>1, <1>2, <4>2, <4>3
    <3> QED BY <1>1, <1>3, <3>5, <3>6, <3>7
  <2>4. SizeKnown(r)
    BY <1>1, <1>2, <2>2 DEF SizeKnown
  <2>5. Placed(r, e)
    BY <1>1, <2>2, <2>3, <2>4 DEF Placed
  <2>6. ~(r.position < Length(e))
    BY <1>1, <2>2, <2>3
  <2> QED BY <2>2, <2>3, <2>5, <2>6 DEF PlacedAfter, Buffered
<1>11. CASE ~AtEnd(h, x)
  <2>1. k < Links(e)
    BY <1>4, <1>5, <1>8, <1>11
  <2>2. PICK b : r = x \/ (ok /\ b = ReadSector(CurrentLBA(h, x)) /\ r = [x EXCEPT !.buffer = b])
    BY <1>9, <1>11
  <2>3. ok => r = [x EXCEPT !.buffer = ReadSector(CurrentLBA(h, x))]
    BY <1>9, <1>11
  <2>4. /\ r.position = p + take /\ r.size = f.size /\ r.isDirectory = f.isDirectory
        /\ r.currentCluster = Chain(e)[k]
        /\ r.currentSectorInCluster = (n + 1) % SectorsPerCluster
    BY <1>5, <1>6, <1>7, <2>2 DEF FileType
  <2>5. ok => r.buffer = SectorIn(e, n + 1)
    <3> SUFFICES ASSUME ok PROVE r.buffer = SectorIn(e, n + 1)
      OBVIOUS
    <3>1. CurrentLBA(h, x) = SectorIn(e, n + 1)
      <4>1. h # Root
        BY DEF Root, Handles
      <4> QED BY <1>7, <4>1 DEF CurrentLBA, SectorIn
    <3>2. SectorIn(e, n + 1) \in Nat
      BY <1>4, <1>5, <2>1, SectorIs
    <3>3. ReadSector(CurrentLBA(h, x)) = SectorIn(e, n + 1)
      BY <3>1, <3>2, SectorsAreFound
    <3> QED BY <1>5, <1>6, <2>3, <3>3 DEF FileType
  <2>6. ~ok => r.buffer = f.buffer
    BY <1>7, <1>9, <1>11
  <2>7. SizeKnown(r) <=> SizeKnown(f)
    BY <2>4 DEF SizeKnown
  <2>8. p + take <= Length(e) /\ (~SizeKnown(f) => p + take < Length(e))
    <3>1. CASE SizeKnown(f)
      BY <1>1, <1>2, <3>1 DEF Placed
    <3>2. CASE ~SizeKnown(f)
      <4>1. Entries[e].isDirectory
        BY <3>2 DEF Placed, SizeKnown
      <4>2. p + take < Length(e)
        BY <1>3, <2>1, <4>1, PlaceInDirectory
      <4> QED BY <1>1, <1>2, <4>2
    <3> QED BY <3>1, <3>2
  <2>9. Placed(r, e)
    BY <1>1, <1>3, <2>4, <2>7, <2>8 DEF Placed
  <2>10. Loads(h, f, take) /\ ~Stops(h, f, take, TRUE)
    BY <1>5, <1>8, <1>11 DEF Loads, Stops
  <2>11. ok => Buffered(r, e)
    BY <1>3, <2>4, <2>5 DEF Buffered
  <2>12. r.buffer = f.buffer \/ r.buffer = SectorIn(e, r.position \div SectorSize)
    BY <1>3, <2>4, <2>5, <2>6
  <2>13. ~(ok /\ Stops(h, f, take, ok))
    BY <2>10 DEF Stops
  <2> QED BY <2>4, <2>9, <2>10, <2>11, <2>12, <2>13 DEF PlacedAfter
<1> QED BY <1>10, <1>11

\* A round of the loop leaves a file at its place.
LEMMA AdvancePlaced ==
  ASSUME ChainsFit, NEW e \in DOMAIN Entries, NEW h \in Handles, NEW f \in FileType, Placed(f, e),
         NEW take \in Nat \ {0}, take <= LeftInBuffer(f),
         SizeKnown(f) => take <= f.size - f.position,
         NEW ok \in BOOLEAN
  PROVE  PlacedAfter(f, e, take, ok, Advance(h, f, take, ok), h) /\ f.position < Length(e)
<1>1. LeftInBuffer(f) \in Nat
  BY BufferIs, SizesAre
<1>2. f.position < Length(e)
  BY ContentIs DEF Placed, FileType
<1>3. CASE take < LeftInBuffer(f)
  BY <1>2, <1>3, AdvanceWithin
<1>4. CASE take = LeftInBuffer(f)
  BY <1>2, <1>4, AdvanceOnward
<1> QED BY <1>1, <1>2, <1>3, <1>4

-----------------------------------------------------------------------------
(***************************************************************************)
(* The directories on a path, and the entry it leads to.                   *)
(***************************************************************************)
LEMMA PathIs ==
  ASSUME NEW path \in Paths
  PROVE  /\ path \in Seq(DOMAIN ExtensionLength) /\ Len(path) \in Nat /\ Len(path) > 0
         /\ Last(path) = path[Len(path)]
BY CallersAssumption DEF Last

\* What is in a directory under a name are entries of the disk.
LEMMA NamedAre ==
  ASSUME NEW units, NEW name
  PROVE  Named(units, name) \subseteq DOMAIN Entries
BY DiskAssumption DEF Named

AllContents == {RootContent, <<>>} \cup { Content[e] : e \in DOMAIN Entries }

LEMMA SubdirectoryIs ==
  ASSUME NEW units, NEW name
  PROVE  Subdirectory(units, name) \in AllContents
<1> DEFINE found == { e \in Named(units, name) : Entries[e].isDirectory }
<1>1. CASE found = {}
  BY <1>1 DEF Subdirectory, AllContents
<1>2. CASE found # {}
  <2>1. (CHOOSE e \in found : TRUE) \in found
    BY <1>2
  <2>2. PICK d : d = CHOOSE e \in found : TRUE
    OBVIOUS
  <2>3. Subdirectory(units, name) = Content[d]
    BY <1>2, <2>2 DEF Subdirectory
  <2>4. d \in DOMAIN Entries
    BY <2>1, <2>2, NamedAre
  <2> QED BY <2>3, <2>4 DEF AllContents
<1> QED BY <1>1, <1>2

\* Each directory on a path is the one that its name leads to in the one before it.
LEMMA DirectoriesAre ==
  ASSUME NEW path \in Paths
  PROVE  /\ Directories(path)[0] = RootContent
         /\ \A n \in 1 .. (Len(path) - 1) :
              Directories(path)[n] = Subdirectory(Directories(path)[n - 1], path[n])
<1> PICK N : N = Len(path) - 1
  OBVIOUS
<1>1. N \in Nat
  BY PathIs
<1> DEFINE Loop(g) == g = [n \in 0..N |-> IF n = 0 THEN RootContent
                                         ELSE Subdirectory(g[n - 1], path[n])]
           step == [n \in 1..N |-> [a \in AllContents |-> Subdirectory(a, path[n])]]
<1>2. Directories(path) = CHOOSE g : Loop(g)
  BY Zenon DEF Directories
<1>3. step \in [1..N -> [AllContents -> AllContents]] /\ RootContent \in AllContents
  BY SubdirectoryIs DEF AllContents
<1>4. PICK g \in [0..N -> AllContents] : g[0] = RootContent /\ \A n \in 1..N : g[n] = step[n][g[n - 1]]
  <2> HIDE DEF step
  <2>1. PICK g : AreSteps(g, AllContents, RootContent, N, step)
    BY <1>1, <1>3, StepsRun, Zenon
  <2> QED BY <2>1, Zenon DEF AreSteps
<1>5. \A n \in 1..N : n - 1 \in 0..N /\ g[n] = Subdirectory(g[n - 1], path[n])
  <2> SUFFICES ASSUME NEW n \in 1..N
               PROVE  n - 1 \in 0..N /\ g[n] = Subdirectory(g[n - 1], path[n])
    OBVIOUS
  <2>1. n - 1 \in 0..N
    BY <1>1
  <2>2. g[n - 1] \in AllContents
    BY <1>4, <2>1
  <2>3. step[n][g[n - 1]] = Subdirectory(g[n - 1], path[n])
    BY <2>2
  <2> QED BY <1>4, <2>1, <2>3, Zenon
<1>6. Loop(g)
  <2>1. \A n \in 0..N : g[n] = IF n = 0 THEN RootContent ELSE Subdirectory(g[n - 1], path[n])
    BY <1>1, <1>4, <1>5
  <2>2. DOMAIN g = 0..N /\ g = [n \in 0..N |-> g[n]]
    BY <1>4
  <2> QED BY <2>1, <2>2
<1>7. PICK k : k = CHOOSE h : Loop(h)
  OBVIOUS
<1>8. Loop(k)
  <2> HIDE DEF Loop
  <2> QED BY <1>6, <1>7
<1>9. k[0] = RootContent /\ \A n \in 1..N : k[n] = Subdirectory(k[n - 1], path[n])
  <2>1. 0 \in 0..N /\ \A n \in 1..N : n \in 0..N /\ n # 0
    BY <1>1
  <2> QED BY <1>8, <2>1
<1> QED BY <1>2, <1>7, <1>9

LEMMA NothingNamed ==
  ASSUME NEW name
  PROVE  Named(<<>>, name) = {} /\ Subdirectory(<<>>, name) = <<>>
<1>1. Range(<<>>) = {}
  BY DEF Range
<1>2. Named(<<>>, name) = {}
  BY <1>1 DEF Named
<1> QED BY <1>2 DEF Subdirectory

\* A path one of whose names is not where it should be leads nowhere.
LEMMA LeadsNowhere ==
  ASSUME NEW path \in Paths, NEW n \in 1..Len(path),
         Named(Directories(path)[n - 1], path[n]) = {}
  PROVE  Resolve[path] = NoEntry
<1> PICK N, at : N = Len(path) - 1 /\ at = Directories(path)
  OBVIOUS
<1>1. /\ N \in Nat /\ Len(path) = N + 1 /\ n \in 1..(N + 1)
      /\ \A i \in 1..N : at[i] = Subdirectory(at[i - 1], path[i])
  BY PathIs, DirectoriesAre
<1>2. n <= N => at[n] = <<>>
  <2> SUFFICES ASSUME n <= N PROVE at[n] = <<>>
    OBVIOUS
  <2>1. at[n] = Subdirectory(at[n - 1], path[n])
    BY <1>1
  <2>2. Named(at[n - 1], path[n]) = {}
    OBVIOUS
  <2> QED BY <2>1, <2>2 DEF Subdirectory
<1> DEFINE S == { i \in 0..N : i >= n => at[i] = <<>> }
<1>3. 0 \in S
  BY <1>1
<1>4. ASSUME NEW i \in 1..N, i - 1 \in S PROVE i \in S
  <2>1. i >= n => i = n \/ i - 1 >= n
    BY <1>1
  <2>2. i - 1 >= n => at[i] = <<>>
    <3> SUFFICES ASSUME i - 1 >= n PROVE at[i] = <<>>
      OBVIOUS
    <3>1. at[i - 1] = <<>>
      BY <1>4
    <3> QED BY <1>1, <3>1, NothingNamed
  <2>3. i >= n => at[i] = <<>>
    <3>1. CASE i = n
      <4>1. n <= N
        BY <1>1, <3>1
      <4> QED BY <1>2, <3>1, <4>1
    <3> QED BY <2>1, <2>2, <3>1
  <2> QED BY <1>1, <2>3
<1> HIDE DEF S
<1>5. \A i \in 0..N : i \in S
  BY <1>1, <1>3, <1>4, CountUp, Zenon
<1>6. Named(at[N], path[N + 1]) = {}
  <2>1. CASE n = N + 1
    BY <1>1, <2>1
  <2>2. CASE n # N + 1
    <3>1. N >= n /\ N \in 0..N
      BY <1>1, <2>2
    <3>2. at[N] = <<>>
      BY <1>5, <3>1 DEF S
    <3> QED BY <3>2, NothingNamed
  <2> QED BY <2>1, <2>2
<1>7. Named(Directories(path)[Len(path) - 1], Last(path)) = {}
  BY <1>1, <1>6, PathIs
<1> QED BY <1>7 DEF Resolve

\* What is found under a name is the next directory, or what the path leads to.
LeadsOn(path, n, e) ==
  /\ n < Len(path) => Entries[e].isDirectory /\ Directories(path)[n] = Content[e]
  /\ n = Len(path) => Resolve[path] = e

LEMMA FoundLeadsOn ==
  ASSUME PathsFit, NEW path \in Paths, NEW n \in 1..Len(path),
         NEW e \in Named(Directories(path)[n - 1], path[n])
  PROVE  LeadsOn(path, n, e)
<1> PICK found : found = Named(Directories(path)[n - 1], path[n])
  OBVIOUS
<1>0. \A m \in 1..Len(path) :
        LET there == Named(Directories(path)[m - 1], path[m])
        IN /\ ExtensionLength[path[m]] = 3
           /\ \A f, g \in there : f = g
           /\ m < Len(path) => \A g \in there : Entries[g].isDirectory
  BY Zenon DEF PathsFit
<1>1. /\ e \in found /\ \A g \in found : g = e
      /\ n < Len(path) => Entries[e].isDirectory
  BY <1>0
<1>2. (CHOOSE g \in found : TRUE) = e
  BY <1>1
<1>3. ASSUME n < Len(path) PROVE Directories(path)[n] = Content[e]
  <2>1. n \in 1 .. (Len(path) - 1)
    BY <1>3, PathIs
  <2>2. Directories(path)[n] = Subdirectory(Directories(path)[n - 1], path[n])
    BY <2>1, DirectoriesAre
  <2>3. { g \in found : Entries[g].isDirectory } = found
    BY <1>1, <1>3
  <2> QED BY <1>1, <1>2, <2>2, <2>3 DEF Subdirectory
<1>4. ASSUME n = Len(path) PROVE Resolve[path] = e
  <2>1. Named(Directories(path)[Len(path) - 1], Last(path)) = found
    BY <1>4, PathIs
  <2> QED BY <1>1, <1>2, <2>1 DEF Resolve
<1> QED BY <1>1, <1>3, <1>4 DEF LeadsOn

-----------------------------------------------------------------------------
(***************************************************************************)
(* What the buffer holds of a file.                                        *)
(***************************************************************************)
EntryAt(unit) == IF unit \in DOMAIN DirectoryUnits THEN DirectoryUnits[unit] ELSE NoEntry

\* A name is in a directory if and only if one of the directory's units matches it.
LEMMA MatchIsNamed ==
  ASSUME NEW units, NEW i \in DOMAIN units, NEW name, Matches(name, EntryAt(units[i]))
  PROVE  EntryAt(units[i]) \in Named(units, name)
<1>1. EntryAt(units[i]) # NoEntry /\ Entries[EntryAt(units[i])].name = name
  BY DEF Matches
<1>2. units[i] \in DOMAIN DirectoryUnits /\ EntryAt(units[i]) = DirectoryUnits[units[i]]
  BY <1>1 DEF EntryAt
<1>3. units[i] \in Range(units)
  BY DEF Range
<1> QED BY <1>1, <1>2, <1>3 DEF Named

LEMMA NoMatchNoName ==
  ASSUME NEW units, NEW name, ExtensionLength[name] = 3,
         \A i \in DOMAIN units : ~Matches(name, EntryAt(units[i]))
  PROVE  Named(units, name) = {}
<1> SUFFICES ASSUME NEW e \in Named(units, name) PROVE FALSE
  OBVIOUS
<1>1. PICK u \in Range(units) \cap DOMAIN DirectoryUnits : e = DirectoryUnits[u] /\ Entries[e].name = name
  BY DEF Named
<1>2. PICK i \in DOMAIN units : u = units[i]
  BY <1>1 DEF Range
<1>3. e # NoEntry
  BY <1>1, DiskAssumption
<1> QED BY <1>1, <1>2, <1>3 DEF Matches, EntryAt

LEMMA WithinMultiple ==
  ASSUME NEW d \in Nat, d > 0, NEW n \in Nat, NEW take \in Nat, take < d - (n % d)
  PROVE  (n + take) \div d = n \div d /\ (n + take) % d = (n % d) + take
<1>1. n % d \in 0..(d - 1)
  BY Division
<1>2. take <= d - (n % d)
  BY <1>1
<1> QED BY <1>2, NextMultiple

LEMMA WithinSector ==
  ASSUME NEW p \in Nat, NEW n \in Nat, n < SectorSize - (p % SectorSize)
  PROVE  (p + n) \div SectorSize = p \div SectorSize /\ (p + n) % SectorSize = (p % SectorSize) + n
<1>1. SectorSize \in Nat /\ SectorSize > 0
  BY SizesAre
<1> QED BY <1>1, WithinMultiple, Zenon

\* Behind the position, as far as the buffer reaches, are the units of the file.
LEMMA UnitsBuffered ==
  ASSUME ChainsFit, NEW e \in DOMAIN Entries, NEW f \in FileType, Buffered(f, e),
         NEW n \in Nat, n < LeftInBuffer(f), f.position + n < Length(e)
  PROVE  Content[e][f.position + n + 1] = <<f.buffer, (f.position % SectorSize) + n>>
<1> PICK p, i : p = f.position /\ i = p + n + 1
  OBVIOUS
<1>1. p \in Nat /\ Length(e) \in Nat /\ p < Length(e) /\ i \in 1..Length(e) /\ i - 1 = p + n
  <2>1. p \in Nat
    BY DEF FileType
  <2> PICK l : l = Length(e)
    OBVIOUS
  <2>2. l \in Nat
    BY ContentIs
  <2>3. p < l /\ i \in 1..l /\ i - 1 = p + n
    BY <2>1, <2>2
  <2> QED BY <2>1, <2>2, <2>3
<1>2. (p + n) \div SectorSize = p \div SectorSize /\ (p + n) % SectorSize = (p % SectorSize) + n
  <2>1. n < SectorSize - (p % SectorSize)
    BY <1>1 DEF LeftInBuffer
  <2> QED BY <1>1, <2>1, WithinSector, Zenon
<1>3. Content[e][i] = <<SectorIn(e, (i - 1) \div SectorSize), (i - 1) % SectorSize>>
  BY <1>1, ContentIs
<1>4. f.buffer = SectorIn(e, p \div SectorSize)
  BY <1>1 DEF Buffered
<1> QED BY <1>1, <1>2, <1>3, <1>4

\* Even when the disk has failed, a unit of a directory is searched.
LEMMA UnitCovered ==
  ASSUME ChainsFit, NEW d \in DOMAIN Entries, Entries[d].isDirectory, NEW f \in FileType,
         Covered(f, d), f.position < Length(d)
  PROVE  \E i \in 1..Length(d) : Content[d][i] = <<f.buffer, f.position % SectorSize>>
<1>1. PICK p \in 0 .. (Length(d) - 1) : f.buffer = SectorIn(d, p \div SectorSize)
  BY DEF Covered
<1>2. Length(d) \in Nat /\ p \in Nat /\ p < Length(d) /\ f.position \in Nat
  BY <1>1, ContentIs DEF FileType
<1> PICK q, r, s, t : /\ q = p \div SectorSize /\ r = f.position % SectorSize
                      /\ s = SectorSize * q + r /\ t = SectorSize
  OBVIOUS
<1>3. q \in Nat /\ r \in 0..(t - 1) /\ t \in Nat \ {0}
  BY <1>2, Divided, SizesAre
<1>4. s = t * q + r /\ t * q \in Nat /\ s \in Nat
  BY <1>3
<1>5. s \div SectorSize = q
  <2>1. (t * q + r) \div t = q
    BY <1>3, Quotient, Zenon
  <2> QED BY <1>4, <2>1
<1>6. s % SectorSize = r
  <2>1. s = t * (s \div t) + (s % t) /\ s % t \in 0..(t - 1)
    BY <1>3, <1>4, Division
  <2> PICK m, x : m = t * q /\ x = s % t
    OBVIOUS
  <2>2. s = m + x /\ s = m + r /\ m \in Nat /\ x \in 0..(t - 1)
    BY <1>4, <1>5, <2>1
  <2>3. x = r
    BY <1>3, <2>2
  <2> QED BY <2>3
<1>7. s < Length(d)
  <2>1. q \div SectorsPerCluster < Links(d)
    BY <1>2, PlaceInChain, LinksAre, TableSizeIs
  <2> QED BY <1>4, <1>5, <2>1, PlaceInDirectory
<1>8. s + 1 \in 1..Length(d) /\ (s + 1) - 1 = s
  BY <1>2, <1>4, <1>7
<1>9. Content[d][s + 1] = <<SectorIn(d, s \div SectorSize), s % SectorSize>>
  BY <1>8, ContentIs
<1> QED BY <1>1, <1>5, <1>6, <1>8, <1>9

\* The units of the root directory lie in their sectors.
LEMMA RootUnit ==
  ASSUME NEW p \in Nat, p < RootDirectoryEntries
  PROVE  /\ p + 1 \in DOMAIN RootContent
         /\ RootContent[p + 1] = <<RootDirLBA + (p \div SectorSize), p % SectorSize>>
<1>1. p + 1 \in 1..RootDirectoryEntries /\ (p + 1) - 1 = p
  BY GeometryAssumption
<1> QED BY <1>1 DEF RootContent

-----------------------------------------------------------------------------
(***************************************************************************)
(* The reader implements the file system: what its steps are in it.        *)
(***************************************************************************)
FileHeld == [h \in Handles |-> held[h]]
Position == [h \in Handles |-> IF held[h] = NoEntry THEN 0
                               ELSE IF call.op = "read" /\ call.file = h THEN call.from
                               ELSE files[h].position]

LEMMA OpenBegins ==
  ASSUME NEW path \in Paths, call.asked = NoRequest, call'.asked = OpenRequest(path),
         answer' = NoAnswer, FileHeld' = FileHeld, Position' = Position
  PROVE  Abstract!Next
<1>1. Abstract!BeginOpen(path)
  BY DEF Abstract!BeginOpen, Abstract!Begin, Abstract!NoCall, Abstract!NoAnswer,
         NoRequest, OpenRequest, NoAnswer, FileHeld, Position
<1> QED BY <1>1 DEF Abstract!Next

LEMMA ReadBegins ==
  ASSUME NEW h \in Handles, NEW count \in Counts, FileHeld[h] # NoEntry,
         call.asked = NoRequest, call'.asked = ReadRequest(h, count),
         answer' = NoAnswer, FileHeld' = FileHeld, Position' = Position
  PROVE  Abstract!Next
<1>1. Abstract!BeginRead(h, count)
  BY DEF Abstract!BeginRead, Abstract!Begin, Abstract!NoCall, Abstract!NoAnswer,
         NoRequest, ReadRequest, NoAnswer, FileHeld, Position
<1> QED BY <1>1 DEF Abstract!Next

LEMMA StutterIs ==
  ASSUME call'.asked = call.asked, answer' = answer, FileHeld' = FileHeld, Position' = Position
  PROVE  UNCHANGED Abstract!vars
BY DEF Abstract!vars, FileHeld, Position

LEMMA NothingGiven ==
  ASSUME NEW path, call.asked = OpenRequest(path), call'.asked = NoRequest, NEW error,
         answer' = [opened |-> {}, out |-> <<>>, error |-> error],
         FileHeld' = FileHeld, Position' = Position
  PROVE  Abstract!GivesNothing(error) /\ call.asked.op = "open" /\ call.asked.path = path
BY DEF Abstract!GivesNothing, Abstract!NoCall, NoRequest, OpenRequest, FileHeld, Position

LEMMA FailIs ==
  ASSUME NEW path \in Paths, call.asked = OpenRequest(path), call'.asked = NoRequest,
         NEW error \in BOOLEAN, error \/ Resolve[path] = NoEntry \/ call.astray,
         answer' = [opened |-> {}, out |-> <<>>, error |-> error],
         FileHeld' = FileHeld, Position' = Position
  PROVE  Abstract!Next \/ WentAstray
<1>1. Abstract!GivesNothing(error) /\ call.asked.op = "open" /\ call.asked.path = path
  BY NothingGiven
<1>2. CASE error \/ Resolve[path] = NoEntry
  <2>1. Abstract!Fail
    BY <1>1, <1>2 DEF Abstract!Fail
  <2> QED BY <1>1, <2>1 DEF Abstract!Next
<1>3. CASE call.astray
  BY <1>1, <1>3 DEF WentAstray
<1> QED BY <1>2, <1>3

LEMMA OpenIs ==
  ASSUME NEW path \in Paths, call.asked = OpenRequest(path), call'.asked = NoRequest,
         NEW e \in DOMAIN Entries, e # NoEntry, Resolve[path] = e \/ call.astray,
         NEW h \in Handles, NEW error \in BOOLEAN,
         FileHeld[h] = NoEntry, FileHeld' = [FileHeld EXCEPT ![h] = e],
         Position' = [Position EXCEPT ![h] = 0],
         answer' = [opened |-> {h}, out |-> <<>>, error |-> error]
  PROVE  Abstract!Next \/ WentAstray
<1>0. /\ call.asked.op = "open" /\ call.asked.path = path
      /\ call'.asked = Abstract!NoCall
  BY DEF Abstract!NoCall, NoRequest, OpenRequest
<1>1. Abstract!Gives(e)
  BY <1>0 DEF Abstract!Gives, FileHeld, Position
<1>2. CASE Resolve[path] = e
  <2>1. Resolve[call.asked.path] = e
    BY <1>0, <1>2
  <2>2. Abstract!Open
    BY <1>0, <1>1, <2>1 DEF Abstract!Open, Abstract!Gives
  <2> QED BY <1>0, <2>2 DEF Abstract!Next
<1>3. CASE call.astray
  BY <1>1, <1>3 DEF WentAstray
<1> QED BY <1>2, <1>3

LEMMA CloseIs ==
  ASSUME NEW h \in Handles, call.asked = NoRequest, call'.asked = call.asked,
         FileHeld[h] # NoEntry, FileHeld' = [FileHeld EXCEPT ![h] = NoEntry],
         Position' = [Position EXCEPT ![h] = 0], answer' = NoAnswer
  PROVE  Abstract!Next
<1>1. Abstract!Close(h)
  BY DEF Abstract!Close, Abstract!NoCall, Abstract!NoAnswer, NoRequest, NoAnswer, FileHeld, Position
<1> QED BY <1>1 DEF Abstract!Next

\* A read of as many units as were asked for, or as there are, from the place of h.
Delivers(h, count, n, error) ==
  /\ h \in Handles /\ count \in Counts /\ n \in Nat /\ error \in BOOLEAN
  /\ call.asked = ReadRequest(h, count) /\ call'.asked = NoRequest
  /\ FileHeld[h] # NoEntry /\ FileHeld' = FileHeld
  /\ LET there == Len(Content[FileHeld[h]]) - Position[h]
     IN n = IF count < there THEN count ELSE there
  /\ Position' = [Position EXCEPT ![h] = @ + n]
  /\ answer' = [opened |-> {}, error |-> error,
                out |-> SubSeq(Content[FileHeld[h]], Position[h] + 1, Position[h] + n)]

LEMMA ReadIs ==
  ASSUME NEW h, NEW count, NEW n, NEW error, Delivers(h, count, n, error)
  PROVE  Abstract!Next
<1>1. n \in 0..n /\ h \in Handles /\ count \in Counts /\ error \in BOOLEAN
  BY DEF Delivers
<1>2. call.asked.op = "read" /\ call.asked.handle = h /\ call.asked.count = count
  BY DEF Delivers, ReadRequest
<1>3. call'.asked = Abstract!NoCall
  BY DEF Delivers, Abstract!NoCall, NoRequest
<1> PICK units : units = Content[FileHeld[h]]
  OBVIOUS
<1>4. /\ n = IF count < Len(units) - Position[h] THEN count ELSE Len(units) - Position[h]
      /\ FileHeld' = FileHeld /\ Position' = [Position EXCEPT ![h] = @ + n]
      /\ answer' = [opened |-> {}, error |-> error,
                    out |-> SubSeq(units, Position[h] + 1, Position[h] + n)]
  BY DEF Delivers
<1>5. LET k == call.asked.handle
          there == Len(Content[FileHeld[k]]) - Position[k]
          all == IF call.asked.count < there THEN call.asked.count ELSE there
      IN /\ call.asked.op = "read"
         /\ \E m \in 0..all, err \in BOOLEAN :
              /\ err \/ m = all
              /\ Position' = [Position EXCEPT ![k] = @ + m]
              /\ answer' = [opened |-> {}, error |-> err,
                            out |-> SubSeq(Content[FileHeld[k]], Position[k] + 1, Position[k] + m)]
         /\ call'.asked = Abstract!NoCall
         /\ FileHeld' = FileHeld
  BY <1>1, <1>2, <1>3, <1>4
<1>6. Abstract!Read
  BY <1>5, Zenon DEF Abstract!Read, FileHeld, Position
<1> QED BY <1>6 DEF Abstract!Next

\* Files that callers hold are at their places.
HeldInv ==
  \A h \in Handles : held[h] # NoEntry => Placed(files[h], held[h]) /\ Buffered(files[h], held[h])

\* A read has delivered what lies before its place, and what is left is what the
\* caller has asked for, or as much as there is.
Part(s, units, from, n) == s = [i \in 1..n |-> units[from + i]]

ReadSoFar(c, f, e) ==
  /\ e \in DOMAIN Entries /\ c.from \in 0..f.position
  /\ Part(c.out, Content[e], c.from, f.position - c.from)
  /\ \E count \in Counts :
       /\ c.asked = ReadRequest(c.file, count)
       /\ Least(c.left + f.position, Length(e)) = Least(c.from + count, Length(e))

ReadInv == call.op = "read" => ReadSoFar(call, files[call.file], held[call.file])

\* Between calls nothing is asked for, and an open is asked for its path.
Asked(c) ==
  /\ c.op = "none" => c.asked = NoRequest
  /\ c.op \in {"search", "enter", "lost"} => \E path \in Paths : c.asked = OpenRequest(path)

\* A search that has not gone astray is in the directory of the n-th name of its path,
\* and has not passed the name unless the disk has failed.
SearchedIn(c, f, d, path, n) ==
  /\ Entries[d].isDirectory /\ Directories(path)[n - 1] = Content[d]
  /\ Placed(f, d) /\ Covered(f, d) /\ (~c.error => Buffered(f, d))
  /\ ~c.error /\ c.op = "search" =>
       \A i \in 1..f.position : ~Matches(path[n], EntryAt(Content[d][i]))

RestOf(rest, path, n) ==
  /\ rest \in Seq(DOMAIN ExtensionLength) /\ Len(rest) = Len(path) - n + 1
  /\ \A i \in 1..Len(rest) : rest[i] = path[n + i - 1]

RootPassed(c, f, name) ==
  c.op = "search" => \A i \in 1..f.position : ~Matches(name, EntryAt(RootContent[i]))

Searching(c, f, path, n) ==
  /\ RestOf(c.path, path, n)
  /\ c.op = "enter" => c.found \in Named(Directories(path)[n - 1], path[n])
  /\ IF c.file = Root THEN n = 1 /\ RootPassed(c, f, path[1])
     ELSE \E d \in DOMAIN Entries : SearchedIn(c, f, d, path, n)

SearchInv ==
  call.op \in {"search", "enter"} /\ ~call.astray =>
    \E path \in Paths : /\ call.asked = OpenRequest(path)
                        /\ \E n \in 1..Len(path) : Searching(call, files[call.file], path, n)

FilesRight == call.error \in BOOLEAN /\ Asked(call) /\ HeldInv /\ ReadInv /\ SearchInv

\* What a step of the reader is to the file system.
Refines == Abstract!Next \/ WentAstray \/ UNCHANGED Abstract!vars

LEMMA HeldIs ==
  ASSUME IInv
  PROVE  /\ held \in [AllFiles -> DOMAIN Entries \cup {NoEntry}] /\ held[Root] = NoEntry
         /\ AllFiles = Handles \cup {Root} /\ Root \notin Handles /\ Types /\ Accounts /\ RootInv
BY FilesAre DEF IInv, Types, Accounts, AllFiles

\* A step that leaves what callers hold alone.
LEMMA FilesStay ==
  ASSUME HeldInv, held' = held, \A h \in Handles : held[h] # NoEntry => files'[h] = files[h],
         call.op # "read", call'.op # "read"
  PROVE  HeldInv' /\ FileHeld' = FileHeld /\ Position' = Position
BY DEF HeldInv, FileHeld, Position

LEMMA BeginOpenRight ==
  ASSUME IInv, FilesRight, NEW path \in Paths, BeginOpen(path)
  PROVE  FilesRight' /\ Refines
<1>1. /\ files' = files /\ held' = held /\ answer' = NoAnswer /\ call.op = "none"
      /\ call'.op = "search" /\ call'.file = Root /\ call'.path = path /\ call'.error = FALSE
      /\ call'.asked = OpenRequest(path) /\ call'.astray = FALSE /\ call.asked = NoRequest
  BY DEF BeginOpen, NoCall, FilesRight, Asked
<1>2. HeldInv' /\ FileHeld' = FileHeld /\ Position' = Position
  BY <1>1, FilesStay DEF FilesRight
<1>3. 1 \in 1..Len(path) /\ RestOf(path, path, 1)
  <2> PICK l : l = Len(path)
    OBVIOUS
  <2>1. path \in Seq(DOMAIN ExtensionLength) /\ l \in Nat /\ l > 0 /\ 1 \in 1..l /\ l = l - 1 + 1
    BY PathIs
  <2>2. \A i \in 1..l : 1 + i - 1 = i
    BY <2>1
  <2>3. \A i \in 1..l : path[i] = path[1 + i - 1]
    BY <2>2
  <2> QED BY <1>1, <2>1, <2>3 DEF RestOf
<1>4. Searching(call', files'[call'.file], path, 1)
  <2>1. files'[Root].position = 0
    BY <1>1, HeldIs DEF RootInv
  <2>2. RootPassed(call', files'[Root], path[1])
    BY <2>1 DEF RootPassed
  <2> QED BY <1>1, <1>3, <2>2 DEF Searching
<1>5. SearchInv' /\ ReadInv' /\ Asked(call')
  BY <1>1, <1>3, <1>4 DEF SearchInv, ReadInv, Asked
<1>6. Refines
  BY <1>1, <1>2, OpenBegins DEF Refines
<1> QED BY <1>1, <1>2, <1>5, <1>6 DEF FilesRight

LEMMA CloseRight ==
  ASSUME IInv, FilesRight, NEW h \in AllFiles, Close(h)
  PROVE  FilesRight' /\ Refines
<1>1. /\ files' = Closed(files, h) /\ held' = [held EXCEPT ![h] = NoEntry] /\ answer' = NoAnswer
      /\ call' = call /\ call.op = "none" /\ held[h] # NoEntry /\ call.asked = NoRequest
  BY DEF Close, FilesRight, Asked
<1>2. h \in Handles
  BY <1>1, HeldIs
<1>3. held'[h] = NoEntry /\ \A g \in Handles \ {h} : held'[g] = held[g] /\ files'[g] = files[g]
  <2>1. \A g \in Handles \ {h} : held'[g] = held[g]
    BY <1>1, HeldIs
  <2>2. \A g \in Handles \ {h} : files'[g] = files[g]
    BY <1>1, HeldIs, OthersStay
  <2> QED BY <1>1, <2>1, <2>2, HeldIs
<1>4. HeldInv'
  BY <1>3 DEF FilesRight, HeldInv
<1>5. FileHeld[h] # NoEntry /\ FileHeld' = [FileHeld EXCEPT ![h] = NoEntry]
  BY <1>1, <1>2, <1>3 DEF FileHeld
<1>6. Position' = [Position EXCEPT ![h] = 0]
  BY <1>1, <1>2, <1>3 DEF Position
<1>7. Refines
  BY <1>1, <1>2, <1>5, <1>6, CloseIs DEF Refines
<1> QED BY <1>1, <1>4, <1>7 DEF FilesRight, ReadInv, SearchInv

\* Taking no more than there is delivers no less.
LEMMA BeginReadRight ==
  ASSUME IInv, FilesRight, NEW h \in AllFiles, NEW count \in Counts, BeginRead(h, count)
  PROVE  FilesRight' /\ Refines
<1> PICK f, e, left : f = files[h] /\ e = held[h] /\ left = Clamped(f, count)
  OBVIOUS
<1>1. /\ files' = files /\ held' = held /\ answer' = NoAnswer /\ call.op = "none" /\ e # NoEntry
      /\ call' = [op |-> "read", file |-> h, path |-> <<>>, found |-> NoEntry,
                  left |-> left, out |-> <<>>, from |-> f.position, error |-> FALSE,
                  asked |-> ReadRequest(h, count), astray |-> FALSE]
      /\ call.asked = NoRequest
  BY DEF BeginRead, NoCall, FilesRight, Asked
<1>2. /\ h \in Handles /\ e \in DOMAIN Entries /\ f \in FileType /\ count \in Nat
      /\ Placed(f, e) /\ Length(e) \in Nat
  <2>1. h \in Handles /\ e \in DOMAIN Entries
    BY <1>1, HeldIs
  <2>2. Placed(f, e)
    BY <1>1, <2>1 DEF FilesRight, HeldInv
  <2> QED BY <2>1, <2>2, HeldIs, FilesAre, ContentIs, CallersAssumption
<1>3. Least(left + f.position, Length(e)) = Least(f.position + count, Length(e))
  <2> PICK p, l : p = f.position /\ l = Length(e)
    OBVIOUS
  <2>1. p \in Nat /\ l \in Nat /\ p <= l /\ f.size \in Nat
    BY <1>2 DEF Placed, FileType
  <2>2. left = IF SizeKnown(f) THEN Least(count, f.size - p) ELSE count
    BY DEF Clamped, SizeKnown
  <2>3. SizeKnown(f) => f.size = l
    BY <1>2 DEF Placed
  <2> QED BY <1>2, <2>1, <2>2, <2>3 DEF Least
<1>4. ReadSoFar(call', f, e)
  <2> PICK p : p = f.position
    OBVIOUS
  <2>1. p \in Nat /\ p \in 0..p /\ 1..(p - p) = {}
    BY <1>2 DEF FileType
  <2>2. Part(<<>>, Content[e], p, p - p)
    BY <2>1 DEF Part
  <2> QED BY <1>1, <1>2, <1>3, <2>1, <2>2 DEF ReadSoFar
<1>5. HeldInv' /\ ReadInv' /\ SearchInv' /\ (call.error \in BOOLEAN)' /\ Asked(call')
  BY <1>1, <1>4 DEF FilesRight, HeldInv, ReadInv, SearchInv, Asked
<1>6. FileHeld' = FileHeld /\ Position' = Position /\ FileHeld[h] = e
  BY <1>1, <1>2 DEF FileHeld, Position
<1>7. Refines
  <2>1. call'.asked = ReadRequest(h, count)
    BY <1>1
  <2> QED BY <1>1, <1>2, <1>6, <2>1, ReadBegins DEF Refines
<1> QED BY <1>5, <1>7 DEF FilesRight

\* Sequences as functions.
LEMMA AsFunction ==
  ASSUME NEW S, NEW s \in Seq(S)
  PROVE  s = [i \in 1..Len(s) |-> s[i]]
OBVIOUS

LEMMA Concatenated ==
  ASSUME NEW S, NEW s \in Seq(S), NEW t \in Seq(S)
  PROVE  /\ s \o t \in Seq(S) /\ Len(s \o t) = Len(s) + Len(t)
         /\ \A i \in 1 .. (Len(s) + Len(t)) :
              (s \o t)[i] = IF i <= Len(s) THEN s[i] ELSE t[i - Len(s)]
OBVIOUS

\* What has been delivered grows by the units that lie behind it.
LEMMA Delivered ==
  ASSUME NEW units, NEW from \in Nat, NEW a \in Nat, NEW b \in Nat, NEW s, NEW t,
         Part(s, units, from, a), Part(t, units, from + a, b)
  PROVE  Part(s \o t, units, from, a + b)
<1> PICK S : S = { units[i] : i \in Nat }
  OBVIOUS
<1>0. \A i \in Nat : units[i] \in S
  OBVIOUS
<1>1. s \in Seq(S) /\ Len(s) = a
  <2>1. \A i \in 1..a : from + i \in Nat
    OBVIOUS
  <2>2. s \in [1..a -> S]
    BY <1>0, <2>1 DEF Part
  <2> QED BY <2>2
<1>2. t \in Seq(S) /\ Len(t) = b
  <2>1. \A i \in 1..b : from + a + i \in Nat
    OBVIOUS
  <2>2. t \in [1..b -> S]
    BY <1>0, <2>1 DEF Part
  <2> QED BY <2>2
<1>3. /\ s \o t \in Seq(S) /\ Len(s \o t) = a + b
      /\ \A i \in 1..(a + b) : (s \o t)[i] = IF i <= a THEN s[i] ELSE t[i - a]
  BY <1>1, <1>2, Concatenated
<1>4. ASSUME NEW i \in 1..(a + b) PROVE (s \o t)[i] = units[from + i]
  <2>1. CASE i <= a
    BY <1>3, <2>1 DEF Part
  <2>2. CASE ~(i <= a)
    <3>1. i - a \in 1..b /\ from + a + (i - a) = from + i
      BY <2>2
    <3>2. t[i - a] = units[from + a + (i - a)]
      BY <3>1 DEF Part
    <3> QED BY <1>3, <2>2, <3>1, <3>2
  <2> QED BY <2>1, <2>2
<1>5. s \o t = [i \in 1..(a + b) |-> (s \o t)[i]]
  BY <1>3, AsFunction
<1> QED BY <1>4, <1>5 DEF Part

LEMMA PartIs ==
  ASSUME NEW units, NEW from \in Nat, NEW n \in Nat, NEW s, Part(s, units, from, n)
  PROVE  SubSeq(units, from + 1, from + n) = s
<1> PICK S : S = { units[i] : i \in Nat }
  OBVIOUS
<1> PICK t : t = SubSeq(units, from + 1, from + n)
  OBVIOUS
<1>1. \A i \in (from + 1)..(from + n) : units[i] \in S
  OBVIOUS
<1>2. /\ t \in Seq(S) /\ Len(t) = n
      /\ \A i \in 1..n : t[i] = units[(from + 1) + i - 1]
  <2>1. /\ t \in Seq(S)
        /\ Len(t) = IF from + 1 <= from + n THEN (from + n) - (from + 1) + 1 ELSE 0
        /\ \A i \in 1 .. ((from + n) - (from + 1) + 1) : t[i] = units[(from + 1) + i - 1]
    BY <1>1
  <2>2. (from + n) - (from + 1) + 1 = n /\ (n = 0 \/ from + 1 <= from + n)
    OBVIOUS
  <2> QED BY <2>1, <2>2
<1>3. \A i \in 1..n : (from + 1) + i - 1 = from + i
  OBVIOUS
<1>4. t = [i \in 1..n |-> t[i]]
  BY <1>2, AsFunction
<1>5. \A i \in 1..n : t[i] = units[from + i]
  BY <1>2, <1>3
<1> QED BY <1>4, <1>5 DEF Part

\* As long as no read of a sector fails, a read goes on until it has delivered what
\* was asked for, or all there is.
LEMMA ReadChunkRight ==
  ASSUME ChainsFit, "read" \notin MayFail, IInv, FilesRight, ReadChunk
  PROVE  FilesRight' /\ Refines
<1>0. Types /\ call \in CallType /\ call.op = "read" /\ held' = held /\ answer' = answer
  BY HeldIs DEF ReadChunk, Types
<1>1. PICK h, f, e : h = call.file /\ f = files[h] /\ e = held[h]
  OBVIOUS
<1>2. h \in Handles /\ f \in FileType /\ Sound(h, f) /\ ReadSoFar(call, f, e) /\ h \in AllFiles
  <2>1. h # Root
    BY <1>0, <1>1, HeldIs DEF RootInv
  <2> QED BY <1>0, <1>1, <2>1, HeldIs, FilesAre DEF FilesRight, ReadInv
<1>3. e \in DOMAIN Entries /\ e # NoEntry /\ Placed(f, e) /\ Buffered(f, e)
  BY <1>1, <1>2, DiskAssumption DEF FilesRight, HeldInv, ReadSoFar
<1>4. PICK take : take = Least(call.left, LeftInBuffer(f))
  OBVIOUS
<1>5. /\ call.left \in Nat \ {0} /\ take \in Nat \ {0} /\ take <= LeftInBuffer(f) /\ take <= call.left
      /\ LeftInBuffer(f) \in Nat
  <2>1. LeftInBuffer(f) \in Nat \ {0}
    BY <1>2, BufferIs, GeometryAssumption
  <2>2. call.left \in Nat \ {0}
    BY <1>0, FilesAre DEF ReadChunk
  <2> QED BY <1>4, <2>1, <2>2 DEF Least
<1>6. SizeKnown(f) => take <= f.size - f.position
  <2>1. SizeKnown(f) => call.left <= f.size - f.position
    BY <1>0, <1>1 DEF Types
  <2> QED BY <1>2, <1>5, <2>1 DEF FileType
<1>7. PICK r : r = Advance(h, f, take, TRUE)
  OBVIOUS
<1>8. PICK left : left = IF Stops(h, f, take, TRUE) THEN 0 ELSE call.left - take
  OBVIOUS
<1>9. /\ files' = [files EXCEPT ![h] = r]
      /\ call' = [call EXCEPT !.out = @ \o Units(f, take), !.left = left, !.error = FALSE]
  <2>1. Outcomes("read") = {TRUE}
    BY DEF Outcomes
  <2>2. /\ files' = [files EXCEPT ![h] = Advance(h, f, take, TRUE)]
        /\ call' = [call EXCEPT !.out = @ \o Units(f, take),
                                !.left = IF Stops(h, f, take, TRUE) THEN 0 ELSE @ - take,
                                !.error = Loads(h, f, take) /\ ~TRUE]
    BY <1>1, <1>4, <2>1 DEF ReadChunk
  <2>3. (Loads(h, f, take) /\ ~TRUE) = FALSE
    OBVIOUS
  <2> QED BY <1>0, <1>7, <1>8, <2>2, <2>3 DEF CallType
<1>10. /\ call'.op = "read" /\ call'.file = h /\ call'.left = left /\ call'.from = call.from
       /\ call'.error = FALSE /\ call'.out = call.out \o Units(f, take)
       /\ call'.asked = call.asked
  BY <1>0, <1>1, <1>9 DEF CallType
<1>11. files'[h] = r /\ \A g \in Handles \ {h} : files'[g] = files[g]
  BY <1>0, <1>2, <1>9, HeldIs, FilesAre
<1>12. PlacedAfter(f, e, take, TRUE, r, h) /\ f.position < Length(e)
  BY <1>2, <1>3, <1>5, <1>6, <1>7, AdvancePlaced
<1>13. /\ Placed(r, e) /\ Buffered(r, e) /\ r.position = f.position + take
       /\ Stops(h, f, take, TRUE) => r.position = Length(e)
  BY <1>3, <1>12 DEF PlacedAfter
<1> PICK p, l, from : p = f.position /\ l = Length(e) /\ from = call.from
  OBVIOUS
<1>14. p \in Nat /\ l \in Nat /\ from \in Nat /\ from <= p /\ p + take <= l
  BY <1>2, <1>3, <1>13, ContentIs DEF FileType, Placed, ReadSoFar
<1>15. Part(call'.out, Content[e], from, r.position - from)
  <2>1. Part(Units(f, take), Content[e], from + (p - from), take)
    <3>1. ASSUME NEW i \in 1..take
          PROVE  Content[e][p + i] = <<f.buffer, (f.position % SectorSize) + i - 1>>
      <4>1. /\ i - 1 \in Nat /\ i - 1 < LeftInBuffer(f) /\ p + (i - 1) < l
            /\ p + (i - 1) + 1 = p + i
        BY <1>5, <1>14
      <4>2. Content[e][p + (i - 1) + 1] = <<f.buffer, (f.position % SectorSize) + (i - 1)>>
        BY <1>2, <1>3, <4>1, UnitsBuffered
      <4>3. (f.position % SectorSize) + (i - 1) = (f.position % SectorSize) + i - 1
        <5>1. f.position % SectorSize \in Int
          BY <1>14, Divided, SizesAre
        <5> QED BY <5>1
      <4> QED BY <4>1, <4>2, <4>3
    <3>2. from + (p - from) = p
      BY <1>14
    <3> QED BY <3>1, <3>2 DEF Units, Part
  <2>2. Part(call.out, Content[e], from, p - from)
    BY <1>2 DEF ReadSoFar
  <2>3. p - from \in Nat /\ r.position - from = (p - from) + take
    BY <1>5, <1>13, <1>14
  <2>4. Part(call.out \o Units(f, take), Content[e], from, (p - from) + take)
    BY <1>5, <1>14, <2>1, <2>2, <2>3, Delivered
  <2> QED BY <1>10, <2>3, <2>4
<1>16. \E count \in Counts : /\ call'.asked = ReadRequest(call'.file, count)
                             /\ Least(left + r.position, l) = Least(from + count, l)
  <2>1. PICK count \in Counts : /\ call.asked = ReadRequest(call.file, count)
                                /\ Least(call.left + p, l) = Least(from + count, l)
    BY <1>2 DEF ReadSoFar
  <2>2. count \in Nat
    BY CallersAssumption
  <2>3. Least(left + r.position, l) = Least(call.left + p, l)
    <3>1. CASE Stops(h, f, take, TRUE)
      BY <1>5, <1>8, <1>13, <1>14, <3>1 DEF Least
    <3>2. CASE ~Stops(h, f, take, TRUE)
      <4>1. left + r.position = call.left + p
        BY <1>5, <1>8, <1>13, <1>14, <3>2
      <4> QED BY <4>1
    <3> QED BY <3>1, <3>2
  <2> QED BY <1>1, <1>10, <2>1, <2>3
<1>17. ReadSoFar(call', r, e)
  <2>1. from \in 0..r.position
    BY <1>5, <1>13, <1>14
  <2> QED BY <1>3, <1>10, <1>15, <1>16, <2>1 DEF ReadSoFar
<1>18. HeldInv'
  BY <1>0, <1>1, <1>11, <1>13 DEF FilesRight, HeldInv
<1>19. ReadInv' /\ SearchInv' /\ (call.error \in BOOLEAN)' /\ Asked(call')
  BY <1>0, <1>1, <1>10, <1>11, <1>17 DEF ReadInv, SearchInv, Asked
<1>20. FileHeld' = FileHeld /\ Position' = Position
  BY <1>0, <1>1, <1>10, <1>11 DEF FileHeld, Position
<1>21. Refines
  BY <1>0, <1>10, <1>20, StutterIs DEF Refines
<1> QED BY <1>18, <1>19, <1>21 DEF FilesRight

\* The caller gets the next units of the file.
LEMMA EndReadRight ==
  ASSUME ChainsFit, IInv, FilesRight, EndRead
  PROVE  FilesRight' /\ Refines
<1>0. /\ Types /\ call.op = "read" /\ call.left = 0 /\ call' = NoCall /\ files' = files /\ held' = held
      /\ answer' = [opened |-> {}, out |-> call.out, error |-> call.error]
      /\ call.error \in BOOLEAN
  BY HeldIs DEF EndRead, FilesRight
<1>1. PICK h, f, e : h = call.file /\ f = files[h] /\ e = held[h]
  OBVIOUS
<1>2. h \in Handles /\ f \in FileType /\ ReadSoFar(call, f, e)
  <2>1. h # Root
    BY <1>0, <1>1, HeldIs DEF RootInv
  <2> QED BY <1>0, <1>1, <2>1, HeldIs, FilesAre DEF FilesRight, ReadInv
<1>3. e \in DOMAIN Entries /\ e # NoEntry /\ Placed(f, e)
  BY <1>1, <1>2, DiskAssumption DEF FilesRight, HeldInv, ReadSoFar
<1> PICK p, l, from, n : p = f.position /\ l = Length(e) /\ from = call.from /\ n = p - from
  OBVIOUS
<1>4. p \in Nat /\ l \in Nat /\ from \in Nat /\ from <= p /\ p <= l /\ n \in Nat
  BY <1>2, <1>3, ContentIs DEF FileType, Placed, ReadSoFar
<1>5. PICK count \in Counts : call.asked = ReadRequest(h, count) /\ Least(0 + p, l) = Least(from + count, l)
  BY <1>0, <1>1, <1>2 DEF ReadSoFar
<1>6. n = IF count < l - from THEN count ELSE l - from
  <2>1. count \in Nat
    BY CallersAssumption
  <2> QED BY <1>4, <1>5, <2>1 DEF Least
<1>7. /\ call'.op = "none" /\ call'.error = FALSE /\ HeldInv'
      /\ call'.asked = NoRequest /\ Asked(call')
  BY <1>0 DEF NoCall, FilesRight, HeldInv, Asked
<1>8. FileHeld' = FileHeld /\ FileHeld[h] = e /\ FileHeld[h] # NoEntry /\ Position[h] = from
  BY <1>0, <1>1, <1>2, <1>3 DEF FileHeld, Position
<1>9. Position' = [Position EXCEPT ![h] = @ + n]
  <2>1. Position[h] + n = p
    BY <1>4, <1>8
  <2> QED BY <1>0, <1>1, <1>2, <1>3, <1>7, <2>1 DEF Position
<1>10. call.out = SubSeq(Content[e], from + 1, from + n)
  <2>1. Part(call.out, Content[e], from, n)
    BY <1>2 DEF ReadSoFar
  <2> QED BY <1>4, <2>1, PartIs
<1>11. Refines
  <2> PICK error : error = call.error
    OBVIOUS
  <2>1. Len(Content[e]) = l
    BY DEF Length
  <2>2. answer' = [opened |-> {}, error |-> error,
                   out |-> SubSeq(Content[e], Position[h] + 1, Position[h] + n)]
    BY <1>0, <1>8, <1>10
  <2>3. n = IF count < Len(Content[e]) - Position[h] THEN count ELSE Len(Content[e]) - Position[h]
    BY <1>6, <1>8, <2>1
  <2>4. Delivers(h, count, n, error)
    BY <1>0, <1>2, <1>4, <1>5, <1>7, <1>8, <1>9, <2>2, <2>3 DEF Delivers
  <2> QED BY <2>4, ReadIs DEF Refines
<1> QED BY <1>7, <1>11 DEF FilesRight, ReadInv, SearchInv

LEMMA TailIs ==
  ASSUME NEW S, NEW s \in Seq(S), s # <<>>
  PROVE  /\ Tail(s) \in Seq(S) /\ Len(Tail(s)) = Len(s) - 1
         /\ \A i \in 1 .. (Len(s) - 1) : Tail(s)[i] = s[i + 1]
OBVIOUS

\* What is left of a path begins with the name that is looked for.
LEMMA RestIs ==
  ASSUME NEW path \in Paths, NEW n \in 1..Len(path), NEW rest, RestOf(rest, path, n)
  PROVE  /\ Head(rest) = path[n] /\ (Len(rest) = 1 <=> n = Len(path))
         /\ n < Len(path) => RestOf(Tail(rest), path, n + 1)
<1> PICK l : l = Len(path)
  OBVIOUS
<1>1. /\ l \in Nat /\ n \in Nat /\ n <= l /\ rest \in Seq(DOMAIN ExtensionLength) /\ Len(rest) = l - n + 1
      /\ \A i \in 1..(l - n + 1) : rest[i] = path[n + i - 1]
  BY PathIs DEF RestOf
<1>2. Head(rest) = path[n]
  <2>1. 1 \in 1..(l - n + 1) /\ n + 1 - 1 = n
    BY <1>1
  <2>2. Head(rest) = rest[1]
    BY <1>1
  <2>3. rest[1] = path[n + 1 - 1]
    BY <1>1, <2>1
  <2> QED BY <2>1, <2>2, <2>3
<1>3. ASSUME n < l PROVE RestOf(Tail(rest), path, n + 1)
  <2>0. rest # <<>>
    BY <1>1, <1>3
  <2>1. /\ Tail(rest) \in Seq(DOMAIN ExtensionLength) /\ Len(Tail(rest)) = l - (n + 1) + 1
        /\ \A i \in 1..(l - (n + 1) + 1) : Tail(rest)[i] = rest[i + 1]
    <3>1. /\ Tail(rest) \in Seq(DOMAIN ExtensionLength) /\ Len(Tail(rest)) = Len(rest) - 1
          /\ \A i \in 1 .. (Len(rest) - 1) : Tail(rest)[i] = rest[i + 1]
      BY <1>1, <2>0, TailIs
    <3>2. Len(rest) - 1 = l - (n + 1) + 1
      BY <1>1
    <3> QED BY <3>1, <3>2
  <2>2. \A i \in 1..(l - (n + 1) + 1) : i + 1 \in 1..(l - n + 1) /\ n + (i + 1) - 1 = (n + 1) + i - 1
    BY <1>1
  <2>3. \A i \in 1..(l - (n + 1) + 1) : Tail(rest)[i] = path[(n + 1) + i - 1]
    <3> SUFFICES ASSUME NEW i \in 1..(l - (n + 1) + 1) PROVE Tail(rest)[i] = path[(n + 1) + i - 1]
      OBVIOUS
    <3>1. rest[i + 1] = path[n + (i + 1) - 1]
      BY <1>1, <2>2
    <3> QED BY <2>1, <2>2, <3>1
  <2> QED BY <2>1, <2>3 DEF RestOf
<1> QED BY <1>1, <1>2, <1>3

\* One round of the search in a directory.
LEMMA SearchOn ==
  ASSUME ChainsFit, NEW path, NEW n, NEW d \in DOMAIN Entries, NEW h \in Handles,
         NEW f \in FileType, NEW c, c.error \in BOOLEAN, SearchedIn(c, f, d, path, n), c.op = "search",
         Sound(h, f), Clamped(f, 1) = 1, NEW ok \in BOOLEAN, NEW r, r = Advance(h, f, 1, ok),
         NEW found, found = EntryAt(<<f.buffer, f.position % SectorSize>>),
         NEW b, b.error = (c.error \/ (Loads(h, f, 1) /\ ~ok)),
         b.op = "search" => ~Matches(path[n], found)
  PROVE  /\ SearchedIn(b, r, d, path, n)
         /\ Matches(path[n], found) => found \in Named(Directories(path)[n - 1], path[n])
<1>1. /\ Entries[d].isDirectory /\ Directories(path)[n - 1] = Content[d]
      /\ Placed(f, d) /\ Covered(f, d) /\ (~c.error => Buffered(f, d))
      /\ ~c.error => \A i \in 1..f.position : ~Matches(path[n], EntryAt(Content[d][i]))
  BY DEF SearchedIn
<1>2. /\ LeftInBuffer(f) \in Nat /\ 1 <= LeftInBuffer(f) /\ 1 \in Nat \ {0}
      /\ SizeKnown(f) => 1 <= f.size - f.position
  BY BufferIs, ClampedIs, SizesAre
<1>3. PlacedAfter(f, d, 1, ok, r, h) /\ f.position < Length(d)
  BY <1>1, <1>2, AdvancePlaced
<1>4. /\ Placed(r, d) /\ r.position = f.position + 1
      /\ Buffered(f, d) /\ (ok \/ ~Loads(h, f, 1)) => Buffered(r, d)
      /\ r.position < Length(d) =>
           r.buffer = f.buffer \/ r.buffer = SectorIn(d, r.position \div SectorSize)
  BY <1>3 DEF PlacedAfter
<1> PICK p, l : p = f.position /\ l = Length(d)
  OBVIOUS
<1>5. p \in Nat /\ l \in Nat /\ p < l
  BY <1>3, ContentIs DEF FileType
<1>6. Covered(r, d)
  <2> SUFFICES ASSUME r.position < l
               PROVE  \E q \in 0 .. (l - 1) : r.buffer = SectorIn(d, q \div SectorSize)
    BY DEF Covered
  <2>1. CASE r.buffer = f.buffer
    BY <1>1, <1>3, <2>1 DEF Covered
  <2>2. CASE r.buffer = SectorIn(d, r.position \div SectorSize)
    BY <1>4, <1>5, <2>2
  <2> QED BY <1>4, <2>1, <2>2
<1>7. ~b.error => ~c.error /\ Buffered(f, d) /\ Buffered(r, d)
  BY <1>1, <1>4
<1>8. ASSUME ~b.error, b.op = "search", NEW i \in 1..r.position
      PROVE  ~Matches(path[n], EntryAt(Content[d][i]))
  <2>1. i \in 1..p \/ i = p + 0 + 1
    BY <1>4, <1>5, <1>8
  <2>2. Content[d][p + 0 + 1] = <<f.buffer, (p % SectorSize) + 0>>
    <3>1. 0 \in Nat /\ 0 < LeftInBuffer(f) /\ p + 0 < l
      BY <1>2, <1>5
    <3> QED BY <1>7, <1>8, <3>1, UnitsBuffered
  <2>3. (p % SectorSize) + 0 = p % SectorSize
    <3>1. p % SectorSize \in Int
      BY <1>5, Divided, SizesAre
    <3> QED BY <3>1
  <2>4. EntryAt(Content[d][p + 0 + 1]) = found
    BY <2>2, <2>3
  <2> QED BY <1>1, <1>7, <1>8, <2>1, <2>4
<1>9. SearchedIn(b, r, d, path, n)
  BY <1>1, <1>4, <1>6, <1>7, <1>8 DEF SearchedIn
<1>10. ASSUME Matches(path[n], found) PROVE found \in Named(Directories(path)[n - 1], path[n])
  <2>1. PICK i \in 1..l : Content[d][i] = <<f.buffer, f.position % SectorSize>>
    BY <1>1, <1>3, UnitCovered
  <2>2. i \in DOMAIN Content[d] /\ EntryAt(Content[d][i]) = found
    BY <2>1, ContentIs
  <2> QED BY <1>1, <1>10, <2>2, MatchIsNamed
<1> QED BY <1>9, <1>10

\* Unless it has gone astray, a search of the root directory reads its units in turn.
LEMMA RootIsSearched ==
  ASSUME IInv, call.op = "search", call.file = Root, NEW f, f = files[Root],
         Clamped(f, 1) = 1, ~OutOfPlace(Root, f)
  PROVE  /\ f.position \in Nat /\ f.position + 1 \in DOMAIN RootContent
         /\ SearchedEntry = EntryAt(RootContent[f.position + 1])
<1> PICK p : p = f.position
  OBVIOUS
<1>1. /\ f.isDirectory /\ f.size = RootDirectoryEntries /\ Sound(Root, f)
      /\ p \in Nat /\ f.size \in Nat \ {0}
  BY HeldIs, FilesAre, GeometryAssumption DEF RootInv, RootStands, FileType
<1>2. p < RootDirectoryEntries
  <2>1. SizeKnown(f)
    BY <1>1 DEF SizeKnown
  <2>2. 1 <= f.size - p
    BY <1>1, <2>1, ClampedIs
  <2> QED BY <1>1, <2>2
<1>3. f.buffer = RootDirLBA + p \div SectorSize
  BY DEF OutOfPlace
<1>4. p + 1 \in DOMAIN RootContent /\ RootContent[p + 1] = <<f.buffer, p % SectorSize>>
  BY <1>1, <1>2, <1>3, RootUnit
<1> QED BY <1>1, <1>4 DEF SearchedEntry, EntryAt

\* A search of the root directory has passed one unit more, or found the name in it.
LEMMA RootSearchedOn ==
  ASSUME IInv, call.op = "search", call.file = Root, NEW f, f = files[Root],
         Clamped(f, 1) = 1, ~OutOfPlace(Root, f), NEW name, RootPassed(call, f, name),
         NEW b, b.op = "search" => ~Matches(name, SearchedEntry),
         NEW r, r.position = f.position + 1
  PROVE  /\ RootPassed(b, r, name)
         /\ Matches(name, SearchedEntry) => SearchedEntry \in Named(RootContent, name)
<1>1. /\ f.position \in Nat /\ f.position + 1 \in DOMAIN RootContent
      /\ SearchedEntry = EntryAt(RootContent[f.position + 1])
  BY RootIsSearched
<1>2. ASSUME b.op = "search", NEW i \in 1..r.position
      PROVE  ~Matches(name, EntryAt(RootContent[i]))
  <2>1. i \in 1..f.position \/ i = f.position + 1
    BY <1>1, <1>2
  <2> QED BY <1>1, <1>2, <2>1 DEF RootPassed
<1>3. RootPassed(b, r, name)
  BY <1>2 DEF RootPassed
<1>4. Matches(name, SearchedEntry) => SearchedEntry \in Named(RootContent, name)
  BY <1>1, MatchIsNamed
<1> QED BY <1>3, <1>4

\* A search that has read all of the root directory has passed all of its units.
LEMMA RootReadUp ==
  ASSUME IInv, call.op = "search", call.file = Root, NEW f, f = files[Root],
         Clamped(f, 1) = 0, NEW name, RootPassed(call, f, name), ExtensionLength[name] = 3
  PROVE  Named(RootContent, name) = {}
<1> PICK p : p = f.position
  OBVIOUS
<1>1. /\ f.isDirectory /\ f.size = RootDirectoryEntries /\ Sound(Root, f)
      /\ p \in Nat /\ f.size \in Nat \ {0}
  BY HeldIs, FilesAre, GeometryAssumption DEF RootInv, RootStands, FileType
<1>2. p = RootDirectoryEntries
  <2>1. SizeKnown(f) /\ p <= f.size
    BY <1>1 DEF SizeKnown, Sound
  <2>2. Least(1, f.size - p) = 0
    BY <1>1 DEF Clamped
  <2> QED BY <1>1, <2>1, <2>2 DEF Least
<1>3. \A i \in DOMAIN RootContent : ~Matches(name, EntryAt(RootContent[i]))
  <2>1. DOMAIN RootContent = 1..p
    BY <1>2 DEF RootContent
  <2> QED BY <2>1 DEF RootPassed
<1> QED BY <1>3, NoMatchNoName

LEMMA ReadEntryRight ==
  ASSUME ChainsFit, IInv, FilesRight, ReadEntry
  PROVE  FilesRight' /\ Refines
<1> PICK h, f, found : h = call.file /\ f = files[h] /\ found = SearchedEntry
  OBVIOUS
<1>1. /\ Types /\ Accounts /\ call \in CallType /\ call.op = "search" /\ held' = held /\ answer' = answer
      /\ call.error \in BOOLEAN /\ Asked(call) /\ HeldInv /\ Clamped(f, 1) = 1
      /\ h \in AllFiles /\ f \in FileType /\ Sound(h, f)
  BY HeldIs, FilesAre DEF ReadEntry, FilesRight, Types
<1> PICK name : name = Head(call.path)
  OBVIOUS
<1>2. PICK ok \in BOOLEAN :
        /\ files' = [files EXCEPT ![h] = Advance(h, f, 1, ok)]
        /\ LET error == call.error \/ (Loads(h, f, 1) /\ ~ok)
               astray == call.astray \/ OutOfPlace(h, f)
           IN call' = IF Matches(name, found)
                      THEN [call EXCEPT !.op = "enter", !.found = found,
                                        !.error = error, !.astray = astray]
                      ELSE [call EXCEPT !.error = error, !.astray = astray]
  BY DEF ReadEntry, Outcomes
<1>3. PICK r, error, astray : /\ r = Advance(h, f, 1, ok)
                              /\ error = (call.error \/ (Loads(h, f, 1) /\ ~ok))
                              /\ astray = (call.astray \/ OutOfPlace(h, f))
  OBVIOUS
<1>4. files'[h] = r /\ \A g \in AllFiles \ {h} : files'[g] = files[g]
  BY <1>1, <1>2, <1>3, FilesAre
<1>5. /\ call'.file = h /\ call'.path = call.path /\ call'.error = error
      /\ call'.astray = astray /\ call'.asked = call.asked
      /\ IF Matches(name, found) THEN call'.op = "enter" /\ call'.found = found
         ELSE call'.op = "search"
  <2>1. call' = IF Matches(name, found)
                THEN [call EXCEPT !.op = "enter", !.found = found,
                                  !.error = error, !.astray = astray]
                ELSE [call EXCEPT !.error = error, !.astray = astray]
    BY <1>2, <1>3
  <2> QED BY <1>1, <2>1 DEF CallType
<1>6. call'.op \in {"search", "enter"} /\ error \in BOOLEAN
  BY <1>3, <1>5
<1>7. SearchInv'
  <2> SUFFICES ASSUME ~astray PROVE SearchInv'
    BY <1>5 DEF SearchInv
  <2>1. ~call.astray /\ ~OutOfPlace(h, f)
    BY <1>3
  <2>2. PICK path \in Paths : /\ call.asked = OpenRequest(path)
                              /\ \E n \in 1..Len(path) : Searching(call, f, path, n)
    BY <1>1, <2>1 DEF FilesRight, SearchInv
  <2> PICK n \in 1..Len(path) : Searching(call, f, path, n)
    BY <2>2
  <2>3. RestOf(call.path, path, n) /\ name = path[n]
    BY <2>2, RestIs DEF Searching
  <2>4. Searching(call', r, path, n)
    <3>1. CASE h = Root
      <4>1. n = 1 /\ Directories(path)[n - 1] = RootContent /\ RootPassed(call, f, path[1])
        BY <2>2, <3>1, DirectoriesAre DEF Searching
      <4>2. f = files[Root] /\ call.file = Root /\ ~OutOfPlace(Root, f) /\ RootStands(f)
        BY <2>1, <3>1, HeldIs DEF RootInv
      <4>3. r.position = f.position + 1
        BY <1>1, <1>3, <3>1, <4>2, RootMoves
      <4>4. call'.op = "search" => ~Matches(path[1], SearchedEntry)
        BY <1>5, <2>3, <4>1
      <4> PICK b : b = call'
        OBVIOUS
      <4>5. /\ RootPassed(b, r, path[1])
            /\ Matches(path[1], SearchedEntry) => SearchedEntry \in Named(RootContent, path[1])
        BY <1>1, <4>1, <4>2, <4>3, <4>4, RootSearchedOn
      <4> QED BY <1>5, <2>3, <3>1, <4>1, <4>5 DEF Searching
    <3>2. CASE h # Root
      <4>1. h \in Handles
        BY <1>1, <3>2, HeldIs
      <4>2. PICK d \in DOMAIN Entries : SearchedIn(call, f, d, path, n)
        BY <2>2, <3>2 DEF Searching
      <4>3. found = EntryAt(<<f.buffer, f.position % SectorSize>>)
        BY DEF SearchedEntry, EntryAt
      <4>4. call'.op = "search" => ~Matches(path[n], found)
        BY <1>5, <2>3
      <4>5. call'.error = (call.error \/ (Loads(h, f, 1) /\ ~ok))
        BY <1>3, <1>5
      <4> PICK b : b = call'
        OBVIOUS
      <4>6. /\ SearchedIn(b, r, d, path, n)
            /\ Matches(path[n], found) => found \in Named(Directories(path)[n - 1], path[n])
        BY <1>1, <1>3, <4>1, <4>2, <4>3, <4>4, <4>5, SearchOn
      <4> QED BY <1>5, <2>3, <3>2, <4>6 DEF Searching
    <3> QED BY <3>1, <3>2
  <2>5. Searching(call', files'[call'.file], path, n)
    BY <1>4, <1>5, <2>4
  <2> QED BY <1>5, <2>2, <2>5 DEF SearchInv
<1>8. HeldInv' /\ FileHeld' = FileHeld /\ Position' = Position
  <2>1. \A g \in Handles : held[g] # NoEntry => files'[g] = files[g]
    <3> SUFFICES ASSUME NEW g \in Handles, held[g] # NoEntry PROVE files'[g] = files[g]
      OBVIOUS
    <3>1. g # h
      BY <1>1 DEF Accounts, Searched
    <3> QED BY <1>4, <3>1, HeldIs
  <2> QED BY <1>1, <1>6, <2>1, FilesStay
<1>9. ReadInv' /\ (call.error \in BOOLEAN)' /\ Asked(call')
  BY <1>1, <1>5, <1>6 DEF ReadInv, Asked
<1>10. Refines
  BY <1>1, <1>5, <1>8, StutterIs DEF Refines
<1> QED BY <1>7, <1>8, <1>9, <1>10 DEF FilesRight

\* A name is missed only where it is not, after an error of the disk, or astray.
LEMMA NotFoundRight ==
  ASSUME ChainsFit, PathsFit, IInv, FilesRight, NotFound
  PROVE  FilesRight' /\ Refines
<1> PICK h, f : h = call.file /\ f = files[h]
  OBVIOUS
<1>1. /\ Types /\ Accounts /\ call.op = "search" /\ held' = held /\ call' = NoCall
      /\ answer' = [opened |-> {}, out |-> <<>>, error |-> call.error]
      /\ files' = Closed(files, h) /\ call.error \in BOOLEAN /\ HeldInv /\ Clamped(f, 1) = 0
      /\ h \in AllFiles /\ f \in FileType /\ Sound(h, f) /\ Asked(call)
  BY HeldIs, FilesAre DEF NotFound, Return, FilesRight
<1>2. PICK path \in Paths : call.asked = OpenRequest(path)
  BY <1>1 DEF Asked
<1>3. f.size \in Nat /\ f.position \in Nat
  BY <1>1 DEF FileType
<1>4. call.error \/ Resolve[path] = NoEntry \/ call.astray
  <2> SUFFICES ASSUME ~call.error, ~call.astray PROVE Resolve[path] = NoEntry
    OBVIOUS
  <2>1. PICK q \in Paths : /\ call.asked = OpenRequest(q)
                           /\ \E n \in 1..Len(q) : Searching(call, f, q, n)
    BY <1>1 DEF FilesRight, SearchInv
  <2>2. q = path
    BY <1>2, <2>1 DEF OpenRequest
  <2> PICK n \in 1..Len(path) : Searching(call, f, path, n)
    BY <2>1, <2>2
  <2>3. ExtensionLength[path[n]] = 3
    BY <1>2 DEF PathsFit
  <2>4. CASE h = Root
    <3>1. n = 1 /\ Directories(path)[n - 1] = RootContent /\ RootPassed(call, f, path[1])
      BY <2>4, <1>2, DirectoriesAre DEF Searching
    <3>2. Named(RootContent, path[1]) = {}
      BY <1>1, <2>3, <2>4, <3>1, RootReadUp
    <3> QED BY <1>2, <3>1, <3>2, LeadsNowhere
  <2>5. CASE h # Root
    <3>1. PICK d \in DOMAIN Entries : SearchedIn(call, f, d, path, n)
      BY <2>5 DEF Searching
    <3>2. /\ Directories(path)[n - 1] = Content[d] /\ Placed(f, d)
          /\ \A i \in 1..f.position : ~Matches(path[n], EntryAt(Content[d][i]))
      BY <1>1, <3>1 DEF SearchedIn
    <3>3. f.position = Length(d)
      <4>1. SizeKnown(f) /\ f.size <= f.position
        BY <1>1, <1>3 DEF Clamped, SizeKnown, Least
      <4> QED BY <1>3, <3>2, <4>1 DEF Placed
    <3>4. \A i \in DOMAIN Content[d] : ~Matches(path[n], EntryAt(Content[d][i]))
      BY <3>2, <3>3, ContentIs
    <3>5. Named(Content[d], path[n]) = {}
      BY <2>3, <3>4, NoMatchNoName
    <3> QED BY <1>2, <3>2, <3>5, LeadsNowhere
  <2> QED BY <2>4, <2>5
<1>5. call'.op = "none" /\ call'.error = FALSE /\ call'.asked = NoRequest
  BY <1>1 DEF NoCall
<1>6. HeldInv' /\ FileHeld' = FileHeld /\ Position' = Position
  <2>1. \A g \in Handles : held[g] # NoEntry => files'[g] = files[g]
    <3> SUFFICES ASSUME NEW g \in Handles, held[g] # NoEntry PROVE files'[g] = files[g]
      OBVIOUS
    <3>1. g # h
      BY <1>1 DEF Accounts, Searched
    <3> QED BY <1>1, <3>1, HeldIs, OthersStay
  <2> QED BY <1>1, <1>5, <2>1, FilesStay
<1>7. Refines
  BY <1>1, <1>2, <1>4, <1>5, <1>6, FailIs DEF Refines
<1> QED BY <1>5, <1>6, <1>7 DEF FilesRight, SearchInv, ReadInv, Asked

\* What an open that has found a name does to the files.
Found(h, c, e) ==
  /\ e = call.found /\ e \in DOMAIN Entries /\ e # NoEntry
  /\ c = Closed(files, call.file) /\ SoundFiles(c) /\ h = FreeHandle(c)
  /\ h \in Handles /\ held[h] = NoEntry
  /\ \A g \in Handles : held[g] # NoEntry => g # h /\ c[g] = files[g]

LEMMA EnterFinds ==
  ASSUME EnoughHandles, IInv, FilesRight, call.op = "enter"
  PROVE  \E h, c, e : Found(h, c, e)
<1> PICK c, e, d : c = Closed(files, d) /\ e = call.found /\ d = call.file
  OBVIOUS
<1> PICK h : h = FreeHandle(c)
  OBVIOUS
<1>1. Types /\ Accounts /\ d \in AllFiles
  BY HeldIs, FilesAre
<1>2. e \in DOMAIN Entries /\ e # NoEntry
  BY <1>1, FilesAre, DiskAssumption DEF Types
<1>3. h \in Handles /\ held[h] = NoEntry
  BY <1>1, HandleLeft
<1>4. SoundFiles(c)
  BY <1>1, ClosedResult
<1>5. ASSUME NEW g \in Handles, held[g] # NoEntry PROVE g # h /\ c[g] = files[g]
  <2>1. g # d
    BY <1>1, <1>5 DEF Accounts, Searched
  <2> QED BY <1>1, <1>3, <1>5, <2>1, HeldIs, OthersStay
<1>6. Found(h, c, e)
  BY <1>2, <1>3, <1>4, <1>5 DEF Found
<1> QED BY <1>6

\* Unless it has gone astray, it is the entry of the path's next name.
OnTheWay(path, n, e) ==
  /\ path \in Paths /\ call.asked = OpenRequest(path) /\ n \in 1..Len(path)
  /\ RestOf(call.path, path, n) /\ (IsLast <=> n = Len(path))
  /\ n < Len(path) => Entries[e].isDirectory /\ Directories(path)[n] = Content[e]
  /\ n = Len(path) => Resolve[path] = e

LEMMA EnterLeadsOn ==
  ASSUME PathsFit, FilesRight, call.op = "enter", ~call.astray
  PROVE  \E path, n : OnTheWay(path, n, call.found)
<1> PICK e : e = call.found
  OBVIOUS
<1>1. PICK path \in Paths : /\ call.asked = OpenRequest(path)
                            /\ \E n \in 1..Len(path) : Searching(call, files[call.file], path, n)
  BY DEF FilesRight, SearchInv
<1> PICK n \in 1..Len(path) : Searching(call, files[call.file], path, n)
  BY <1>1
<1>2. RestOf(call.path, path, n) /\ e \in Named(Directories(path)[n - 1], path[n])
  BY DEF Searching
<1>3. IsLast <=> n = Len(path)
  BY <1>1, <1>2, RestIs DEF IsLast
<1>4. LeadsOn(path, n, e)
  BY <1>1, <1>2, FoundLeadsOn
<1>5. OnTheWay(path, n, e)
  BY <1>1, <1>2, <1>3, <1>4 DEF OnTheWay, LeadsOn
<1> QED BY <1>5

\* The last name of a path is opened, and the caller gets what the path leads to;
\* the search goes on in the directory of any other name.
LEMMA EnterRight ==
  ASSUME ChainsFit, PathsFit, EnoughHandles, IInv, FilesRight, Enter
  PROVE  FilesRight' /\ Refines
<1>0. /\ call.op = "enter" /\ call \in CallType /\ call.error \in BOOLEAN /\ HeldInv
      /\ held \in [AllFiles -> DOMAIN Entries \cup {NoEntry}] /\ Asked(call)
  BY HeldIs DEF Enter, FilesRight, Types
<1> PICK h, c, e : Found(h, c, e)
  BY <1>0, EnterFinds
<1>1. /\ e = call.found /\ e \in DOMAIN Entries /\ e # NoEntry
      /\ c = Closed(files, call.file) /\ h = FreeHandle(c) /\ h \in Handles /\ held[h] = NoEntry
      /\ \A g \in Handles : held[g] # NoEntry => g # h /\ c[g] = files[g]
  BY DEF Found
<1>2. DOMAIN c = AllFiles /\ c[h] \in FileType /\ h \in AllFiles
  BY <1>1, HeldIs DEF Found, SoundFiles, Sound
<1>3. PICK way \in Paths : call.asked = OpenRequest(way)
  BY <1>0 DEF Asked
<1>4. PICK o : o = OpenedFile(c[h], e)
  OBVIOUS
<1>5. PICK r : r = [o EXCEPT !.buffer = ReadSector(ClusterToLBA(o.currentCluster)), !.opened = TRUE]
  OBVIOUS
<1>6. files' = [c EXCEPT ![h] = r]
  BY <1>1, <1>4, <1>5 DEF Enter
<1>7. Placed(r, e) /\ Buffered(r, e) /\ r.position = 0
  <2>1. r = [OpenedFile(c[h], e) EXCEPT
               !.buffer = ReadSector(ClusterToLBA(OpenedFile(c[h], e).currentCluster)), !.opened = TRUE]
    BY <1>4, <1>5, Zenon
  <2>2. c[h] \in FileType /\ e \in DOMAIN Entries
    BY <1>1, <1>2
  <2> QED BY <2>1, <2>2, OpenedPlaced
<1>8. /\ files'[h] = r
      /\ \A g \in Handles : held[g] # NoEntry => g # h /\ files'[g] = files[g]
  BY <1>1, <1>2, <1>6, HeldIs
<1>9. ~call.astray => \E path, n : OnTheWay(path, n, e)
  BY <1>0, <1>1, EnterLeadsOn
<1>10. CASE IsLast
  <2>1. /\ held' = [held EXCEPT ![h] = e] /\ call' = NoCall
        /\ answer' = [opened |-> {h}, out |-> <<>>, error |-> call.error]
    BY <1>1, <1>10 DEF Enter, Return
  <2>2. call'.op = "none" /\ call'.error = FALSE /\ call'.asked = NoRequest
    BY <2>1 DEF NoCall
  <2>3. held'[h] = e /\ \A g \in Handles \ {h} : held'[g] = held[g]
    BY <1>0, <1>2, <2>1, HeldIs
  <2>4. HeldInv'
    BY <1>0, <1>7, <1>8, <2>3 DEF HeldInv
  <2>5. FileHeld[h] = NoEntry /\ FileHeld' = [FileHeld EXCEPT ![h] = e]
    BY <1>1, <2>3 DEF FileHeld
  <2>6. Position' = [Position EXCEPT ![h] = 0]
    BY <1>0, <1>1, <1>7, <1>8, <2>2, <2>3 DEF Position
  <2>7. Resolve[way] = e \/ call.astray
    <3> SUFFICES ASSUME ~call.astray PROVE Resolve[way] = e
      OBVIOUS
    <3>1. PICK path, n : OnTheWay(path, n, e)
      BY <1>9
    <3>2. path = way
      BY <1>3, <3>1 DEF OnTheWay, OpenRequest
    <3> QED BY <1>10, <3>1, <3>2 DEF OnTheWay
  <2>8. Refines
    BY <1>0, <1>1, <1>3, <2>1, <2>2, <2>5, <2>6, <2>7, OpenIs DEF Refines
  <2> QED BY <2>2, <2>4, <2>8 DEF FilesRight, ReadInv, SearchInv, Asked
<1>11. CASE ~IsLast
  <2>1. /\ held' = held /\ answer' = answer
        /\ call' = [call EXCEPT !.op = "search", !.file = h, !.path = Tail(@), !.found = NoEntry]
    BY <1>1, <1>11 DEF Enter
  <2>2. /\ call'.op = "search" /\ call'.file = h /\ call'.path = Tail(call.path)
        /\ call'.error = call.error /\ call'.asked = call.asked /\ call'.astray = call.astray
    BY <1>0, <2>1 DEF CallType
  <2>3. HeldInv' /\ FileHeld' = FileHeld /\ Position' = Position
    BY <1>0, <1>8, <2>1, <2>2, FilesStay
  <2>4. ASSUME ~call.astray, NEW path, NEW n, OnTheWay(path, n, e)
        PROVE  n + 1 \in 1..Len(path) /\ Searching(call', r, path, n + 1)
    <3>1. /\ path \in Paths /\ n \in 1..Len(path) /\ RestOf(call.path, path, n) /\ n # Len(path)
      BY <1>11, <2>4 DEF OnTheWay
    <3>2. n < Len(path) /\ n + 1 \in 1..Len(path) /\ (n + 1) - 1 = n
      BY <3>1, PathIs
    <3>3. Entries[e].isDirectory /\ Directories(path)[n] = Content[e]
      BY <2>4, <3>2 DEF OnTheWay
    <3>4. RestOf(Tail(call.path), path, n + 1)
      BY <3>1, <3>2, RestIs
    <3>5. Covered(r, e)
      <4>1. Length(e) \in Nat
        BY <1>1, ContentIs
      <4>2. 0 < Length(e) => 0 \in 0 .. (Length(e) - 1)
        BY <4>1
      <4> QED BY <1>7, <4>2 DEF Covered, Buffered
    <3>6. SearchedIn(call', r, e, path, n + 1)
      <4>1. \A i \in 1..r.position : FALSE
        BY <1>7
      <4> QED BY <1>7, <3>2, <3>3, <3>5, <4>1 DEF SearchedIn
    <3>7. Searching(call', r, path, n + 1)
      BY <1>1, <2>2, <3>4, <3>6, HeldIs DEF Searching
    <3> QED BY <3>2, <3>7
  <2>5. SearchInv'
    <3> SUFFICES ASSUME ~call.astray PROVE SearchInv'
      BY <2>2 DEF SearchInv
    <3>1. PICK path, n : OnTheWay(path, n, e)
      BY <1>9
    <3>2. n + 1 \in 1..Len(path) /\ Searching(call', files'[call'.file], path, n + 1)
      BY <1>8, <2>2, <2>4, <3>1
    <3>3. path \in Paths /\ call'.asked = OpenRequest(path)
      BY <2>2, <3>1 DEF OnTheWay
    <3> QED BY <3>2, <3>3 DEF SearchInv
  <2>6. ReadInv' /\ (call.error \in BOOLEAN)' /\ Asked(call')
    BY <1>0, <1>3, <2>2 DEF ReadInv, Asked
  <2>7. Refines
    BY <2>1, <2>2, <2>3, StutterIs DEF Refines
  <2> QED BY <2>3, <2>5, <2>6, <2>7 DEF FilesRight
<1> QED BY <1>10, <1>11

LEMMA EnterFailsRight ==
  ASSUME EnoughHandles, IInv, FilesRight, EnterFails
  PROVE  FilesRight' /\ Refines
<1>0. /\ call.op = "enter" /\ HeldInv /\ held' = held /\ Asked(call) /\ call \in CallType
      /\ call.error \in BOOLEAN
  BY HeldIs DEF EnterFails, FilesRight, Types
<1> PICK h, c, e : Found(h, c, e)
  BY <1>0, EnterFinds
<1>1. /\ e = call.found /\ c = Closed(files, call.file) /\ h = FreeHandle(c) /\ h \in Handles
      /\ \A g \in Handles : held[g] # NoEntry => g # h /\ c[g] = files[g]
  BY DEF Found
<1>2. DOMAIN c = AllFiles /\ Handles \subseteq AllFiles
  BY HeldIs DEF Found, SoundFiles
<1>3. files' = [c EXCEPT ![h] = OpenedFile(@, e)]
  BY <1>1 DEF EnterFails
<1>4. \A g \in Handles : held[g] # NoEntry => files'[g] = files[g]
  BY <1>1, <1>2, <1>3
<1>5. PICK path \in Paths : call.asked = OpenRequest(path)
  BY <1>0 DEF Asked
<1>6. CASE IsLast
  <2>1. /\ call' = NoCall /\ call'.op = "none" /\ call'.error = FALSE /\ call'.asked = NoRequest
        /\ answer' = [opened |-> {}, out |-> <<>>, error |-> TRUE]
    BY <1>6 DEF EnterFails, NoCall
  <2>2. HeldInv' /\ FileHeld' = FileHeld /\ Position' = Position
    BY <1>0, <1>4, <2>1, FilesStay
  <2>3. Refines
    BY <1>5, <2>1, <2>2, FailIs DEF Refines
  <2> QED BY <2>1, <2>2, <2>3 DEF FilesRight, ReadInv, SearchInv, Asked
<1>7. CASE ~IsLast
  <2>1. call' = [call EXCEPT !.op = "lost"] /\ answer' = answer
    BY <1>7 DEF EnterFails
  <2>2. call'.op = "lost" /\ call'.error = call.error /\ call'.asked = call.asked
    BY <1>0, <2>1 DEF CallType
  <2>3. HeldInv' /\ FileHeld' = FileHeld /\ Position' = Position
    BY <1>0, <1>4, <2>2, FilesStay
  <2>4. Refines
    BY <2>1, <2>2, <2>3, StutterIs DEF Refines
  <2> QED BY <1>0, <1>5, <2>2, <2>3, <2>4 DEF FilesRight, ReadInv, SearchInv, Asked
<1> QED BY <1>6, <1>7

LEMMA StepRight ==
  ASSUME ChainsFit, PathsFit, EnoughHandles, "read" \notin MayFail,
         IInv, FilesRight, [Next]_vars
  PROVE  FilesRight' /\ Refines
<1>1. CASE UNCHANGED vars
  <2>1. call'.asked = call.asked /\ answer' = answer /\ FileHeld' = FileHeld /\ Position' = Position
    BY <1>1 DEF vars, FileHeld, Position
  <2>2. FilesRight'
    BY <1>1 DEF vars, FilesRight, HeldInv, ReadInv, SearchInv
  <2> QED BY <2>1, <2>2, StutterIs DEF Refines
<1>2. ASSUME NEW path \in Paths, BeginOpen(path) PROVE FilesRight' /\ Refines
  BY <1>2, BeginOpenRight
<1>3. ASSUME NEW h \in AllFiles, Close(h) PROVE FilesRight' /\ Refines
  BY <1>3, CloseRight
<1>4. ASSUME NEW h \in AllFiles, NEW count \in Counts, BeginRead(h, count) PROVE FilesRight' /\ Refines
  BY <1>4, BeginReadRight
<1>5. ASSUME Step PROVE FilesRight' /\ Refines
  <2>1. CASE ReadChunk
    BY <2>1, ReadChunkRight
  <2>2. CASE EndRead
    BY <2>2, EndReadRight
  <2>3. CASE ReadEntry
    BY <2>3, ReadEntryRight
  <2>4. CASE NotFound
    BY <2>4, NotFoundRight
  <2>5. CASE Enter
    BY <2>5, EnterRight
  <2>6. CASE EnterFails
    BY <2>6, EnterFailsRight
  <2> QED BY <1>5, <2>1, <2>2, <2>3, <2>4, <2>5, <2>6 DEF Step
<1>6. DOMAIN files = AllFiles
  BY HeldIs, FilesAre
<1> QED BY <1>1, <1>2, <1>3, <1>4, <1>5, <1>6 DEF Next

LEMMA InitRight ==
  ASSUME Init
  PROVE  FilesRight /\ Abstract!Init
<1>1. /\ call.op = "none" /\ call.error = FALSE /\ call.asked = NoRequest /\ answer = NoAnswer
      /\ \A h \in Handles : held[h] = NoEntry
  BY DEF Init, NoCall
<1>2. FilesRight
  BY <1>1 DEF FilesRight, HeldInv, ReadInv, SearchInv, Asked
<1>3. Abstract!Init
  BY <1>1 DEF Abstract!Init, Abstract!NoCall, Abstract!NoAnswer, NoRequest, NoAnswer
<1> QED BY <1>2, <1>3

\* Callers get the files of the disk whichever searches and opens fail: an open that
\* has not gone astray in the root directory gives the file its path leads to, or NULL
\* for a path that leads nowhere or after an error; and a read delivers, in their
\* order, as many units of the open file as were asked for and are there, whichever
\* way it was opened.  This is so on a disk whose chains are as long as its files, for
\* paths whose names can be found and are directories' but for the last, while there
\* are handles enough and the sectors of open files are read without errors.
THEOREM Implements ==
  ASSUME ChainsFit, PathsFit, EnoughHandles, "read" \notin MayFail
  PROVE  Spec => ImplementsFileSystem
<1>1. Init => IInv /\ FilesRight /\ Abstract!Init
  BY InitInvariant, InitRight
<1>2. IInv /\ FilesRight /\ [Next]_vars =>
        (IInv /\ FilesRight)' /\ [Abstract!Next \/ WentAstray]_(Abstract!vars)
  <2> SUFFICES ASSUME IInv, FilesRight, [Next]_vars
               PROVE  (IInv /\ FilesRight)' /\ [Abstract!Next \/ WentAstray]_(Abstract!vars)
    OBVIOUS
  <2>1. IInv'
    BY InvariantStep
  <2>2. FilesRight' /\ Refines
    BY StepRight
  <2> QED BY <2>1, <2>2 DEF Refines
<1> QED BY <1>1, <1>2, PTL DEF Spec, ImplementsFileSystem
=============================================================================
