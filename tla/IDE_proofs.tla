----------------------------- MODULE IDE_proofs -----------------------------
(***************************************************************************)
(* For all drives there can be, all transfers and every error of a read:   *)
(* the types are right, the search finds the disks, and a transfer keeps   *)
(* what BlockDevice promises.                                              *)
(***************************************************************************)
EXTENDS IDE, SequenceTheorems, TLAPS

-----------------------------------------------------------------------------
(***************************************************************************)
(* Arithmetic.                                                             *)
(***************************************************************************)
LEMMA Division ==
  ASSUME NEW n \in Nat, NEW d \in Nat \ {0}
  PROVE  n \div d \in Nat /\ n % d \in 0..(d - 1) /\ n = d * (n \div d) + (n % d)
OBVIOUS

LEMMA Quotient ==
  ASSUME NEW d \in Nat \ {0}, NEW q \in Nat, NEW r \in 0..(d - 1)
  PROVE  (d * q + r) \div d = q /\ (d * q + r) % d = r
OBVIOUS

\* A quotient is below what the number is below.
LEMMA Below ==
  ASSUME NEW n \in Nat, NEW d \in Nat \ {0}, NEW k \in Nat, n < d * k
  PROVE  n \div d < k /\ (n \div d) \in 0..(k - 1)
<1>1. PICK q, r : q = n \div d /\ r = n % d
  OBVIOUS
<1>2. q \in Nat /\ r \in 0..(d - 1) /\ n = d * q + r
  BY <1>1, Division
<1>3. CASE q >= k
  <2>1. PICK e \in Nat : q = k + e
    <3>1. q - k \in Nat /\ q = k + (q - k)
      BY <1>2, <1>3
    <3> QED BY <3>1
  <2>2. d * (k + e) = d * k + d * e /\ d * e \in Nat /\ d * k \in Nat
    OBVIOUS
  <2>3. n >= d * k
    BY <1>2, <2>1, <2>2
  <2> QED BY <2>2, <2>3
<1>4. CASE ~(q >= k)
  BY <1>1, <1>2, <1>4
<1> QED BY <1>3, <1>4

\* Dividing twice.
LEMMA Twice ==
  ASSUME NEW n \in Nat, NEW c \in Nat \ {0}, NEW d \in Nat \ {0}
  PROVE  n \div (c * d) = (n \div c) \div d
<1>1. PICK q, r : q = n \div c /\ r = n % c
  OBVIOUS
<1>2. q \in Nat /\ r \in 0..(c - 1) /\ n = c * q + r
  BY <1>1, Division
<1>3. PICK s, t : s = q \div d /\ t = q % d
  OBVIOUS
<1>4. s \in Nat /\ t \in 0..(d - 1) /\ q = d * s + t
  BY <1>2, <1>3, Division
<1>5. PICK m, u : m = c * d /\ u = c * t + r
  OBVIOUS
<1>6. m \in Nat \ {0} /\ u \in 0..(m - 1)
  <2>1. PICK e \in Nat : d = t + 1 + e
    <3>1. d - 1 - t \in Nat /\ d = t + 1 + (d - 1 - t)
      BY <1>4
    <3> QED BY <3>1
  <2>2. c * (t + 1 + e) = c * t + c + c * e /\ c * e \in Nat /\ c * t \in Nat
    BY <1>4
  <2>3. m = c * t + c + c * e
    BY <1>5, <2>1, <2>2
  <2> QED BY <1>2, <1>5, <2>2, <2>3
<1>7. n = m * s + u
  <2>1. c * (d * s + t) = (c * d) * s + c * t /\ (c * d) * s \in Nat /\ c * t \in Nat
    BY <1>4
  <2> QED BY <1>2, <1>4, <1>5, <2>1
<1>8. n \div m = s
  BY <1>4, <1>6, <1>7, Quotient
<1> QED BY <1>1, <1>3, <1>5, <1>8

\* Three digits and what is left.
LEMMA Digits ==
  ASSUME NEW n \in Nat, NEW B \in Nat \ {0}
  PROVE  /\ n % B \in 0..(B - 1) /\ (n \div B) % B \in 0..(B - 1) /\ (n \div (B * B)) % B \in 0..(B - 1)
         /\ n \div (B * B * B) \in Nat
         /\ n = (n % B) + B * (((n \div B) % B) + B * ((n \div (B * B)) % B)) + B * B * B * (n \div (B * B * B))
<1>1. PICK p, a : p = n \div B /\ a = n % B
  OBVIOUS
<1>2. p \in Nat /\ a \in 0..(B - 1) /\ n = B * p + a
  BY <1>1, Division
<1>3. PICK q, b : q = p \div B /\ b = p % B
  OBVIOUS
<1>4. q \in Nat /\ b \in 0..(B - 1) /\ p = B * q + b
  BY <1>2, <1>3, Division
<1>5. PICK r, c : r = q \div B /\ c = q % B
  OBVIOUS
<1>6. r \in Nat /\ c \in 0..(B - 1) /\ q = B * r + c
  BY <1>4, <1>5, Division
<1>7. n \div (B * B) = q
  BY <1>1, <1>3, Twice
<1>8. n \div (B * B * B) = r
  <2>1. B * B \in Nat \ {0}
    OBVIOUS
  <2>2. n \div ((B * B) * B) = (n \div (B * B)) \div B
    BY <2>1, Twice
  <2> QED BY <1>5, <1>7, <2>2
<1>9. n = a + B * (b + B * c) + B * B * B * r
  <2>1. B * (B * (B * r + c) + b) = B * (b + B * c) + B * B * B * r
    BY <1>2, <1>4, <1>6
  <2>2. B * (b + B * c) \in Nat /\ B * B * B * r \in Nat
    BY <1>2, <1>4, <1>6
  <2> QED BY <1>2, <1>4, <1>6, <2>1, <2>2
<1> QED BY <1>1, <1>2, <1>3, <1>4, <1>5, <1>6, <1>7, <1>8, <1>9

-----------------------------------------------------------------------------
(***************************************************************************)
(* Addresses: the drive reads out of the registers the sector the driver   *)
(* was asked for, by number with 28 or with 48 bits and by cylinder.       *)
(***************************************************************************)
Octets == 0..(Byte - 1)
Triples == Octets \X Octets \X Octets

LEMMA Sizes ==
  /\ Byte \in Nat \ {0} /\ HeadSize \in Nat \ {0} /\ Heads \in Nat \ {0}
  /\ SectorsPerTrack \in Nat \ {0} /\ SectorsPerTrack < Byte /\ Heads <= HeadSize
  /\ Byte * Byte \in Nat \ {0} /\ Byte * Byte * Byte \in Nat \ {0} /\ LBA28Limit \in Nat
<1>1. /\ Byte \in Nat \ {0} /\ HeadSize \in Nat \ {0} /\ Heads \in Nat \ {0}
      /\ SectorsPerTrack \in Nat \ {0} /\ SectorsPerTrack < Byte /\ Heads <= HeadSize
  BY GeometryAssumption
<1>2. Byte * Byte \in Nat \ {0}
  BY <1>1
<1>3. Byte * Byte * Byte \in Nat \ {0}
  BY <1>1, <1>2
<1>4. LBA28Limit \in Nat
  BY <1>1, <1>3 DEF LBA28Limit
<1> QED BY <1>1, <1>2, <1>3, <1>4

\* The registers hold what is written to them, whatever the number.
LEMMA LBARanges ==
  ASSUME NEW n \in Nat
  PROVE  /\ LBA(n).mode = "lba" /\ LBA(n).head \in 0..(HeadSize - 1) /\ LBA(n).lba \in Triples
         /\ n < LBA28Limit => LBA(n).head = n \div (Byte * Byte * Byte)
<1>1. /\ n % Byte \in Octets /\ (n \div Byte) % Byte \in Octets
      /\ (n \div (Byte * Byte)) % Byte \in Octets
  BY Sizes, Digits DEF Octets
<1>2. LBA(n).lba \in Triples
  BY <1>1 DEF LBA, Digit, Triples
<1>3. n < LBA28Limit => n \div (Byte * Byte * Byte) \in 0..(HeadSize - 1)
  BY Sizes, Below DEF LBA28Limit
<1>4. ~(n >= LBA28Limit) <=> n < LBA28Limit
  BY Sizes
<1>5. LBA(n).head \in 0..(HeadSize - 1)
  BY <1>3, <1>4, Sizes DEF LBA
<1> QED BY <1>2, <1>4, <1>5 DEF LBA

LEMMA ByNumber ==
  ASSUME NEW n \in Nat, n < LBA28Limit
  PROVE  Value(LBA(n).lba) + Byte * Byte * Byte * LBA(n).head = n
<1>1. LBA(n).head = n \div (Byte * Byte * Byte)
  BY LBARanges
<1>2. Value(LBA(n).lba) = (n % Byte) + Byte * (((n \div Byte) % Byte)
                                             + Byte * ((n \div (Byte * Byte)) % Byte))
  BY DEF Value, LBA, Digit
<1>3. n = (n % Byte) + Byte * (((n \div Byte) % Byte) + Byte * ((n \div (Byte * Byte)) % Byte))
          + Byte * Byte * Byte * (n \div (Byte * Byte * Byte))
  BY Sizes, Digits
<1> QED BY <1>1, <1>2, <1>3

LEMMA ByLongNumber ==
  ASSUME NEW n \in 0..(Byte * Byte * Byte * Byte - 1)
  PROVE  /\ <<Digit(n \div (Byte * Byte * Byte)), 0, 0>> \in Triples
         /\ Value(LBA(n).lba) + Byte * Byte * Byte * Value(<<Digit(n \div (Byte * Byte * Byte)), 0, 0>>) = n
<1>1. PICK m : m = Byte * Byte * Byte
  OBVIOUS
<1>2. m \in Nat \ {0} /\ n \in Nat /\ n < m * Byte
  BY <1>1, Sizes
<1>3. n \div m \in 0..(Byte - 1)
  BY <1>2, Sizes, Below
<1>4. Digit(n \div m) = n \div m
  BY <1>3, Sizes DEF Digit
<1>5. Value(<<n \div m, 0, 0>>) = n \div m
  BY <1>3, Sizes DEF Value
<1>6. Value(LBA(n).lba) = (n % Byte) + Byte * (((n \div Byte) % Byte)
                                             + Byte * ((n \div (Byte * Byte)) % Byte))
  BY DEF Value, LBA, Digit
<1>7. n = (n % Byte) + Byte * (((n \div Byte) % Byte) + Byte * ((n \div (Byte * Byte)) % Byte))
          + Byte * Byte * Byte * (n \div (Byte * Byte * Byte))
  BY <1>2, Sizes, Digits
<1>8. <<n \div m, 0, 0>> \in Triples
  BY <1>3, Sizes DEF Triples, Octets
<1> QED BY <1>1, <1>4, <1>5, <1>6, <1>7, <1>8

LEMMA CHSRanges ==
  ASSUME NEW n \in Nat
  PROVE  /\ CHS(n).mode = "chs" /\ CHS(n).head \in 0..(HeadSize - 1) /\ CHS(n).lba \in Triples
         /\ n < Byte * Byte * Heads * SectorsPerTrack =>
              ((CHS(n).lba[2] + Byte * CHS(n).lba[3]) * Heads + CHS(n).head) * SectorsPerTrack
                + CHS(n).lba[1] - 1 = n
<1>1. PICK S, H, B : S = SectorsPerTrack /\ H = Heads /\ B = Byte
  OBVIOUS
<1>2. /\ S \in Nat \ {0} /\ H \in Nat \ {0} /\ B \in Nat \ {0} /\ S < B /\ H <= HeadSize
      /\ B * B \in Nat \ {0} /\ HeadSize \in Nat
  BY <1>1, Sizes
<1>3. PICK q, r : q = n \div S /\ r = n % S
  OBVIOUS
<1>4. q \in Nat /\ r \in 0..(S - 1) /\ n = S * q + r
  BY <1>2, <1>3, Division
<1>5. (n + 1 - (r + 1)) \div S = q
  <2>1. n + 1 - (r + 1) = S * q + 0
    <3>1. S * q \in Nat
      BY <1>2, <1>4
    <3> QED BY <1>4, <3>1
  <2>2. (S * q + 0) \div S = q
    BY <1>2, <1>4, Quotient
  <2> QED BY <2>1, <2>2
<1>6. PICK k, h : k = q \div H /\ h = q % H
  OBVIOUS
<1>7. k \in Nat /\ h \in 0..(H - 1) /\ q = H * k + h
  BY <1>2, <1>4, <1>6, Division
<1>8. PICK y : y = k % (B * B)
  OBVIOUS
<1>9. y \in Nat /\ y < B * B
  <2>1. PICK e : e = B * B
    OBVIOUS
  <2>2. k % e \in 0..(e - 1)
    BY <1>2, <1>7, <2>1, Division
  <2> QED BY <1>2, <1>8, <2>1, <2>2
<1>10. y % B \in 0..(B - 1) /\ y \div B \in 0..(B - 1) /\ y = B * (y \div B) + (y % B)
  <2>1. y % B \in 0..(B - 1) /\ y = B * (y \div B) + (y % B)
    BY <1>2, <1>9, Division
  <2>2. y \div B \in 0..(B - 1)
    BY <1>2, <1>9, Below
  <2> QED BY <2>1, <2>2
<1>11. CHS(n) = [mode |-> "chs", head |-> h, lba |-> <<r + 1, y % B, y \div B>>]
  BY <1>1, <1>3, <1>5, <1>6, <1>8 DEF CHS, Digit
<1>12. CHS(n).mode = "chs" /\ CHS(n).head = h /\ CHS(n).lba = <<r + 1, y % B, y \div B>>
  BY <1>11
<1>13. h \in 0..(HeadSize - 1)
  BY <1>2, <1>7
<1>14. <<r + 1, y % B, y \div B>> \in Triples
  BY <1>1, <1>2, <1>4, <1>10 DEF Triples, Octets
<1>15. ASSUME n < B * B * H * S
       PROVE  (((y % B) + B * (y \div B)) * H + h) * S + (r + 1) - 1 = n
  <2>1. q < B * B * H
    <3>1. PICK e : e = B * B * H
      OBVIOUS
    <3>2. e \in Nat /\ n < S * e
      <4>1. e \in Nat
        BY <1>2, <3>1
      <4>2. e * S = S * e
        BY <1>2, <4>1
      <4> QED BY <1>15, <3>1, <4>1, <4>2
    <3> QED BY <1>2, <1>3, <3>1, <3>2, Below
  <2>2. k < B * B
    <3>1. PICK e : e = B * B
      OBVIOUS
    <3>2. e \in Nat /\ q < H * e
      <4>1. e * H = H * e
        BY <1>2, <3>1
      <4> QED BY <1>2, <2>1, <3>1, <4>1
    <3> QED BY <1>2, <1>4, <1>6, <3>1, <3>2, Below
  <2>3. y = k
    <3>1. PICK e : e = B * B
      OBVIOUS
    <3>2. k % e = k
      BY <1>2, <1>7, <2>2, <3>1
    <3> QED BY <1>8, <3>1, <3>2
  <2>4. (k * H + h) = q
    BY <1>2, <1>7
  <2>5. (y % B) + B * (y \div B) = k
    <3>1. PICK u, v : u = y \div B /\ v = y % B
      OBVIOUS
    <3>2. u \in Nat /\ v \in Nat /\ y = B * u + v
      BY <1>2, <1>10, <3>1
    <3>3. B * u \in Nat
      BY <1>2, <3>2
    <3> QED BY <2>3, <3>1, <3>2, <3>3
  <2>6. q * S + (r + 1) - 1 = n
    <3>1. q * S = S * q /\ S * q \in Nat
      BY <1>2, <1>4
    <3> QED BY <1>4, <3>1
  <2> QED BY <2>4, <2>5, <2>6
<1> QED BY <1>1, <1>12, <1>13, <1>14, <1>15

\* Every sector below the last cylinder that two registers hold is found again
\* by the drive from the cylinder, the head and the sector that IDE_Access writes
\* (lines 233 to 243).
THEOREM CylindersAreFound ==
  ASSUME NEW n \in Nat, n < Byte * Byte * Heads * SectorsPerTrack
  PROVE  ((CHS(n).lba[2] + Byte * CHS(n).lba[3]) * Heads + CHS(n).head) * SectorsPerTrack
           + CHS(n).lba[1] - 1 = n
BY CHSRanges

-----------------------------------------------------------------------------
(***************************************************************************)
(* The ports: with the base addresses of IDE_Init a channel number reaches *)
(* the channel with that number.                                           *)
(***************************************************************************)
LEMMA BarIsNumbers ==
  ASSUME NEW n \in 0..3
  PROVE  Bar(n)[1] \in Nat
<1>1. CASE Slot \in DOMAIN ConfigSpace
  <2>1. ((16 + 4 * n) \div 4) * 4 \in Header
    BY DEF Header
  <2>2. ConfigSpace[Slot][((16 + 4 * n) \div 4) * 4] \in (0..AllOnes) \X (0..AllOnes)
    BY <1>1, <2>1, SpaceAssumption
  <2>3. Bar(n) = ConfigSpace[Slot][((16 + 4 * n) \div 4) * 4]
    BY <1>1 DEF Bar, PCI_ConfigReadLong
  <2> QED BY <2>2, <2>3
<1>2. CASE Slot \notin DOMAIN ConfigSpace
  BY <1>2 DEF Bar, PCI_ConfigReadLong, AllOnes
<1> QED BY <1>1, <1>2

LEMMA ReachesItself ==
  ASSUME channels = ChannelPorts, NEW k \in Channels
  PROVE  Reached(k) = k
<1>1. ASSUME NEW c \in Channels
      PROVE  channels[c].base = CommandBlock(c)
  <2>1. PICK b : b = Bar(2 * c)
    OBVIOUS
  <2>2. b[1] \in Nat
    BY <2>1, BarIsNumbers DEF Channels
  <2>3. channels[c].base = Port(b, <<496, 368>>[c + 1])
    BY <2>1 DEF ChannelPorts
  <2>4. <<496, 368>>[c + 1] \in Nat
    BY DEF Channels
  <2>5. Port(b, <<496, 368>>[c + 1]) =
          IF b = <<0, 0>> THEN <<496, 368>>[c + 1] ELSE (b[1] \div 4) * 4
    BY <2>2, <2>4 DEF Port
  <2> QED BY <2>1, <2>3, <2>5 DEF CommandBlock
<1>2. \A c \in Channels : channels[k].base = CommandBlock(c) => c = k
  BY <1>1, PortsAssumption DEF Channels
<1> QED BY <1>1, <1>2 DEF Reached

-----------------------------------------------------------------------------
(***************************************************************************)
(* The invariant.  The types first: what a register holds, what a drive    *)
(* does, and whether a transfer is under way.                              *)
(***************************************************************************)
RegsType == [dev : {0, 1}, mode : {"chs", "lba"}, head : 0..(HeadSize - 1), count : Octets,
             lba : Triples, prior : Triples]
DriveType == [phase : {"idle", "busy", "abort", "data", "error", "fault"},
              direction : {"none", "identify", "read", "write", "flush"},
              at : Int, left : 0..Byte]
Searching == {"init", "identify", "identified"}
Moves == {"select", "transfer", "flush"}
Site == {0, 1} \X {0, 1}

Typed ==
  /\ config \in Configurations
  /\ regs \in [Channels -> RegsType] /\ drv \in [Channels -> DriveType]
  /\ pc \in Searching \union Moves \union {"ready", "failed"}
  /\ at \in 1..5 /\ i \in Octets
  /\ pc # "init" => channels = ChannelPorts

\* The arguments are there as long as IDE_Access runs, and the device is one it
\* has reserved unless it gives up at once.
Called ==
  /\ pc \in Moves \union {"failed"} => call \in config.accesses /\ i <= call.count
  /\ pc \notin Moves \union {"failed"} => call = NoCall
  /\ pc \in Moves => call.device < Len(devices)
  /\ pc = "flush" => i = call.count

\* Only a drive that is there is busy, and one with data has a sector to move.
Works(c) == /\ Busy(c) => Present(Selected(c))
            /\ drv[c].phase = "data" => drv[c].left > 0 /\ Present(Selected(c))

\* The disks among the first n - 1 places, and how the driver lists them.
Found(n) ==
  LET m == drives IN
  CASE n = 1 -> <<>>
    [] n = 2 -> WithDisk(<<>>, m, Places[1])
    [] n = 3 -> WithDisk(WithDisk(<<>>, m, Places[1]), m, Places[2])
    [] n = 4 -> WithDisk(WithDisk(WithDisk(<<>>, m, Places[1]), m, Places[2]), m, Places[3])
    [] OTHER -> Disks
Entry(p) == [channel |-> p[1], drive |-> p[2], lba |-> drives[p].lba, size |-> drives[p].size]
Entries == [channel : {0, 1}, drive : {0, 1}, lba : BOOLEAN, size : Nat]
Listed(found) ==
  /\ devices \in Seq(Entries) /\ Len(devices) = Len(found)
  /\ \A k \in 1..Len(found) : devices[k] = Entry(found[k])

\* The drive that IDE_IdentifyDrives has asked last.
Asked(p) ==
  /\ regs[p[1]].dev = p[2]
  /\ ~Present(p) => drv[p[1]].phase = "idle"
  /\ Present(p) => /\ drv[p[1]].direction = "identify" /\ drv[p[1]].left = 1
                   /\ drv[p[1]].phase \in IF drives[p].kind = "ata" THEN {"busy", "data"}
                                          ELSE {"abort", "error"}

Searched ==
  /\ Listed(Found(at))
  /\ pc = "init" => at = 1
  /\ pc = "identified" => at <= 4 /\ Asked(Places[at])
                          /\ \A c \in Channels : c # Places[at][1] => ~Busy(c)
  /\ pc \in {"init", "identify"} => \A c \in Channels : ~Busy(c)
  /\ pc \notin Searching => at = 5

IInv == Typed /\ Called /\ (\A c \in Channels : Works(c)) /\ Searched

core == <<config, channels, devices, regs, drv, disk, pc, at, call, i>>

LEMMA Core == IInv /\ UNCHANGED core => IInv'
<1> SUFFICES ASSUME IInv, UNCHANGED core PROVE IInv'
  OBVIOUS
<1>1. /\ config' = config /\ channels' = channels /\ devices' = devices /\ regs' = regs
      /\ drv' = drv /\ disk' = disk /\ pc' = pc /\ at' = at /\ call' = call /\ i' = i
  BY DEF core
<1>2. Typed' /\ Called'
  BY <1>1 DEF IInv, Typed, Called
<1>3. (\A c \in Channels : Works(c))'
  BY <1>1 DEF IInv, Works, Busy, Present, Selected, drives
<1>4. Found(at)' = Found(at)
  BY <1>1 DEF Found, Disks, DisksOf, WithDisk, drives
<1>5. Listed(Found(at))'
  BY <1>1, <1>4 DEF IInv, Searched, Listed, Entry, drives
<1>6. Searched'
  BY <1>1, <1>5 DEF IInv, Searched, Asked, Present, Busy, drives
<1> QED BY <1>2, <1>3, <1>6 DEF IInv

-----------------------------------------------------------------------------
(***************************************************************************)
(* The disks that were found, and the drives.                              *)
(***************************************************************************)
\* One place more.
LEMMA OneMore ==
  ASSUME NEW m, NEW found \in Seq(Site), NEW p \in Site,
         \A k \in 1..Len(found) : found[k] \in DOMAIN m /\ m[found[k]].kind = "ata"
  PROVE  LET more == WithDisk(found, m, p) IN
         /\ more \in Seq(Site) /\ Len(more) <= Len(found) + 1
         /\ \A k \in 1..Len(more) : more[k] \in DOMAIN m /\ m[more[k]].kind = "ata"
<1>1. CASE p \in DOMAIN m /\ m[p].kind = "ata"
  <2>1. WithDisk(found, m, p) = Append(found, p)
    BY <1>1 DEF WithDisk
  <2>2. /\ Append(found, p) \in Seq(Site) /\ Len(Append(found, p)) = Len(found) + 1
        /\ \A k \in 1..Len(found) : Append(found, p)[k] = found[k]
        /\ Append(found, p)[Len(found) + 1] = p
    OBVIOUS
  <2>3. \A k \in 1..(Len(found) + 1) : k \in 1..Len(found) \/ k = Len(found) + 1
    OBVIOUS
  <2> QED BY <1>1, <2>1, <2>2, <2>3
<1>2. CASE ~(p \in DOMAIN m /\ m[p].kind = "ata")
  <2>1. WithDisk(found, m, p) = found
    BY <1>2 DEF WithDisk
  <2> QED BY <2>1
<1> QED BY <1>1, <1>2

AllDisks(found) ==
  /\ found \in Seq(Site)
  /\ \A k \in 1..Len(found) : found[k] \in DOMAIN drives /\ drives[found[k]].kind = "ata"

LEMMA FoundDisks ==
  ASSUME NEW n \in 1..5
  PROVE  /\ AllDisks(Found(n)) /\ Len(Found(n)) < n
         /\ n <= 4 => Found(n + 1) = WithDisk(Found(n), drives, Places[n])
<1>1. Found(1) = <<>> /\ AllDisks(Found(1)) /\ Len(Found(1)) = 0
  BY DEF Found, AllDisks
<1>2. \A k \in 1..4 : Found(k + 1) = WithDisk(Found(k), drives, Places[k])
  BY DEF Found, Disks, DisksOf, drives
<1>3. ASSUME NEW k \in 1..4, AllDisks(Found(k)), Len(Found(k)) < k
      PROVE  AllDisks(Found(k + 1)) /\ Len(Found(k + 1)) < k + 1
  <2>1. PICK f, p : f = Found(k) /\ p = Places[k]
    OBVIOUS
  <2>2. p \in Site
    BY <2>1 DEF Places, Site
  <2>3. f \in Seq(Site) /\ \A j \in 1..Len(f) : f[j] \in DOMAIN drives /\ drives[f[j]].kind = "ata"
    BY <1>3, <2>1 DEF AllDisks
  <2>4. Found(k + 1) = WithDisk(f, drives, p)
    BY <1>2, <2>1
  <2>5. AllDisks(Found(k + 1)) /\ Len(Found(k + 1)) <= Len(f) + 1
    BY <2>2, <2>3, <2>4, OneMore DEF AllDisks
  <2>6. Len(f) \in Nat /\ Len(Found(k + 1)) \in Nat
    BY <2>3, <2>5 DEF AllDisks
  <2> QED BY <1>3, <2>1, <2>5, <2>6
<1>4. AllDisks(Found(2)) /\ Len(Found(2)) < 2
  <2>1. AllDisks(Found(1 + 1)) /\ Len(Found(1 + 1)) < 1 + 1
    BY <1>1, <1>3
  <2> QED BY <2>1
<1>5. AllDisks(Found(3)) /\ Len(Found(3)) < 3
  <2>1. AllDisks(Found(2 + 1)) /\ Len(Found(2 + 1)) < 2 + 1
    BY <1>3, <1>4
  <2> QED BY <2>1
<1>6. AllDisks(Found(4)) /\ Len(Found(4)) < 4
  <2>1. AllDisks(Found(3 + 1)) /\ Len(Found(3 + 1)) < 3 + 1
    BY <1>3, <1>5
  <2> QED BY <2>1
<1>7. AllDisks(Found(5)) /\ Len(Found(5)) < 5
  <2>1. AllDisks(Found(4 + 1)) /\ Len(Found(4 + 1)) < 4 + 1
    BY <1>3, <1>6
  <2> QED BY <2>1
<1> QED BY <1>1, <1>2, <1>4, <1>5, <1>6, <1>7

LEMMA DrivesTyped ==
  ASSUME config \in Configurations, NEW p \in DOMAIN drives
  PROVE  p \in Site /\ drives[p] \in [kind : {"ata", "atapi"}, lba : BOOLEAN, size : Nat]
BY ConfigurationsAssumption DEF drives, Site

\* What the status tells.
LEMMA StatusTells ==
  ASSUME NEW c \in Channels, Works(c), Typed
  PROVE  /\ "BSY" \notin Status(c) => ~Busy(c)
         /\ ~Failed(Status(c)) => Present(Selected(c)) /\ drv[c].phase = "data"
         /\ HasData(Status(c)) => Present(Selected(c)) /\ drv[c].phase = "data"
         /\ NoDisk(Status(c)) => ~Present(Selected(c)) \/ drv[c].phase = "error"
<1>1. regs[c].dev \in {0, 1}
  BY DEF Typed, RegsType
<1>2. EmptyChannel(c) => ~Present(Selected(c))
  BY <1>1 DEF EmptyChannel, Selected
<1>3. CASE EmptyChannel(c)
  <2>1. Status(c) = {"BSY", "DRDY", "DF", "DRQ", "ERR"}
    BY <1>3 DEF Status
  <2> QED BY <1>2, <1>3, <2>1 DEF Works, Failed, HasData, NoDisk
<1>4. CASE ~EmptyChannel(c) /\ ~Present(Selected(c))
  <2>1. Status(c) = {}
    BY <1>4 DEF Status
  <2> QED BY <1>4, <2>1 DEF Works, Failed, HasData, NoDisk
<1>5. CASE ~EmptyChannel(c) /\ Present(Selected(c))
  <2>1. CASE Busy(c)
    <3>1. Status(c) = {"BSY"}
      BY <1>5, <2>1 DEF Status, Busy
    <3> QED BY <3>1 DEF Failed, HasData, NoDisk
  <2>2. CASE ~Busy(c) /\ drv[c].phase = "data"
    <3>1. Status(c) = {"DRDY", "DRQ"}
      BY <1>5, <2>2 DEF Status
    <3> QED BY <1>5, <2>2, <3>1 DEF Failed, HasData, NoDisk
  <2>3. CASE ~Busy(c) /\ drv[c].phase # "data"
    <3>1. \/ drv[c].phase = "error" /\ Status(c) = {"DRDY", "ERR"}
          \/ drv[c].phase = "fault" /\ Status(c) = {"DRDY", "DF"}
          \/ Status(c) = {"DRDY"}
      BY <1>5, <2>3 DEF Status
    <3>2. "DRQ" \notin Status(c) /\ Status(c) # {}
      BY <3>1
    <3>3. "ERR" \in Status(c) => drv[c].phase = "error"
      BY <3>1
    <3> QED BY <2>3, <3>2, <3>3 DEF Failed, HasData, NoDisk
  <2> QED BY <2>1, <2>2, <2>3
<1> QED BY <1>3, <1>4, <1>5

LEMMA OneChannel ==
  ASSUME NEW S, NEW f \in [Channels -> S], NEW c \in Channels, NEW v \in S
  PROVE  LET g == [f EXCEPT ![c] = v] IN
         g \in [Channels -> S] /\ g[c] = v /\ \A k \in Channels : k # c => g[k] = f[k]
OBVIOUS

\* What a drive does next, the other one going on.
LEMMA NewPhase ==
  ASSUME NEW f \in [Channels -> DriveType], NEW c \in Channels,
         NEW x \in {"idle", "busy", "abort", "data", "error", "fault"},
         NEW g, g = [f EXCEPT ![c].phase = x]
  PROVE  /\ g \in [Channels -> DriveType] /\ \A k \in Channels : k # c => g[k] = f[k]
         /\ g[c].phase = x /\ g[c].direction = f[c].direction /\ g[c].at = f[c].at
         /\ g[c].left = f[c].left
<1>1. PICK d : d = [f[c] EXCEPT !.phase = x]
  OBVIOUS
<1>2. /\ d \in DriveType /\ d.phase = x /\ d.direction = f[c].direction /\ d.at = f[c].at
      /\ d.left = f[c].left
  BY <1>1 DEF DriveType
<1>3. [f EXCEPT ![c].phase = x] = [f EXCEPT ![c] = d]
  BY <1>1
<1> QED BY <1>2, <1>3, OneChannel

LEMMA TransferredTyped ==
  ASSUME NEW d \in DriveType, d.left > 0
  PROVE  /\ Transferred(d) \in DriveType /\ Transferred(d).phase \in {"idle", "busy"}
         /\ Transferred(d).direction = d.direction /\ Transferred(d).at = d.at + 1
         /\ Transferred(d).left = d.left - 1
         /\ Transferred(d).phase = IF d.direction # "write" /\ d.left = 1 THEN "idle" ELSE "busy"
<1>1. d.left - 1 \in 0..Byte /\ d.at + 1 \in Int
  BY Sizes DEF DriveType
<1>2. PICK x : x = IF d.direction # "write" /\ d.left = 1 THEN "idle" ELSE "busy"
  OBVIOUS
<1>3. PICK e : e = [[[d EXCEPT !.phase = x] EXCEPT !.at = d.at + 1] EXCEPT !.left = d.left - 1]
  OBVIOUS
<1>4. Transferred(d) = e
  BY <1>2, <1>3 DEF Transferred, DriveType
<1>5. /\ e \in DriveType /\ e.phase = x /\ e.direction = d.direction /\ e.at = d.at + 1
      /\ e.left = d.left - 1
  BY <1>1, <1>2, <1>3 DEF DriveType
<1> QED BY <1>2, <1>4, <1>5

LEMMA AddressedTyped ==
  ASSUME NEW r \in RegsType, NEW ext \in BOOLEAN
  PROVE  Addressed(r, ext) \in Int
<1>1. /\ r.lba[1] \in Nat /\ r.lba[2] \in Nat /\ r.lba[3] \in Nat /\ r.head \in Nat
      /\ r.prior[1] \in Nat /\ r.prior[2] \in Nat /\ r.prior[3] \in Nat
  BY Sizes DEF RegsType, Triples, Octets
<1>2. Value(r.lba) \in Nat /\ Value(r.prior) \in Nat
  BY <1>1, Sizes DEF Value
<1>3. /\ Byte * Byte * Byte * Value(r.prior) \in Nat /\ Byte * Byte * Byte * r.head \in Nat
  <2>1. PICK m : m = Byte * Byte * Byte
    OBVIOUS
  <2> QED BY <1>1, <1>2, <2>1, Sizes
<1>4. ((r.lba[2] + Byte * r.lba[3]) * Heads + r.head) * SectorsPerTrack \in Nat
  <2>1. PICK y : y = r.lba[2] + Byte * r.lba[3]
    OBVIOUS
  <2>2. y \in Nat
    BY <1>1, <2>1, Sizes
  <2> QED BY <1>1, <2>1, <2>2, Sizes
<1> QED BY <1>1, <1>2, <1>3, <1>4 DEF Addressed

\* What a drive takes out of a command.
LEMMA CommandTakes ==
  ASSUME Typed, NEW c \in Channels, NEW r \in RegsType, NEW ext \in BOOLEAN,
         NEW direction \in {"identify", "read", "write", "flush"}, ~Busy(c),
         NEW d, d = Command(c, r, direction, ext)
  PROVE  /\ d \in DriveType
         /\ ~Present(<<c, r.dev>>) => d.phase = "idle"
         /\ Present(<<c, r.dev>>) =>
              /\ d.phase = IF Understands(<<c, r.dev>>, r, ext, direction) THEN "busy" ELSE "abort"
              /\ d.direction = direction /\ d.at = Addressed(r, ext)
              /\ d.left = IF direction = "identify" THEN 1
                          ELSE IF direction = "flush" THEN 0
                          ELSE IF r.count = 0 THEN Byte ELSE r.count
<1>1. CASE ~Present(<<c, r.dev>>)
  <2>1. Command(c, r, direction, ext) = Quiet
    BY <1>1 DEF Command
  <2>2. Quiet \in DriveType /\ Quiet.phase = "idle"
    BY Sizes DEF Quiet, DriveType
  <2> QED BY <1>1, <2>1, <2>2
<1>2. CASE Present(<<c, r.dev>>)
  <2>1. PICK ph, n : /\ ph = IF Understands(<<c, r.dev>>, r, ext, direction) THEN "busy" ELSE "abort"
                     /\ n = IF direction = "identify" THEN 1
                            ELSE IF direction = "flush" THEN 0
                            ELSE IF r.count = 0 THEN Byte ELSE r.count
    OBVIOUS
  <2>2. n = CASE direction = "identify" -> 1
              [] direction = "flush"    -> 0
              [] OTHER -> IF r.count = 0 THEN Byte ELSE r.count
    BY <2>1
  <2>3. Command(c, r, direction, ext) =
          [phase |-> ph, direction |-> direction, at |-> Addressed(r, ext), left |-> n]
    BY <1>2, <2>1, <2>2 DEF Command
  <2>4. n \in 0..Byte /\ ph \in {"busy", "abort"}
    BY <2>1, Sizes DEF RegsType, Octets
  <2>5. Addressed(r, ext) \in Int
    BY AddressedTyped
  <2>6. [phase |-> ph, direction |-> direction, at |-> Addressed(r, ext), left |-> n] \in DriveType
    BY <2>4, <2>5 DEF DriveType
  <2> QED BY <1>2, <2>1, <2>3, <2>6
<1> QED BY <1>1, <1>2

-----------------------------------------------------------------------------
(***************************************************************************)
(* What the parts of the invariant stand on.                               *)
(***************************************************************************)
LEMMA FoundSame ==
  ASSUME config' = config, NEW n
  PROVE  Found(n)' = Found(n)
BY DEF Found, Disks, DisksOf, WithDisk, drives

LEMMA ListSame ==
  ASSUME UNCHANGED <<config, devices>>, NEW n, Listed(Found(n))
  PROVE  Listed(Found(n))'
<1>1. Found(n)' = Found(n)
  BY FoundSame
<1> QED BY <1>1 DEF Listed, Entry, drives

\* After the search the list does not change.
LEMMA SearchedStays ==
  ASSUME IInv, UNCHANGED <<config, devices, at>>, pc \notin Searching, pc' \notin Searching
  PROVE  Searched'
<1>1. Listed(Found(at)) /\ at = 5
  BY DEF IInv, Searched
<1>2. Listed(Found(at))'
  BY <1>1, ListSame
<1> QED BY <1>1, <1>2 DEF Searched, Searching

\* The arguments of a transfer.
LEMMA CallTyped ==
  ASSUME config \in Configurations, NEW a \in config.accesses
  PROVE  /\ a.device \in Nat /\ a.direction \in {"read", "write"} /\ a.count \in Octets
         /\ a.lba \in 0..(Byte * Byte * Byte * Byte - 1) /\ a.lba \in Nat /\ a # NoCall
<1>1. a \in [device : Nat, direction : {"read", "write"},
             lba : 0..(Byte * Byte * Byte * Byte - 1), count : 0..(Byte - 1)]
  BY ConfigurationsAssumption
<1>2. a.device \in Nat /\ a.lba \in 0..(Byte * Byte * Byte * Byte - 1)
  BY <1>1
<1>3. a # NoCall
  BY <1>2 DEF NoCall
<1>4. \A m \in Int : a.lba \in 0..m => a.lba \in Nat
  BY <1>2
<1>5. Byte * Byte * Byte * Byte - 1 \in Int
  BY Sizes
<1> QED BY <1>1, <1>2, <1>3, <1>4, <1>5 DEF Octets

\* A transfer goes to the disk with the number it names.
LEMMA Named ==
  ASSUME IInv, NEW n \in Nat, n < Len(devices), pc \notin Searching
  PROVE  /\ Device(n).channel \in Channels /\ Device(n).drive \in {0, 1}
         /\ Reached(Device(n).channel) = Device(n).channel
         /\ n + 1 \in 1..Len(Disks) /\ Len(devices) = Len(Disks)
         /\ <<Device(n).channel, Device(n).drive>> = Disks[n + 1]
         /\ Disks[n + 1] \in DOMAIN drives /\ drives[Disks[n + 1]].kind = "ata"
         /\ Device(n).lba = drives[Disks[n + 1]].lba
<1>1. Listed(Disks) /\ AllDisks(Disks)
  <2>1. at = 5 /\ Found(5) = Disks
    BY DEF IInv, Searched, Found
  <2>2. AllDisks(Found(5))
    BY FoundDisks
  <2> QED BY <2>1, <2>2 DEF IInv, Searched
<1>2. n + 1 \in 1..Len(Disks) /\ Len(devices) = Len(Disks)
  BY <1>1 DEF Listed, AllDisks
<1>3. Device(n) \in Entries /\ Device(n) = Entry(Disks[n + 1])
  BY <1>1, <1>2 DEF Device, Listed
<1>4. Disks[n + 1] \in Site
  BY <1>1, <1>2 DEF AllDisks
<1>5. Device(n).channel \in Channels /\ Device(n).drive \in {0, 1}
  BY <1>3 DEF Entries, Channels
<1>6. Reached(Device(n).channel) = Device(n).channel
  BY <1>5, ReachesItself DEF IInv, Typed, Searching
<1>7. <<Device(n).channel, Device(n).drive>> = Disks[n + 1] /\ Device(n).lba = drives[Disks[n + 1]].lba
  BY <1>3, <1>4 DEF Entry, Site
<1> QED BY <1>1, <1>2, <1>5, <1>6, <1>7 DEF AllDisks

LEMMA Called1 ==
  ASSUME IInv, pc \in Moves
  PROVE  /\ call \in config.accesses /\ call.device \in Nat /\ call.device < Len(devices)
         /\ Channel = Device(call.device).channel /\ Channel \in Channels
         /\ <<Channel, Device(call.device).drive>> = Disks[call.device + 1]
<1>1. call \in config.accesses /\ call.device < Len(devices) /\ pc \notin Searching
  BY DEF IInv, Called, Moves, Searching
<1>2. call.device \in Nat
  BY <1>1, CallTyped DEF IInv, Typed
<1> QED BY <1>1, <1>2, Named DEF Channel

-----------------------------------------------------------------------------
(***************************************************************************)
(* The steps of the search.                                                *)
(***************************************************************************)
LEMMA InitInv == Init => IInv
<1> SUFFICES ASSUME Init PROVE IInv
  OBVIOUS
<1>1. Quiet \in DriveType
  BY Sizes DEF Quiet, DriveType
<1>2. [dev |-> 0, mode |-> "chs", head |-> 0, count |-> 0, lba |-> <<0, 0, 0>>,
       prior |-> <<0, 0, 0>>] \in RegsType
  BY Sizes DEF RegsType, Octets, Triples
<1>3. Typed
  BY <1>1, <1>2, Sizes DEF Init, Typed, Octets, Searching
<1>4. Called
  BY DEF Init, Called, Moves
<1>5. \A c \in Channels : ~Busy(c) /\ Works(c)
  BY DEF Init, Quiet, Works, Busy
<1>6. Found(1) = <<>>
  BY DEF Found
<1>7. Searched
  BY <1>5, <1>6 DEF Init, Searched, Listed, Searching
<1> QED BY <1>3, <1>4, <1>5, <1>7 DEF IInv

LEMMA SetupStep == IInv /\ Setup => IInv'
<1> SUFFICES ASSUME IInv, Setup PROVE IInv'
  OBVIOUS
<1>1. Typed' /\ Called'
  BY DEF IInv, Setup, Typed, Called, Searching, Moves
<1>2. (\A c \in Channels : Works(c))' /\ (\A c \in Channels : ~Busy(c))'
  BY DEF IInv, Setup, Works, Searched, Busy, Present, Selected, drives
<1>3. Listed(Found(at))'
  BY ListSame DEF IInv, Setup, Searched
<1>4. Searched'
  BY <1>2, <1>3 DEF Searched, Setup, Searching
<1> QED BY <1>1, <1>2, <1>4 DEF IInv

LEMMA EndStep == IInv /\ EndIdentify => IInv'
<1> SUFFICES ASSUME IInv, EndIdentify PROVE IInv'
  OBVIOUS
<1>1. at = 5
  BY DEF IInv, EndIdentify, Typed, Places
<1>2. Typed' /\ Called'
  BY DEF IInv, EndIdentify, Typed, Called, Searching, Moves
<1>3. (\A c \in Channels : Works(c))'
  BY DEF IInv, EndIdentify, Works, Busy, Present, Selected, drives
<1>4. Listed(Found(at))'
  BY ListSame DEF IInv, EndIdentify, Searched
<1>5. Searched'
  BY <1>1, <1>4 DEF Searched, EndIdentify, Searching
<1> QED BY <1>2, <1>3, <1>5 DEF IInv

LEMMA PlacesTyped ==
  ASSUME NEW n \in 1..4
  PROVE  Places[n] \in Site /\ Places[n] = <<Places[n][1], Places[n][2]>> /\ Places[n][1] \in Channels
         /\ Places[n][2] \in {0, 1}
BY DEF Places, Site, Channels

LEMMA IdentifyStep == IInv /\ Identify => IInv'
<1> SUFFICES ASSUME IInv, Identify PROVE IInv'
  OBVIOUS
<1>1. PICK p, c : p = Places[at] /\ c = p[1]
  OBVIOUS
<1>2. at \in 1..4 /\ pc = "identify" /\ channels = ChannelPorts
  BY DEF IInv, Identify, Typed, Places
<1>3. p \in Site /\ p = <<c, p[2]>> /\ c \in Channels /\ p[2] \in {0, 1} /\ Reached(c) = c
  BY <1>1, <1>2, PlacesTyped, ReachesItself
<1>4. PICK r : r = [regs[c] EXCEPT !.dev = p[2], !.mode = "chs", !.head = 0]
  OBVIOUS
<1>5. r \in RegsType /\ r.dev = p[2] /\ r.mode = "chs"
  <2>1. regs[c] \in RegsType /\ 0 \in 0..(HeadSize - 1)
    BY <1>3, Sizes DEF IInv, Typed
  <2> QED BY <1>3, <1>4, <2>1 DEF RegsType
<1>6. PICK d : d = Command(c, r, "identify", FALSE)
  OBVIOUS
<1>7. /\ regs' = [regs EXCEPT ![c] = r] /\ drv' = [drv EXCEPT ![c] = d] /\ pc' = "identified"
      /\ UNCHANGED <<config, channels, devices, disk, at, call, i>>
  BY <1>1, <1>3, <1>4, <1>6 DEF Identify
<1>8. \A k \in Channels : ~Busy(k)
  BY <1>2 DEF IInv, Searched
<1>9. /\ d \in DriveType
      /\ ~Present(p) => d.phase = "idle"
      /\ Present(p) => /\ d.phase = IF Understands(p, r, FALSE, "identify") THEN "busy" ELSE "abort"
                       /\ d.direction = "identify" /\ d.left = 1
  <2>1. <<c, r.dev>> = p /\ ~Busy(c) /\ Typed
    BY <1>3, <1>5, <1>8 DEF IInv
  <2>2. PICK e : e = FALSE
    OBVIOUS
  <2>3. e \in BOOLEAN /\ d = Command(c, r, "identify", e)
    BY <1>6, <2>2
  <2>4. /\ d \in DriveType
        /\ ~Present(<<c, r.dev>>) => d.phase = "idle"
        /\ Present(<<c, r.dev>>) =>
             /\ d.phase = IF Understands(<<c, r.dev>>, r, e, "identify") THEN "busy" ELSE "abort"
             /\ d.direction = "identify" /\ d.left = 1
    BY <1>3, <1>5, <2>1, <2>3, CommandTakes
  <2> QED BY <2>1, <2>2, <2>4
<1>10. Understands(p, r, FALSE, "identify") <=> drives[p].kind = "ata"
  BY DEF Understands
<1>11. /\ regs' \in [Channels -> RegsType] /\ regs'[c] = r
       /\ \A k \in Channels : k # c => regs'[k] = regs[k]
  BY <1>3, <1>5, <1>7, OneChannel DEF IInv, Typed
<1>12. /\ drv' \in [Channels -> DriveType] /\ drv'[c] = d
       /\ \A k \in Channels : k # c => drv'[k] = drv[k]
  BY <1>3, <1>7, <1>9, OneChannel DEF IInv, Typed
<1>13. Typed' /\ Called'
  BY <1>2, <1>7, <1>11, <1>12 DEF IInv, Typed, Called, Searching, Moves
<1>14. \A k \in Channels : k # c => ~Busy(k)' /\ Works(k)'
  BY <1>7, <1>8, <1>11, <1>12 DEF Busy, IInv, Works, Present, Selected, drives
<1>15. Works(c)'
  <2>1. drv'[c].phase = d.phase /\ Selected(c)' = p
    BY <1>3, <1>5, <1>11, <1>12 DEF Selected
  <2>2. d.phase \in {"idle", "busy", "abort"} /\ (d.phase # "idle" => Present(p))
    BY <1>9
  <2>3. Present(p)' = Present(p)
    BY <1>7 DEF Present, drives
  <2> QED BY <2>1, <2>2, <2>3 DEF Works, Busy
<1>16. Asked(p)'
  <2>1. drives' = drives /\ (Present(p))' = Present(p)
    BY <1>7 DEF Present, drives
  <2>2. p[1] = c /\ regs'[p[1]].dev = p[2] /\ drv'[p[1]] = d
    BY <1>1, <1>5, <1>11, <1>12
  <2> QED BY <1>9, <1>10, <2>1, <2>2 DEF Asked
<1>17. Listed(Found(at))'
  BY <1>7, ListSame DEF IInv, Searched
<1>18. Places[at'] = p /\ at' <= 4 /\ at' = at
  BY <1>1, <1>2, <1>7
<1>19. Searched'
  BY <1>1, <1>7, <1>14, <1>16, <1>17, <1>18 DEF Searched, Searching
<1> QED BY <1>3, <1>13, <1>14, <1>15, <1>19 DEF IInv

\* A place whose drive is no disk, or that has none, adds nothing to the list.
LEMMA IdentifiedStep == IInv /\ Identified => IInv'
<1> SUFFICES ASSUME IInv, Identified PROVE IInv'
  OBVIOUS
<1>1. PICK p, c : p = Places[at] /\ c = p[1]
  OBVIOUS
<1>2. at \in 1..4 /\ pc = "identified" /\ channels = ChannelPorts
  BY DEF IInv, Identified, Typed, Searched
<1>3. p \in Site /\ p = <<c, p[2]>> /\ c \in Channels /\ p[2] \in {0, 1} /\ Reached(c) = c
  BY <1>1, <1>2, PlacesTyped, ReachesItself
<1>4. Asked(p) /\ (\A k \in Channels : k # c => ~Busy(k)) /\ Listed(Found(at))
  BY <1>1, <1>2 DEF IInv, Searched
<1>5. Selected(c) = p
  BY <1>1, <1>3, <1>4 DEF Asked, Selected
<1>6. Found(at + 1) = WithDisk(Found(at), drives, p) /\ AllDisks(Found(at))
  BY <1>1, <1>2, FoundDisks
<1>7. /\ UNCHANGED <<config, channels, regs, disk, call, i>> /\ pc' = "identify" /\ at' = at + 1
  BY DEF Identified
<1>8. Found(at)' = Found(at + 1)
  <2>1. PICK n : n = at + 1
    OBVIOUS
  <2>2. Found(n)' = Found(n)
    BY <1>7, FoundSame
  <2> QED BY <1>7, <2>1, <2>2
<1>9. CASE NoDisk(Status(c)) /\ UNCHANGED <<devices, drv>>
  <2>1. ~Present(p) \/ drv[c].phase = "error"
    BY <1>3, <1>5, <1>9, StatusTells DEF IInv
  <2>2. ~(p \in DOMAIN drives /\ drives[p].kind = "ata")
    BY <1>1, <1>4, <2>1 DEF Asked, Present
  <2>3. Found(at + 1) = Found(at)
    BY <1>6, <2>2 DEF WithDisk
  <2>4. Listed(Found(at))'
    BY <1>4, <1>7, <1>8, <1>9, <2>3 DEF Listed, Entry, drives
  <2>5. (\A k \in Channels : ~Busy(k))'
    BY <1>1, <1>3, <1>4, <1>9, <2>1 DEF Asked, Busy
  <2>6. (\A k \in Channels : Works(k))'
    BY <1>7, <1>9, <2>5 DEF IInv, Works, Busy, Present, Selected, drives
  <2>7. Typed' /\ Called'
    BY <1>2, <1>7, <1>9 DEF IInv, Typed, Called, Searching, Moves
  <2>8. Searched'
    BY <1>7, <2>4, <2>5 DEF Searched, Searching
  <2> QED BY <2>6, <2>7, <2>8 DEF IInv
<1>10. CASE /\ ~NoDisk(Status(c)) /\ HasData(Status(c))
            /\ devices' = Append(devices, [channel |-> p[1], drive |-> p[2],
                                           lba |-> drives[p].lba, size |-> drives[p].size])
            /\ drv' = [drv EXCEPT ![c] = Transferred(@)]
  <2>1. Present(p) /\ drv[c].phase = "data"
    BY <1>3, <1>5, <1>10, StatusTells DEF IInv
  <2>2. drives[p].kind = "ata" /\ drv[c].direction = "identify" /\ drv[c].left = 1
    BY <1>1, <1>4, <2>1 DEF Asked
  <2>3. p \in DOMAIN drives
    BY <2>1 DEF Present
  <2>4. Found(at + 1) = Append(Found(at), p)
    BY <1>6, <2>2, <2>3 DEF WithDisk
  <2>5. Entry(p) \in Entries /\ devices' = Append(devices, Entry(p))
    BY <1>3, <1>10, <2>3, DrivesTyped DEF IInv, Typed, Entry, Entries, Site
  <2>6. Listed(Found(at))'
    <3>1. PICK f : f = Found(at)
      OBVIOUS
    <3>2. f \in Seq(Site) /\ devices \in Seq(Entries) /\ Len(devices) = Len(f)
      BY <1>4, <1>6, <3>1 DEF AllDisks, Listed
    <3>3. \A k \in 1..Len(f) : devices[k] = Entry(f[k])
      BY <1>4, <3>1 DEF Listed
    <3>4. \A q : Entry(q)' = Entry(q)
      BY <1>7 DEF Entry, drives
    <3>5. /\ Len(Append(f, p)) = Len(f) + 1 /\ Append(f, p)[Len(f) + 1] = p
          /\ \A k \in 1..Len(f) : Append(f, p)[k] = f[k]
      BY <1>3, <3>2
    <3>6. /\ devices' \in Seq(Entries) /\ Len(devices') = Len(f) + 1
          /\ devices'[Len(f) + 1] = Entry(p) /\ \A k \in 1..Len(f) : devices'[k] = devices[k]
      BY <2>5, <3>2
    <3>7. \A k \in 1..(Len(f) + 1) : k \in 1..Len(f) \/ k = Len(f) + 1
      BY <3>2
    <3>8. \A k \in 1..Len(Append(f, p)) : devices'[k] = Entry(Append(f, p)[k])
      BY <3>3, <3>5, <3>6, <3>7
    <3>9. PICK g : g = Append(f, p)
      OBVIOUS
    <3>10. Listed(g)'
      BY <3>4, <3>5, <3>6, <3>8, <3>9 DEF Listed
    <3>11. Found(at)' = g
      BY <1>8, <2>4, <3>1, <3>9
    <3> QED BY <3>10, <3>11
  <2>7. /\ drv' \in [Channels -> DriveType] /\ drv'[c].phase = "idle"
        /\ \A k \in Channels : k # c => drv'[k] = drv[k]
    <3>1. PICK e : e = Transferred(drv[c])
      OBVIOUS
    <3>2. e \in DriveType /\ e.phase = "idle"
      <4>1. drv[c] \in DriveType /\ drv[c].left > 0
        BY <1>3, <2>2 DEF IInv, Typed
      <4> QED BY <2>2, <3>1, <4>1, TransferredTyped
    <3>3. drv' = [drv EXCEPT ![c] = e]
      BY <1>10, <3>1
    <3> QED BY <1>3, <3>2, <3>3, OneChannel DEF IInv, Typed
  <2>8. (\A k \in Channels : ~Busy(k))'
    BY <1>4, <2>7 DEF Busy
  <2>9. (\A k \in Channels : Works(k))'
    BY <1>7, <2>7, <2>8 DEF IInv, Works, Busy, Present, Selected, drives
  <2>10. Typed' /\ Called'
    BY <1>2, <1>7, <2>7 DEF IInv, Typed, Called, Searching, Moves
  <2>11. Searched'
    BY <1>7, <2>6, <2>8 DEF Searched, Searching
  <2> QED BY <2>9, <2>10, <2>11 DEF IInv
<1> QED BY <1>1, <1>3, <1>5, <1>9, <1>10 DEF Identified

-----------------------------------------------------------------------------
(***************************************************************************)
(* The steps of a transfer.                                                *)
(***************************************************************************)
\* The address is sent by number or by cylinder.
ByCylinder == call.lba < LBA28Limit /\ ~CanLBA

LEMMA Long ==
  ASSUME NEW n \in Nat
  PROVE  (n >= LBA28Limit) \in BOOLEAN /\ (n < LBA28Limit <=> ~(n >= LBA28Limit))
<1>1. LBA28Limit \in Nat
  BY Sizes
<1> QED BY <1>1

LEMMA RegsForTyped ==
  ASSUME IInv, pc \in Moves, NEW c \in Channels, NEW dev \in {0, 1}
  PROVE  LET r == RegsFor(regs[c], dev) IN
         /\ r \in RegsType /\ r.dev = dev /\ r.count = call.count
         /\ r.mode = IF ByCylinder THEN "chs" ELSE "lba"
         /\ (ByCylinder => call.lba < Byte * Byte * Heads * SectorsPerTrack)
              => Addressed(r, call.lba >= LBA28Limit) = call.lba
<1>1. /\ call.count \in Octets /\ call.lba \in Nat
      /\ call.lba \in 0..(Byte * Byte * Byte * Byte - 1)
  BY Called1, CallTyped DEF IInv, Typed
<1>2. regs[c] \in RegsType
  BY DEF IInv, Typed
<1>3. PICK ext : ext \in BOOLEAN /\ ext = (call.lba >= LBA28Limit)
  BY <1>1, Long
<1>4. call.lba < LBA28Limit <=> ~ext
  <2>1. call.lba < LBA28Limit <=> ~(call.lba >= LBA28Limit)
    BY <1>1, Long
  <2> QED BY <1>3, <2>1
<1>5. PICK a : a = IF ext \/ CanLBA THEN LBA(call.lba) ELSE CHS(call.lba)
  OBVIOUS
<1>6. PICK u : u = IF ext THEN <<Digit(call.lba \div (Byte * Byte * Byte)), 0, 0>> ELSE regs[c].lba
  OBVIOUS
<1>7. RegsFor(regs[c], dev) = [dev |-> dev, mode |-> a.mode, head |-> a.head, count |-> call.count,
                               lba |-> a.lba, prior |-> u]
  BY <1>3, <1>5, <1>6 DEF RegsFor
<1>8. u \in Triples
  BY <1>1, <1>2, <1>6, ByLongNumber DEF RegsType
<1>9. /\ a.mode = IF ByCylinder THEN "chs" ELSE "lba"
      /\ a.head \in 0..(HeadSize - 1) /\ a.lba \in Triples
  <2>1. CASE ext \/ CanLBA
    BY <1>1, <1>4, <1>5, <2>1, LBARanges DEF ByCylinder
  <2>2. CASE ~(ext \/ CanLBA)
    BY <1>1, <1>4, <1>5, <2>2, CHSRanges DEF ByCylinder
  <2> QED BY <2>1, <2>2
<1>10. PICK r : r = RegsFor(regs[c], dev)
  OBVIOUS
<1>11. /\ r \in RegsType /\ r.dev = dev /\ r.count = call.count /\ r.mode = a.mode
       /\ r.head = a.head /\ r.lba = a.lba /\ r.prior = u
  BY <1>1, <1>7, <1>8, <1>9, <1>10 DEF RegsType
<1>12. ASSUME ByCylinder => call.lba < Byte * Byte * Heads * SectorsPerTrack
       PROVE  Addressed(r, ext) = call.lba
  <2>1. CASE ext
    <3>1. Addressed(r, ext) = Value(a.lba) + Byte * Byte * Byte * Value(u)
      BY <1>4, <1>9, <1>11, <2>1 DEF Addressed, ByCylinder
    <3> QED BY <1>1, <1>5, <1>6, <2>1, <3>1, ByLongNumber
  <2>2. CASE ~ext /\ CanLBA
    <3>1. a = LBA(call.lba) /\ a.mode = "lba"
      BY <1>1, <1>5, <2>2, LBARanges
    <3>2. Addressed(r, ext) = Value(a.lba) + Byte * Byte * Byte * a.head
      BY <1>11, <2>2, <3>1 DEF Addressed
    <3> QED BY <1>1, <1>4, <2>2, <3>1, <3>2, ByNumber
  <2>3. CASE ~ext /\ ~CanLBA
    <3>1. a = CHS(call.lba) /\ a.mode = "chs"
      BY <1>1, <1>5, <2>3, CHSRanges
    <3>2. Addressed(r, ext) = ((a.lba[2] + Byte * a.lba[3]) * Heads + a.head) * SectorsPerTrack
                              + a.lba[1] - 1
      BY <1>11, <2>3, <3>1 DEF Addressed
    <3> QED BY <1>1, <1>4, <1>12, <2>3, <3>1, <3>2, CHSRanges DEF ByCylinder
  <2> QED BY <2>1, <2>2, <2>3
<1> QED BY <1>3, <1>9, <1>10, <1>11, <1>12

\* The registers and the drive after a command was sent.
LEMMA Sends ==
  ASSUME IInv, SendCommand
  PROVE  LET c == Channel
             p == Disks[call.device + 1]
             r == regs'[c]
             ext == call.lba >= LBA28Limit
         IN
         /\ c \in Channels /\ regs' \in [Channels -> RegsType] /\ drv' \in [Channels -> DriveType]
         /\ \A k \in Channels : k # c => regs'[k] = regs[k] /\ drv'[k] = drv[k]
         /\ p \in DOMAIN drives /\ <<c, r.dev>> = p
         /\ r.mode = IF ByCylinder THEN "chs" ELSE "lba"
         /\ drv'[c].phase = IF Understands(p, r, ext, call.direction) THEN "busy" ELSE "abort"
         /\ drv'[c].direction = call.direction
         /\ call.count > 0 => drv'[c].left = call.count
         /\ (ByCylinder => call.lba < Byte * Byte * Heads * SectorsPerTrack)
              => drv'[c].at = call.lba
<1>1. PICK c, p : c = Channel /\ p = Disks[call.device + 1]
  OBVIOUS
<1>2. pc \in Moves /\ pc \notin Searching
  BY DEF SendCommand, Moves, Searching
<1>3. /\ c \in Channels /\ call \in config.accesses /\ call.device \in Nat
      /\ call.device < Len(devices) /\ <<c, Device(call.device).drive>> = p
  BY <1>1, <1>2, Called1
<1>4. Device(call.device).drive \in {0, 1} /\ p \in DOMAIN drives
  BY <1>1, <1>2, <1>3, Named
<1>5. call.direction \in {"read", "write"} /\ call.count \in Octets /\ call.lba \in Nat
  BY <1>3, CallTyped DEF IInv, Typed
<1>6. PICK r : r = RegsFor(regs[c], Device(call.device).drive)
  OBVIOUS
<1>7. PICK ext : ext \in BOOLEAN /\ ext = (call.lba >= LBA28Limit)
  BY <1>5, Long
<1>8. PICK d : d = Command(c, r, call.direction, ext)
  OBVIOUS
<1>9. regs' = [regs EXCEPT ![c] = r] /\ drv' = [drv EXCEPT ![c] = d] /\ "BSY" \notin Status(c)
  BY <1>1, <1>6, <1>7, <1>8 DEF SendCommand
<1>10. /\ r \in RegsType /\ r.dev = Device(call.device).drive /\ r.count = call.count
       /\ r.mode = IF ByCylinder THEN "chs" ELSE "lba"
       /\ (ByCylinder => call.lba < Byte * Byte * Heads * SectorsPerTrack)
            => Addressed(r, ext) = call.lba
  BY <1>2, <1>3, <1>4, <1>6, <1>7, RegsForTyped
<1>11. ~Busy(c) /\ Typed
  BY <1>3, <1>9, StatusTells DEF IInv
<1>12. <<c, r.dev>> = p /\ Present(p)
  BY <1>3, <1>4, <1>10 DEF Present
<1>13. /\ d \in DriveType /\ d.direction = call.direction /\ d.at = Addressed(r, ext)
       /\ d.phase = IF Understands(p, r, ext, call.direction) THEN "busy" ELSE "abort"
       /\ d.left = IF r.count = 0 THEN Byte ELSE r.count
  <2>1. /\ d \in DriveType /\ d.direction = call.direction /\ d.at = Addressed(r, ext)
        /\ d.phase = IF Understands(<<c, r.dev>>, r, ext, call.direction) THEN "busy" ELSE "abort"
        /\ d.left = IF call.direction = "identify" THEN 1
                    ELSE IF call.direction = "flush" THEN 0
                    ELSE IF r.count = 0 THEN Byte ELSE r.count
    <3>1. PICK w : w = call.direction
      OBVIOUS
    <3>2. w \in {"identify", "read", "write", "flush"} /\ d = Command(c, r, w, ext)
      BY <1>5, <1>8, <3>1
    <3>3. c \in Channels /\ r \in RegsType /\ ext \in BOOLEAN /\ ~Busy(c) /\ Typed
          /\ Present(<<c, r.dev>>)
      BY <1>3, <1>7, <1>10, <1>11, <1>12
    <3> QED BY <3>1, <3>2, <3>3, CommandTakes
  <2> QED BY <1>5, <1>12, <2>1
<1>14. /\ regs' \in [Channels -> RegsType] /\ regs'[c] = r
       /\ \A k \in Channels : k # c => regs'[k] = regs[k]
  BY <1>3, <1>9, <1>10, OneChannel DEF IInv, Typed
<1>15. /\ drv' \in [Channels -> DriveType] /\ drv'[c] = d
       /\ \A k \in Channels : k # c => drv'[k] = drv[k]
  BY <1>3, <1>9, <1>13, OneChannel DEF IInv, Typed
<1>16. call.count > 0 => d.left = call.count
  BY <1>5, <1>10, <1>13 DEF Octets
<1> QED BY <1>1, <1>3, <1>4, <1>7, <1>10, <1>12, <1>13, <1>14, <1>15, <1>16

LEMMA AccessStep == ASSUME IInv, NEW a \in config.accesses, Access(a) PROVE IInv'
<1>1. /\ a.device \in Nat /\ a.count \in Octets /\ a # NoCall
  BY CallTyped DEF IInv, Typed
<1>2. /\ pc = "ready" /\ pc' = (IF a.device < Len(devices) THEN "select" ELSE "failed")
      /\ call' = a /\ i' = 0 /\ UNCHANGED <<config, channels, devices, at, regs, drv, disk>>
  BY DEF Access, setup, Reserved
<1>3. Typed'
  BY <1>1, <1>2, Sizes DEF IInv, Typed, Searching, Moves, Octets
<1>4. Called'
  BY <1>1, <1>2 DEF Called, Moves, Octets
<1>5. (\A c \in Channels : Works(c))'
  BY <1>2 DEF IInv, Works, Busy, Present, Selected, drives
<1>6. Searched'
  BY <1>2, SearchedStays DEF Searching
<1> QED BY <1>3, <1>4, <1>5, <1>6 DEF IInv

LEMMA SendStep == IInv /\ SendCommand => IInv'
<1> SUFFICES ASSUME IInv, SendCommand PROVE IInv'
  OBVIOUS
<1>1. PICK c, p : c = Channel /\ p = Disks[call.device + 1]
  OBVIOUS
<1>2. /\ c \in Channels /\ regs' \in [Channels -> RegsType] /\ drv' \in [Channels -> DriveType]
      /\ \A k \in Channels : k # c => regs'[k] = regs[k] /\ drv'[k] = drv[k]
      /\ p \in DOMAIN drives /\ <<c, regs'[c].dev>> = p /\ drv'[c].phase \in {"busy", "abort"}
  BY <1>1, Sends
<1>3. /\ pc = "select" /\ pc' = "transfer"
      /\ UNCHANGED <<config, channels, devices, at, disk, call, i>>
  BY DEF SendCommand, setup
<1>4. Typed' /\ Called'
  BY <1>2, <1>3 DEF IInv, Typed, Called, Searching, Moves
<1>5. drives' = drives
  BY <1>3 DEF drives
<1>6. \A k \in Channels : k # c => Works(k)'
  BY <1>2, <1>5 DEF IInv, Works, Busy, Present, Selected
<1>7. Works(c)'
  BY <1>2, <1>5 DEF Works, Busy, Present, Selected
<1>8. Searched'
  BY <1>3, SearchedStays DEF Searching
<1> QED BY <1>4, <1>6, <1>7, <1>8 DEF IInv

\* A sector goes through the data register of a drive that waits for it.
LEMMA SectorMoved ==
  ASSUME IInv, pc = "transfer", drv[Channel].phase = "data", UNCHANGED regs, UNCHANGED config,
         drv' = [drv EXCEPT ![Channel] = Transferred(@)]
  PROVE  /\ drv' \in [Channels -> DriveType] /\ drv'[Channel].direction = drv[Channel].direction
         /\ drv'[Channel].at = drv[Channel].at + 1 /\ drv'[Channel].left = drv[Channel].left - 1
         /\ drv[Channel].direction = "write" => drv'[Channel].phase = "busy"
         /\ \A k \in Channels : Works(k)'
<1>1. PICK c, d : c = Channel /\ d = drv[c]
  OBVIOUS
<1>2. c \in Channels /\ d \in DriveType /\ d.left > 0
  <2>1. c \in Channels
    BY <1>1, Called1 DEF Moves
  <2> QED BY <1>1, <2>1 DEF IInv, Typed, Works
<1>3. PICK e : e = Transferred(d)
  OBVIOUS
<1>4. /\ e \in DriveType /\ e.phase \in {"idle", "busy"} /\ e.direction = d.direction
      /\ e.at = d.at + 1 /\ e.left = d.left - 1
      /\ e.phase = IF d.direction # "write" /\ d.left = 1 THEN "idle" ELSE "busy"
  BY <1>2, <1>3, TransferredTyped
<1>5. drv' = [drv EXCEPT ![c] = e]
  BY <1>1, <1>3
<1>6. /\ drv' \in [Channels -> DriveType] /\ drv'[c] = e
      /\ \A k \in Channels : k # c => drv'[k] = drv[k]
  <2>1. drv \in [Channels -> DriveType]
    BY DEF IInv, Typed
  <2>2. /\ [drv EXCEPT ![c] = e] \in [Channels -> DriveType] /\ [drv EXCEPT ![c] = e][c] = e
        /\ \A k \in Channels : k # c => [drv EXCEPT ![c] = e][k] = drv[k]
    BY <1>2, <1>4, <2>1, OneChannel
  <2> QED BY <1>5, <2>2
<1>7. \A k \in Channels : k # c => Works(k)'
  BY <1>6 DEF IInv, Works, Busy, Present, Selected, drives
<1>8. Works(c)'
  <2>1. Present(Selected(c))
    BY <1>1, <1>2 DEF IInv, Works
  <2> QED BY <1>4, <1>6, <2>1 DEF Works, Busy, Present, Selected, drives
<1> QED BY <1>1, <1>4, <1>6, <1>7, <1>8

LEMMA ReadSectorStep == IInv /\ ReadSector => IInv'
<1> SUFFICES ASSUME IInv, ReadSector PROVE IInv'
  OBVIOUS
<1>1. /\ pc = "transfer" /\ i < call.count /\ i' = i + 1 /\ ~Failed(Status(Channel))
      /\ drv' = [drv EXCEPT ![Channel] = Transferred(@)]
      /\ UNCHANGED <<config, channels, devices, at, regs, disk, pc, call>>
  BY DEF ReadSector, Moving, setup
<1>2. Channel \in Channels /\ call.count \in Octets
  BY <1>1, Called1, CallTyped DEF Moves, IInv, Typed
<1>3. Present(Selected(Channel)) /\ drv[Channel].phase = "data"
  BY <1>1, <1>2, StatusTells DEF IInv
<1>4. drv' \in [Channels -> DriveType] /\ (\A c \in Channels : Works(c))'
  BY <1>1, <1>3, SectorMoved
<1>5. i' \in Octets /\ i' <= call.count
  BY <1>1, <1>2, Sizes DEF IInv, Typed, Octets
<1>6. Typed' /\ Called'
  BY <1>1, <1>4, <1>5 DEF IInv, Typed, Called, Moves
<1>7. Searched'
  BY <1>1, SearchedStays DEF Searching
<1> QED BY <1>4, <1>6, <1>7 DEF IInv

LEMMA WriteSectorStep == IInv /\ WriteSector => IInv'
<1> SUFFICES ASSUME IInv, WriteSector PROVE IInv'
  OBVIOUS
<1>1. /\ pc = "transfer" /\ i < call.count /\ i' = i + 1
      /\ UNCHANGED <<config, channels, devices, at, regs, pc, call>>
  BY DEF WriteSector, Moving, setup
<1>2. Channel \in Channels /\ call.count \in Octets
  BY <1>1, Called1, CallTyped DEF Moves, IInv, Typed
<1>3. drv' \in [Channels -> DriveType] /\ (\A c \in Channels : Works(c))'
  <2>1. CASE drv[Channel].phase = "data"
    <3>1. drv' = [drv EXCEPT ![Channel] = Transferred(@)]
      BY <2>1 DEF WriteSector
    <3> QED BY <1>1, <2>1, <3>1, SectorMoved
  <2>2. CASE drv[Channel].phase # "data"
    <3>1. drv' = drv
      BY <2>2 DEF WriteSector
    <3> QED BY <1>1, <3>1 DEF IInv, Typed, Works, Busy, Present, Selected, drives
  <2> QED BY <2>1, <2>2
<1>4. i' \in Octets /\ i' <= call.count
  BY <1>1, <1>2, Sizes DEF IInv, Typed, Octets
<1>5. Typed' /\ Called'
  BY <1>1, <1>3, <1>4 DEF IInv, Typed, Called, Moves
<1>6. Searched'
  BY <1>1, SearchedStays DEF Searching
<1> QED BY <1>3, <1>5, <1>6 DEF IInv

\* The drive takes the flush, unless it is still busy with the last sector.
LEMMA FlushStep == IInv /\ Flush => IInv'
<1> SUFFICES ASSUME IInv, Flush PROVE IInv'
  OBVIOUS
<1>1. PICK c, r, d : c = Channel /\ r = regs[c] /\ d = Command(c, r, "flush", FALSE)
  OBVIOUS
<1>2. /\ pc = "transfer" /\ i = call.count /\ pc' = "flush" /\ drv' = [drv EXCEPT ![c] = d]
      /\ UNCHANGED <<config, channels, devices, at, regs, disk, call, i>>
  BY <1>1 DEF Flush, setup
<1>3. c \in Channels /\ r \in RegsType /\ drv[c] \in DriveType
  BY <1>1, <1>2, Called1 DEF Moves, IInv, Typed
<1>4. <<c, r.dev>> = Selected(c)
  BY <1>1 DEF Selected
<1>5. /\ d \in DriveType
      /\ d.phase \in {"busy", "abort", "data"} => Present(Selected(c))
      /\ d.phase = "data" => d.left > 0
  <2>1. CASE Busy(c)
    <3>1. d = drv[c]
      BY <1>1, <2>1 DEF Command
    <3> QED BY <1>3, <2>1, <3>1 DEF IInv, Works, Busy
  <2>2. CASE ~Busy(c)
    <3>1. /\ d \in DriveType
          /\ ~Present(Selected(c)) => d.phase = "idle"
          /\ Present(Selected(c)) =>
               d.phase = IF Understands(Selected(c), r, FALSE, "flush") THEN "busy" ELSE "abort"
      <4>1. PICK e : e = FALSE
        OBVIOUS
      <4>2. e \in BOOLEAN /\ d = Command(c, r, "flush", e) /\ Typed
        BY <1>1, <4>1 DEF IInv
      <4>3. /\ d \in DriveType
            /\ ~Present(<<c, r.dev>>) => d.phase = "idle"
            /\ Present(<<c, r.dev>>) =>
                 d.phase = IF Understands(<<c, r.dev>>, r, e, "flush") THEN "busy" ELSE "abort"
        BY <1>3, <2>2, <4>2, CommandTakes
      <4> QED BY <1>4, <4>1, <4>3
    <3> QED BY <3>1
  <2> QED BY <2>1, <2>2
<1>6. /\ drv' \in [Channels -> DriveType] /\ drv'[c] = d
      /\ \A k \in Channels : k # c => drv'[k] = drv[k]
  BY <1>2, <1>3, <1>5, OneChannel DEF IInv, Typed
<1>7. Typed' /\ Called'
  BY <1>2, <1>6 DEF IInv, Typed, Called, Moves
<1>8. \A k \in Channels : k # c => Works(k)'
  BY <1>2, <1>6 DEF IInv, Works, Busy, Present, Selected, drives
<1>9. Works(c)'
  BY <1>2, <1>5, <1>6 DEF Works, Busy, Present, Selected, drives
<1>10. Searched'
  BY <1>2, SearchedStays DEF Searching
<1> QED BY <1>7, <1>8, <1>9, <1>10 DEF IInv

LEMMA ReturnStep ==
  ASSUME IInv, NEW result, Return(result), pc \in Moves \union {"failed"}
  PROVE  IInv'
<1>1. /\ pc' = "ready" /\ call' = NoCall
      /\ UNCHANGED <<config, channels, devices, at, regs, drv, disk, i>>
  BY DEF Return, setup
<1>2. pc \notin Searching /\ pc' \notin Searching
  BY <1>1 DEF Searching, Moves
<1>3. Typed' /\ Called'
  BY <1>1, <1>2 DEF IInv, Typed, Called, Searching, Moves
<1>4. (\A c \in Channels : Works(c))'
  BY <1>1 DEF IInv, Works, Busy, Present, Selected, drives
<1>5. Searched'
  BY <1>1, <1>2, SearchedStays
<1> QED BY <1>3, <1>4, <1>5 DEF IInv

LEMMA ReturnsStep == IInv /\ (ReadFails \/ ReadEnds \/ NotReserved \/ WriteEnds) => IInv'
<1> SUFFICES ASSUME IInv, ReadFails \/ ReadEnds \/ NotReserved \/ WriteEnds PROVE IInv'
  OBVIOUS
<1>1. pc \in Moves \union {"failed"} /\ \E result \in {"ok", "error"} : Return(result)
  BY DEF ReadFails, ReadEnds, NotReserved, WriteEnds, Moving, Moves
<1> QED BY <1>1, ReturnStep

\* The drive goes on: to the next sector, to an error, or to the end.
LEMMA Goes ==
  ASSUME IInv, NEW c \in Channels, Ready(c)
  PROVE  /\ drv' \in [Channels -> DriveType] /\ \A k \in Channels : k # c => drv'[k] = drv[k]
         /\ Busy(c) /\ drv'[c].direction = drv[c].direction /\ drv'[c].at = drv[c].at
         /\ drv'[c].left = drv[c].left
         /\ \/ drv[c].phase = "busy" /\ drv[c].left = 0 /\ drv'[c].phase = "idle"
            \/ drv[c].phase = "busy" /\ drv[c].left > 0 /\ drv'[c].phase = "data"
            \/ /\ drv'[c].phase = "error"
               /\ \/ drv[c].phase = "abort"
                  \/ /\ drv[c].direction \in {"read", "write"} /\ drv[c].left # 0
                     /\ ~(drv[c].at < drives[Selected(c)].size)
            \/ drv'[c].phase \in {"error", "fault"} /\ drv[c].direction \in MayFail
<1>1. drv \in [Channels -> DriveType] /\ drv[c].left \in Nat
  <2>1. drv \in [Channels -> DriveType]
    BY DEF IInv, Typed
  <2> QED BY <2>1, Sizes DEF DriveType
<1>2. Busy(c)
  BY DEF Ready
<1>3. PICK inRange : inRange <=> (drv[c].direction \in {"read", "write"} =>
                                    drv[c].left = 0 \/ drv[c].at < drives[Selected(c)].size)
  OBVIOUS
<1>4. PICK x \in {"idle", "data", "error", "fault"} :
        /\ drv' = [drv EXCEPT ![c].phase = x]
        /\ \/ drv[c].phase = "busy" /\ inRange /\ x = IF drv[c].left = 0 THEN "idle" ELSE "data"
           \/ x = "error" /\ (drv[c].phase = "abort" \/ ~inRange)
           \/ x \in {"error", "fault"} /\ drv[c].direction \in MayFail
  BY <1>3 DEF Ready
<1>5. /\ drv' \in [Channels -> DriveType] /\ \A k \in Channels : k # c => drv'[k] = drv[k]
      /\ drv'[c].phase = x /\ drv'[c].direction = drv[c].direction /\ drv'[c].at = drv[c].at
      /\ drv'[c].left = drv[c].left
  <2>1. PICK g : g = [drv EXCEPT ![c].phase = x]
    OBVIOUS
  <2>2. /\ g \in [Channels -> DriveType] /\ \A k \in Channels : k # c => g[k] = drv[k]
        /\ g[c].phase = x /\ g[c].direction = drv[c].direction /\ g[c].at = drv[c].at
        /\ g[c].left = drv[c].left
    <3>1. x \in {"idle", "busy", "abort", "data", "error", "fault"}
      OBVIOUS
    <3> QED BY <1>1, <2>1, <3>1, NewPhase
  <2> QED BY <1>4, <2>1, <2>2
<1> QED BY <1>1, <1>2, <1>3, <1>4, <1>5

LEMMA ReadyStep == ASSUME IInv, NEW c \in Channels, Ready(c) PROVE IInv'
<1>1. UNCHANGED <<config, channels, devices, pc, at, call, i, regs, disk>>
  BY DEF Ready, driver
<1>2. /\ drv' \in [Channels -> DriveType] /\ \A k \in Channels : k # c => drv'[k] = drv[k]
      /\ Busy(c) /\ drv'[c].direction = drv[c].direction /\ drv'[c].left = drv[c].left
      /\ drv'[c].phase \in {"idle", "data", "error", "fault"}
      /\ drv'[c].phase = "data" => drv[c].phase = "busy" /\ drv[c].left > 0
  BY Goes
<1>3. Typed' /\ Called'
  BY <1>1, <1>2 DEF IInv, Typed, Called
<1>4. \A k \in Channels : k # c => Works(k)'
  BY <1>1, <1>2 DEF IInv, Works, Busy, Present, Selected, drives
<1>5. Works(c)'
  BY <1>1, <1>2 DEF IInv, Works, Busy, Present, Selected, drives
<1>6. Listed(Found(at))'
  BY <1>1, ListSame DEF IInv, Searched
<1>7. \A k \in Channels : Busy(k)' => Busy(k)
  BY <1>2 DEF Busy
<1>8. ASSUME pc = "identified"
      PROVE  Asked(Places[at])'
  <2>1. PICK p : p = Places[at]
    OBVIOUS
  <2>2. Asked(p) /\ p[1] = c /\ c = Places[at][1] /\ at \in 1..4
    BY <1>2, <1>8, <2>1 DEF IInv, Searched, Typed
  <2>3. p = Selected(c) /\ Present(p)
    <3>1. p = <<c, p[2]>>
      BY <2>1, <2>2, PlacesTyped
    <3>2. p = Selected(c)
      BY <2>2, <3>1 DEF Asked, Selected
    <3> QED BY <1>2, <3>2 DEF IInv, Works
  <2>4. /\ drv[c].direction = "identify" /\ drv[c].left = 1
        /\ drv[c].phase \in IF drives[p].kind = "ata" THEN {"busy", "data"} ELSE {"abort", "error"}
    BY <2>2, <2>3 DEF Asked
  <2>5. drv'[c].phase \in IF drives[p].kind = "ata" THEN {"busy", "data"} ELSE {"abort", "error"}
    <3>1. "identify" \notin MayFail
      BY GeometryAssumption
    <3>2. \/ drv[c].phase = "busy" /\ drv'[c].phase = "data"
          \/ drv'[c].phase = "error" /\ drv[c].phase = "abort"
      BY <2>4, <3>1, Goes
    <3> QED BY <2>4, <3>2
  <2>6. Asked(p)'
    BY <1>1, <1>2, <2>2, <2>3, <2>4, <2>5 DEF Asked, Present, drives
  <2> QED BY <1>1, <2>1, <2>6
<1>9. Searched'
  BY <1>1, <1>6, <1>7, <1>8 DEF IInv, Searched
<1> QED BY <1>3, <1>4, <1>5, <1>9 DEF IInv

LEMMA StepInv == IInv /\ [Next]_vars => IInv'
<1> SUFFICES ASSUME IInv, [Next]_vars PROVE IInv'
  OBVIOUS
<1>1. CASE \E a \in config.accesses : Access(a)
  BY <1>1, AccessStep
<1>2. CASE Main
  BY <1>2, SetupStep, IdentifyStep, IdentifiedStep, EndStep, SendStep, ReadSectorStep,
     ReturnsStep, WriteSectorStep, FlushStep DEF Main
<1>3. CASE \E c \in Channels : Ready(c)
  BY <1>3, ReadyStep
<1>4. CASE \E line \in {14, 15} : Interrupt(line)
  <2>1. UNCHANGED core
    BY <1>4 DEF Interrupt, driver, core
  <2> QED BY <2>1, Core
<1>5. CASE UNCHANGED vars
  <2>1. UNCHANGED core
    BY <1>5 DEF vars, core
  <2> QED BY <2>1, Core
<1> QED BY <1>1, <1>2, <1>3, <1>4, <1>5 DEF Next

LEMMA Invariance == Spec => []IInv
BY InitInv, StepInv, PTL DEF Spec

\* The address registers hold what is written to them, no drive moves more
\* sectors than a count has values, and the list of the drives has four places.
THEOREM TypeCorrect == Spec => []TypeOK
<1>1. ASSUME IInv PROVE TypeOK
  <2>1. ASSUME NEW c \in Channels
        PROVE  /\ regs[c].head \in 0..(HeadSize - 1) /\ regs[c].count \in 0..(Byte - 1)
               /\ \A k \in 1..3 : /\ regs[c].lba[k] \in 0..(Byte - 1)
                                 /\ regs[c].prior[k] \in 0..(Byte - 1)
               /\ drv[c].left \in 0..Byte
    <3>1. regs[c] \in RegsType /\ drv[c] \in DriveType
      BY <1>1 DEF IInv, Typed
    <3> QED BY <3>1 DEF RegsType, DriveType, Triples, Octets
  <2>2. i \in 0..(Byte - 1) /\ at \in 1..5
    BY <1>1 DEF IInv, Typed, Octets
  <2>3. Len(devices) <= 4
    <3>1. Len(devices) = Len(Found(at))
      BY <1>1 DEF IInv, Searched, Listed
    <3>2. Len(Found(at)) < at /\ Len(Found(at)) \in Nat
      BY <2>2, FoundDisks DEF AllDisks
    <3> QED BY <2>2, <3>1, <3>2
  <2> QED BY <2>1, <2>2, <2>3 DEF TypeOK
<1> QED BY <1>1, Invariance, PTL

\* IDE_IdentifyDrives lists the disks there are in the order of the search, with
\* what they can do and their size, and neither a missing drive nor one that is
\* no disk (lines 314 to 357), whatever drives the machine has.
THEOREM SearchFindsDisks == Spec => []DrivesFound
<1>1. ASSUME IInv PROVE DrivesFound
  <2> SUFFICES ASSUME pc \notin Searching
               PROVE  /\ Len(devices) = Len(Disks)
                      /\ \A k \in DOMAIN Disks :
                           /\ <<devices[k].channel, devices[k].drive>> = Disks[k]
                           /\ devices[k].lba = drives[Disks[k]].lba
                           /\ devices[k].size = drives[Disks[k]].size
    BY DEF DrivesFound, Searching
  <2>1. Found(at) = Disks /\ at = 5
    BY <1>1 DEF IInv, Searched, Found
  <2>2. Listed(Disks) /\ AllDisks(Disks)
    BY <1>1, <2>1, FoundDisks DEF IInv, Searched
  <2>3. ASSUME NEW k \in DOMAIN Disks
        PROVE  devices[k] = Entry(Disks[k]) /\ Disks[k] \in Site
    BY <2>2 DEF Listed, AllDisks
  <2>4. ASSUME NEW k \in DOMAIN Disks
        PROVE  /\ <<devices[k].channel, devices[k].drive>> = Disks[k]
               /\ devices[k].lba = drives[Disks[k]].lba
               /\ devices[k].size = drives[Disks[k]].size
    <3>1. PICK p : p = Disks[k]
      OBVIOUS
    <3>2. p \in Site /\ devices[k] = Entry(p)
      BY <2>3, <3>1
    <3>3. <<p[1], p[2]>> = p
      BY <3>2 DEF Site
    <3> QED BY <3>1, <3>2, <3>3 DEF Entry
  <2> QED BY <2>2, <2>4 DEF Listed
<1> QED BY <1>1, Invariance, PTL

-----------------------------------------------------------------------------
(***************************************************************************)
(* Transfers that can be done, TransfersFit, are done.                     *)
(***************************************************************************)
\* Until the last sector the drive that was named stands at the sector that the
\* driver expects, or has reported an error to a reader.
Follows ==
  LET d == drv[Channel] IN
  /\ Selected(Channel) = Disks[call.device + 1]
  /\ i < call.count =>
       /\ d.direction = call.direction
       /\ d.phase \in {"busy", "data"} => d.at = call.lba + i /\ d.left = call.count - i
       /\ call.direction = "write" => d.phase \in {"busy", "data"}

Moved ==
  /\ DOMAIN disk = DOMAIN drives
  /\ pc = "select" => i = 0
  /\ pc = "transfer" => Follows

\* How IDE_Access addresses the disk is known beforehand.
LEMMA KnownWay ==
  ASSUME IInv, pc \in Moves
  PROVE  CanLBA <=> LBAFor(config, Disks[call.device + 1])
<1>1. /\ call.device \in Nat /\ call.device < Len(devices) /\ pc \notin Searching
  BY Called1 DEF Moves, Searching
<1>2. PICK n, p : n = Device(call.device).drive /\ p = Disks[call.device + 1]
  OBVIOUS
<1>3. n \in {0, 1} /\ p[2] = n /\ Len(devices) = Len(Disks)
  <2>1. <<Device(call.device).channel, n>> = p
    BY <1>1, <1>2, Named
  <2> QED BY <1>1, <1>2, <2>1, Named
<1>4. Disks = DisksOf(config.drives) /\ drives = config.drives
  BY DEF Disks, drives
<1>5. n < Len(devices) => Device(n).lba = drives[Disks[n + 1]].lba
  BY <1>1, <1>3, Named
<1> QED BY <1>2, <1>3, <1>4, <1>5 DEF CanLBA, LBAFor, Reserved

\* A transfer under way is one that fits.
LEMMA Fitting ==
  ASSUME IInv, TransfersFit, pc \in Moves
  PROVE  LET p == Disks[call.device + 1] IN
         /\ ByCylinder => call.lba < Byte * Byte * Heads * SectorsPerTrack
         /\ call.direction = "write" => /\ call.lba + call.count <= drives[p].size
                                        /\ ByCylinder \/ drives[p].lba
<1>1. /\ call \in config.accesses /\ call.device \in Nat /\ call.device < Len(devices)
      /\ config \in Configurations /\ pc \notin Searching
  BY Called1 DEF IInv, Typed, Moves, Searching
<1>2. Len(devices) = Len(Disks)
  BY <1>1, Named
<1>3. Fits(config, call)
  BY <1>1, <1>2 DEF TransfersFit, Disks, drives
<1>4. ByCylinder <=> call.lba < LBA28Limit /\ ~LBAFor(config, Disks[call.device + 1])
  BY KnownWay DEF ByCylinder
<1> QED BY <1>3, <1>4 DEF Fits, Disks, drives

LEMMA InitMoved == Init => Moved
BY DEF Init, Moved

LEMMA SameChannel ==
  ASSUME UNCHANGED <<config, channels, devices, call>>
  PROVE  Channel' = Channel /\ (Disks[call.device + 1])' = Disks[call.device + 1] /\ drives' = drives
BY DEF Channel, Reached, Device, Disks, DisksOf, WithDisk, drives

LEMMA SendMoved == TransfersFit /\ IInv /\ Moved /\ SendCommand => Moved'
<1> SUFFICES ASSUME TransfersFit, IInv, Moved, SendCommand PROVE Moved'
  OBVIOUS
<1>1. PICK c, p, ext : c = Channel /\ p = Disks[call.device + 1] /\ ext = (call.lba >= LBA28Limit)
  OBVIOUS
<1>2. /\ pc = "select" /\ pc' = "transfer" /\ i = 0
      /\ UNCHANGED <<config, channels, devices, at, disk, call, i>>
  BY DEF SendCommand, setup, Moved
<1>3. /\ call.direction \in {"read", "write"} /\ call.count \in Nat /\ call.lba \in Nat
      /\ LBA28Limit \in Nat
  <2>1. call \in config.accesses /\ config \in Configurations
    BY <1>2, Called1 DEF Moves, IInv, Typed
  <2> QED BY <2>1, CallTyped, Sizes DEF Octets
<1>4. /\ ByCylinder => call.lba < Byte * Byte * Heads * SectorsPerTrack
      /\ call.direction = "write" => /\ call.lba + call.count <= drives[p].size
                                     /\ ByCylinder \/ drives[p].lba
  BY <1>1, <1>2, Fitting DEF Moves
<1>5. /\ c \in Channels /\ p \in DOMAIN drives /\ <<c, regs'[c].dev>> = p
      /\ regs'[c].mode = IF ByCylinder THEN "chs" ELSE "lba"
      /\ drv'[c].phase = IF Understands(p, regs'[c], ext, call.direction) THEN "busy" ELSE "abort"
      /\ drv'[c].direction = call.direction /\ drv'[c].at = call.lba
      /\ call.count > 0 => drv'[c].left = call.count
  BY <1>1, <1>4, Sends
<1>6. drives[p].kind = "ata" /\ drives[p].size \in Nat
  <2>1. call.device \in Nat /\ call.device < Len(devices) /\ pc \notin Searching
    BY <1>2, Called1 DEF Moves, Searching
  <2> QED BY <1>1, <1>5, <2>1, Named, DrivesTyped DEF IInv, Typed
<1>7. ASSUME call.direction = "write", call.count > 0
      PROVE  Understands(p, regs'[c], ext, call.direction)
  <2>1. regs'[c].mode = "lba" => drives[p].lba
    BY <1>4, <1>5, <1>7
  <2>2. call.lba >= LBA28Limit => drives[p].size > LBA28Limit
    BY <1>3, <1>4, <1>6, <1>7
  <2> QED BY <1>1, <1>6, <2>1, <2>2 DEF Understands
<1>8. /\ Channel' = c /\ (Disks[call.device + 1])' = p /\ drives' = drives
  BY <1>1, <1>2, SameChannel
<1>9. Selected(Channel)' = p
  BY <1>5, <1>8 DEF Selected
<1>10. ASSUME i < call.count
       PROVE  /\ drv'[c].direction = call.direction /\ drv'[c].at = call.lba + i
              /\ drv'[c].left = call.count - i
              /\ call.direction = "write" => drv'[c].phase \in {"busy", "data"}
  BY <1>2, <1>3, <1>5, <1>7, <1>10
<1>11. Follows'
  BY <1>2, <1>8, <1>9, <1>10 DEF Follows
<1> QED BY <1>2, <1>8, <1>11 DEF Moved

LEMMA ReadMoved ==
  ASSUME IInv, Moved, ReadSector
  PROVE  /\ Moved' /\ Promise!Deliver
<1>1. PICK c, p, d : c = Channel /\ p = Disks[call.device + 1] /\ d = drv[Channel]
  OBVIOUS
<1>2. /\ pc = "transfer" /\ i < call.count /\ i' = i + 1 /\ ~Failed(Status(c))
      /\ call.direction = "read" /\ buffer' = Append(buffer, Held(Selected(c), d.at))
      /\ drv' = [drv EXCEPT ![Channel] = Transferred(@)]
      /\ UNCHANGED <<config, channels, devices, at, regs, disk, pc, call, answer>>
  BY <1>1 DEF ReadSector, Moving, setup
<1>3. /\ call.count \in Nat /\ call.lba \in Nat /\ call # NoCall /\ i \in Nat
      /\ call.device \in Nat /\ call.device < Len(devices)
  <2>1. call \in config.accesses /\ config \in Configurations /\ call.device < Len(devices)
    BY <1>2, Called1 DEF Moves, IInv, Typed
  <2> QED BY <2>1, CallTyped, Sizes DEF IInv, Typed, Octets
<1>4. c \in Channels /\ d.phase = "data"
  <2>1. c \in Channels
    BY <1>1, <1>2, Called1 DEF Moves
  <2> QED BY <1>1, <1>2, <2>1, StatusTells DEF IInv
<1>5. /\ Selected(c) = p /\ d.direction = "read" /\ d.at = call.lba + i /\ d.left = call.count - i
  BY <1>1, <1>2, <1>4 DEF Moved, Follows
<1>6. drv'[c].direction = "read" /\ drv'[c].at = d.at + 1 /\ drv'[c].left = d.left - 1
  BY <1>1, <1>2, <1>4, <1>5, SectorMoved
<1>7. Channel' = c /\ (Disks[call.device + 1])' = p /\ drives' = drives
  BY <1>1, <1>2, SameChannel
<1>8. Selected(Channel)' = p
  BY <1>2, <1>5, <1>7 DEF Selected
<1>9. Follows'
  <2>1. drv'[c].at = call.lba + (i + 1) /\ drv'[c].left = call.count - (i + 1)
    BY <1>3, <1>5, <1>6
  <2> QED BY <1>2, <1>6, <1>7, <1>8, <2>1 DEF Follows
<1>10. Moved'
  BY <1>2, <1>7, <1>9 DEF Moved
<1>11. p \in DOMAIN disk /\ call.device < Len(Disks)
  <2>1. pc \notin Searching
    BY <1>2 DEF Searching
  <2> QED BY <1>1, <1>3, <2>1, Named DEF Moved
<1>12. Promise!Deliver
  <2>1. PICK g : g = [place |-> p, direction |-> "read", lba |-> call.lba, count |-> call.count]
    OBVIOUS
  <2>2. g # NoCall /\ g.place = p /\ g.direction = "read" /\ g.lba = call.lba /\ g.count = call.count
    BY <2>1 DEF NoCall
  <2>3. g = IF call = NoCall THEN NoCall
            ELSE [place |-> IF call.device < Len(Disks) THEN Disks[call.device + 1] ELSE <<2, 0>>,
                  direction |-> call.direction, lba |-> call.lba, count |-> call.count]
    BY <1>1, <1>2, <1>3, <1>11, <2>1
  <2>4. buffer' = Append(buffer, IF call.lba + i \in DOMAIN disk[p] THEN disk[p][call.lba + i]
                                 ELSE <<"old", p, call.lba + i>>)
    BY <1>2, <1>5 DEF Held
  <2>5. Disks' = Disks
    BY <1>7 DEF Disks
  <2> QED BY <1>2, <1>11, <2>2, <2>3, <2>4, <2>5 DEF Promise!Deliver, Promise!Going, Promise!Contents
<1> QED BY <1>10, <1>12

\* The drive waits for the sector whenever it is not busy, so that it is stored.
LEMMA WriteMoved ==
  ASSUME IInv, Moved, WriteSector
  PROVE  /\ Moved' /\ Promise!Store
<1>1. PICK c, p, d : c = Channel /\ p = Disks[call.device + 1] /\ d = drv[Channel]
  OBVIOUS
<1>2. /\ pc = "transfer" /\ i < call.count /\ i' = i + 1 /\ "BSY" \notin Status(c)
      /\ call.direction = "write"
      /\ UNCHANGED <<config, channels, devices, at, regs, pc, call, buffer, answer>>
  BY <1>1 DEF WriteSector, Moving, setup
<1>3. /\ call.count \in Nat /\ call.lba \in Nat /\ call # NoCall /\ i \in Nat
      /\ call.device \in Nat /\ call.device < Len(devices)
  <2>1. call \in config.accesses /\ config \in Configurations /\ call.device < Len(devices)
    BY <1>2, Called1 DEF Moves, IInv, Typed
  <2> QED BY <2>1, CallTyped, Sizes DEF IInv, Typed, Octets
<1>4. c \in Channels /\ ~Busy(c)
  <2>1. c \in Channels
    BY <1>1, <1>2, Called1 DEF Moves
  <2> QED BY <1>2, <2>1, StatusTells DEF IInv
<1>5. /\ Selected(c) = p /\ d.phase = "data" /\ d.direction = "write"
      /\ d.at = call.lba + i /\ d.left = call.count - i
  BY <1>1, <1>2, <1>4 DEF Moved, Follows, Busy
<1>6. /\ drv' = [drv EXCEPT ![Channel] = Transferred(@)]
      /\ disk' = [disk EXCEPT ![p] = [t \in DOMAIN @ \union {d.at} |->
                                        IF t = d.at THEN <<"new", i>> ELSE @[t]]]
  BY <1>1, <1>5 DEF WriteSector
<1>7. /\ drv'[c].direction = "write" /\ drv'[c].at = d.at + 1 /\ drv'[c].left = d.left - 1
      /\ drv'[c].phase = "busy"
  BY <1>1, <1>2, <1>5, <1>6, SectorMoved
<1>8. Channel' = c /\ (Disks[call.device + 1])' = p /\ drives' = drives
  BY <1>1, <1>2, SameChannel
<1>9. Selected(Channel)' = p
  BY <1>2, <1>5, <1>8 DEF Selected
<1>10. Follows'
  <2>1. drv'[c].at = call.lba + (i + 1) /\ drv'[c].left = call.count - (i + 1)
    <3>1. drv'[c].at = (call.lba + i) + 1 /\ drv'[c].left = (call.count - i) - 1
      BY <1>5, <1>7
    <3>2. call.lba \in Nat /\ call.count \in Nat /\ i \in Nat
      BY <1>3
    <3> QED BY <3>1, <3>2
  <2> QED BY <1>2, <1>7, <1>8, <1>9, <2>1 DEF Follows
<1>11. Moved'
  <2>1. DOMAIN disk' = DOMAIN disk
    BY <1>6
  <2> QED BY <1>2, <1>8, <1>10, <2>1 DEF Moved
<1>12. p \in DOMAIN disk /\ call.device < Len(Disks)
  <2>1. pc \notin Searching
    BY <1>2 DEF Searching
  <2> QED BY <1>1, <1>3, <2>1, Named DEF Moved
<1>13. Promise!Store
  <2>1. PICK g : g = [place |-> p, direction |-> "write", lba |-> call.lba, count |-> call.count]
    OBVIOUS
  <2>2. g # NoCall /\ g.place = p /\ g.direction = "write" /\ g.lba = call.lba /\ g.count = call.count
    BY <2>1 DEF NoCall
  <2>3. g = IF call = NoCall THEN NoCall
            ELSE [place |-> IF call.device < Len(Disks) THEN Disks[call.device + 1] ELSE <<2, 0>>,
                  direction |-> call.direction, lba |-> call.lba, count |-> call.count]
    BY <1>1, <1>2, <1>3, <1>12, <2>1
  <2>4. disk' = [disk EXCEPT ![p] = [t \in DOMAIN @ \union {g.lba + i} |->
                                       IF t = g.lba + i THEN <<"new", i>> ELSE @[t]]]
    BY <1>5, <1>6, <2>2
  <2>5. Disks' = Disks
    BY <1>8 DEF Disks
  <2> QED BY <1>2, <1>12, <2>2, <2>3, <2>4, <2>5 DEF Promise!Store, Promise!Going
<1> QED BY <1>11, <1>13

LEMMA ReadyMoved ==
  ASSUME TransfersFit, IInv, Moved, NEW k \in Channels, Ready(k)
  PROVE  Moved'
<1>1. UNCHANGED <<config, channels, devices, pc, at, call, i, regs, disk>>
  BY DEF Ready, driver
<1>2. DOMAIN disk' = DOMAIN drives' /\ (pc' = "select" => i' = 0)
  BY <1>1 DEF Moved, drives
<1>3. ASSUME pc = "transfer"
      PROVE  Follows'
  <2>1. PICK c, p, d : c = Channel /\ p = Disks[call.device + 1] /\ d = drv[Channel]
    OBVIOUS
  <2>2. Channel' = c /\ (Disks[call.device + 1])' = p /\ drives' = drives
    BY <1>1, <2>1, SameChannel
  <2>3. Selected(c) = p /\ Selected(Channel)' = p
    BY <1>1, <1>3, <2>1, <2>2 DEF Moved, Follows, Selected
  <2>4. c \in Channels /\ call.count \in Nat /\ call.lba \in Nat /\ i \in Nat
    <3>1. c \in Channels /\ call \in config.accesses /\ config \in Configurations
      BY <1>3, <2>1, Called1 DEF Moves, IInv, Typed
    <3> QED BY <3>1, CallTyped, Sizes DEF IInv, Typed, Octets
  <2>5. ASSUME i < call.count
        PROVE  /\ drv'[c].direction = call.direction
               /\ drv'[c].phase \in {"busy", "data"} =>
                    drv'[c].at = call.lba + i /\ drv'[c].left = call.count - i
               /\ call.direction = "write" => drv'[c].phase \in {"busy", "data"}
    <3>1. /\ d.direction = call.direction
          /\ d.phase \in {"busy", "data"} => d.at = call.lba + i /\ d.left = call.count - i
          /\ call.direction = "write" => d.phase \in {"busy", "data"}
      BY <1>3, <2>1, <2>5 DEF Moved, Follows
    <3>2. CASE k # c
      <4>1. drv'[c] = drv[c]
        BY <2>4, <3>2, Goes
      <4> QED BY <2>1, <3>1, <4>1
    <3>3. CASE k = c
      <4>1. /\ drv'[c].direction = d.direction /\ drv'[c].at = d.at /\ drv'[c].left = d.left
            /\ d.phase \in {"busy", "abort"}
            /\ \/ d.phase = "busy" /\ d.left = 0 /\ drv'[c].phase = "idle"
               \/ d.phase = "busy" /\ d.left > 0 /\ drv'[c].phase = "data"
               \/ /\ drv'[c].phase = "error"
                  /\ \/ d.phase = "abort"
                     \/ d.left # 0 /\ ~(d.at < drives[p].size)
               \/ drv'[c].phase \in {"error", "fault"} /\ d.direction \in MayFail
        BY <2>1, <2>3, <3>3, Goes DEF Busy
      <4>2. drv'[c].phase \in {"busy", "data"} => d.phase = "busy"
        BY <4>1
      <4>3. ASSUME call.direction = "write"
            PROVE  drv'[c].phase \in {"busy", "data"}
        <5>1. d.phase = "busy" /\ d.at = call.lba + i /\ d.left = call.count - i
          BY <3>1, <4>1, <4>3
        <5>2. call.lba + call.count <= drives[p].size /\ "write" \notin MayFail
          BY <1>3, <2>1, <4>3, Fitting DEF Moves, TransfersFit
        <5>3. drives[p].size \in Nat
          <6>1. p \in DOMAIN drives
            <7>1. /\ call.device \in Nat /\ call.device < Len(devices) /\ pc \notin Searching
              BY <1>3, Called1 DEF Moves, Searching
            <7> QED BY <2>1, <7>1, Named
          <6> QED BY <6>1, DrivesTyped DEF IInv, Typed
        <5>4. d.at < drives[p].size /\ d.left # 0 /\ d.left > 0
          BY <2>4, <2>5, <5>1, <5>2, <5>3
        <5> QED BY <3>1, <4>1, <4>3, <5>1, <5>2, <5>4
      <4> QED BY <3>1, <4>1, <4>2, <4>3
    <3> QED BY <3>2, <3>3
  <2> QED BY <1>1, <2>2, <2>3, <2>5 DEF Follows
<1> QED BY <1>1, <1>2, <1>3 DEF Moved

LEMMA StepMoved == TransfersFit /\ IInv /\ Moved /\ [Next]_vars => Moved'
<1> SUFFICES ASSUME TransfersFit, IInv, Moved, [Next]_vars PROVE Moved'
  OBVIOUS
<1>1. CASE \E a \in config.accesses : Access(a)
  BY <1>1 DEF Access, setup, Moved, drives
<1>2. CASE Setup \/ Identify \/ Identified \/ EndIdentify
  <2>1. UNCHANGED <<config, disk>> /\ pc' \notin {"select", "transfer"}
    BY <1>2 DEF Setup, Identify, Identified, EndIdentify
  <2> QED BY <2>1 DEF Moved, drives
<1>3. CASE ReadFails \/ ReadEnds \/ NotReserved \/ WriteEnds \/ Flush
  <2>1. UNCHANGED <<config, disk>> /\ pc' \notin {"select", "transfer"}
    BY <1>3 DEF ReadFails, ReadEnds, NotReserved, WriteEnds, Flush, Return, setup
  <2> QED BY <2>1 DEF Moved, drives
<1>4. CASE SendCommand \/ ReadSector \/ WriteSector
  BY <1>4, SendMoved, ReadMoved, WriteMoved
<1>5. CASE \E c \in Channels : Ready(c)
  BY <1>5, ReadyMoved
<1>6. CASE (\E line \in {14, 15} : Interrupt(line)) \/ UNCHANGED vars
  <2>1. UNCHANGED core
    BY <1>6 DEF Interrupt, driver, core, vars
  <2>2. Channel' = Channel /\ (Disks[call.device + 1])' = Disks[call.device + 1] /\ drives' = drives
    BY <2>1, SameChannel DEF core
  <2>3. UNCHANGED <<disk, regs, drv, pc, call, i>>
    BY <2>1 DEF core
  <2>4. Follows => Follows'
    BY <2>2, <2>3 DEF Follows, Selected
  <2> QED BY <2>2, <2>3, <2>4 DEF Moved
<1> QED BY <1>1, <1>2, <1>3, <1>4, <1>5, <1>6 DEF Next, Main

\* What callers see of a step.
LEMMA Seen ==
  ASSUME UNCHANGED <<config, disk, call, i, buffer, answer>>
  PROVE  UNCHANGED Promise!vars
<1>1. Disks' = Disks
  BY DEF Disks, DisksOf, WithDisk, drives
<1> QED BY <1>1 DEF Promise!vars

LEMMA StepImplements == TransfersFit /\ IInv /\ Moved /\ [Next]_vars => [Promise!Next]_(Promise!vars)
<1> SUFFICES ASSUME TransfersFit, IInv, Moved, [Next]_vars PROVE [Promise!Next]_(Promise!vars)
  OBVIOUS
<1>1. CASE \E a \in config.accesses : Access(a)
  <2>1. PICK a \in config.accesses : Access(a)
    BY <1>1
  <2>2. /\ pc = "ready" /\ call' = a /\ i' = 0 /\ buffer' = <<>> /\ UNCHANGED <<disk, answer>>
    BY <2>1 DEF Access, setup
  <2>3. call = NoCall /\ a # NoCall
    BY <2>1, <2>2, CallTyped DEF IInv, Called, Moves, Typed
  <2>4. \A p, l, n, w : [place |-> p, direction |-> w, lba |-> l, count |-> n] # NoCall
    <3>1. ASSUME NEW p, NEW l, NEW n, NEW w
          PROVE  [place |-> p, direction |-> w, lba |-> l, count |-> n] # NoCall
      <4>1. "device" \in DOMAIN NoCall
            /\ "device" \notin DOMAIN [place |-> p, direction |-> w, lba |-> l, count |-> n]
        BY DEF NoCall
      <4> QED BY <4>1
    <3> QED BY <3>1
  <2>5. Promise!Ask
    BY <2>2, <2>3, <2>4 DEF Promise!Ask
  <2> QED BY <2>5 DEF Promise!Next
<1>2. CASE ReadFails \/ ReadEnds \/ NotReserved \/ WriteEnds
  <2>1. /\ pc \in Moves \union {"failed"} /\ call' = NoCall
        /\ UNCHANGED <<config, disk, i, buffer>>
        /\ answer' = "error" \/ (answer' = "ok" /\ i = call.count)
    BY <1>2 DEF ReadFails, ReadEnds, NotReserved, WriteEnds, Moving, Return, setup, Moves, IInv, Called
  <2>2. call # NoCall
    BY <2>1, CallTyped DEF IInv, Called, Typed
  <2>3. PICK g : g = [place |-> IF call.device < Len(Disks) THEN Disks[call.device + 1] ELSE <<2, 0>>,
                      direction |-> call.direction, lba |-> call.lba, count |-> call.count]
    OBVIOUS
  <2>4. g # NoCall /\ g.count = call.count
    BY <2>3 DEF NoCall
  <2>5. g = IF call = NoCall THEN NoCall
            ELSE [place |-> IF call.device < Len(Disks) THEN Disks[call.device + 1] ELSE <<2, 0>>,
                  direction |-> call.direction, lba |-> call.lba, count |-> call.count]
    BY <2>2, <2>3
  <2>6. Promise!Return
    BY <2>1, <2>4, <2>5 DEF Promise!Return
  <2> QED BY <2>6 DEF Promise!Next
<1>3. CASE ReadSector \/ WriteSector
  BY <1>3, ReadMoved, WriteMoved DEF Promise!Next
<1>4. CASE Setup \/ Identify \/ Identified \/ EndIdentify \/ SendCommand \/ Flush
  <2>1. UNCHANGED <<config, disk, call, i, buffer, answer>>
    BY <1>4 DEF Setup, Identify, Identified, EndIdentify, SendCommand, Flush, setup
  <2> QED BY <2>1, Seen
<1>5. CASE \/ \E c \in Channels : Ready(c)
           \/ \E line \in {14, 15} : Interrupt(line)
           \/ UNCHANGED vars
  <2>1. UNCHANGED <<config, disk, call, i, buffer, answer>>
    BY <1>5 DEF Ready, Interrupt, driver, vars
  <2> QED BY <2>1, Seen
<1> QED BY <1>1, <1>2, <1>3, <1>4, <1>5 DEF Next, Main

\* IDE_Access implements BlockDevice: each sector that moves is the next one of
\* the disk that was named, whether it is addressed by cylinder, by 28 or by 48
\* bits, and a transfer that is reported as done has moved all of them, also
\* after one that failed half way (lines 200 to 312).
THEOREM Implements ==
  ASSUME TransfersFit
  PROVE  Spec => ImplementsBlockDevice
<1>1. Init => /\ (IF call = NoCall THEN NoCall
                  ELSE [place |-> IF call.device < Len(Disks) THEN Disks[call.device + 1] ELSE <<2, 0>>,
                        direction |-> call.direction, lba |-> call.lba, count |-> call.count]) = NoCall
              /\ buffer = <<>> /\ i = 0
  BY DEF Init
<1>2. Init => IInv /\ Moved
  BY InitInv, InitMoved
<1>3. IInv /\ Moved /\ [Next]_vars => (IInv /\ Moved)' /\ [Promise!Next]_(Promise!vars)
  BY StepInv, StepMoved, StepImplements, TransfersFit
<1> QED BY <1>1, <1>2, <1>3, PTL DEF Spec, ImplementsBlockDevice, Promise!Spec
=============================================================================
