-------------------------------- MODULE IDE --------------------------------
(***************************************************************************)
(* The IDE driver, drivers/drive/ide.c: IDE_Init with the search for the   *)
(* drives, and IDE_Access, against two channels with two drives each.  The *)
(* kernel transfers by polling; drives still raise their interrupts where  *)
(* the driver fails to turn them off.                                      *)
(*                                                                         *)
(* A register of the command block holds two values: what was written last *)
(* and what was there before, which is where the 48-bit commands take the  *)
(* upper half of an address from.                                          *)
(***************************************************************************)
EXTENDS Interrupts, PCI, Sequences, SequencesExt

CONSTANTS
  Byte,             \* 256: an address register holds 0..Byte - 1
  HeadSize,         \* 16: the four bits for a head or the top of a 28-bit address
  Heads, SectorsPerTrack,  \* 16 and 63: the geometry of the driver, taken for the drive's
  Configurations,   \* [drives, accesses]: [kind, lba, size] per place with a drive, and
                    \* the transfers callers ask for
  MayFail,          \* the directions in which a drive may report an error
  MaxCalls          \* bound: transfers

ASSUME GeometryAssumption ==
  /\ Byte \in Nat /\ HeadSize \in Nat /\ Heads \in 1..HeadSize
  /\ SectorsPerTrack \in 1..(Byte - 1) /\ MayFail \subseteq {"read", "write"}

\* Two places on two channels, disks and other drives; an address has 32 bits, a
\* count eight.
ASSUME ConfigurationsAssumption == \A machine \in Configurations :
  /\ DOMAIN machine.drives \subseteq {0, 1} \X {0, 1}
  /\ \A p \in DOMAIN machine.drives :
       machine.drives[p] \in [kind : {"ata", "atapi"}, lba : BOOLEAN, size : Nat]
  /\ machine.accesses \subseteq [device : Nat, direction : {"read", "write"},
                                 lba : 0..(Byte * Byte * Byte * Byte - 1), count : 0..(Byte - 1)]

IDEClass == 257               \* class 1, subclass 1
LBA28Limit == Byte * Byte * Byte * HeadSize
Channels == 0..1
Places == <<<<0, 0>>, <<0, 1>>, <<1, 0>>, <<1, 1>>>>  \* the order of the search
NoCall == [device |-> -1, direction |-> "none", lba |-> 0, count |-> 0]
Quiet == [phase |-> "idle", direction |-> "none", at |-> 0, left |-> 0]

VARIABLES
  config,    \* one of the configurations
  channels,  \* [base, ctrl] per channel
  devices,   \* devices[0..3] of the code as far as they are reserved
  regs,      \* per channel, the command block: [dev, mode, head, count, lba, prior]
  drv,       \* per channel, what the drive that got the last command does
  disk,      \* per place, the sectors that were written
  pc,
  at,        \* position of IDE_IdentifyDrives in Places
  call,      \* the arguments of IDE_Access
  i,         \* its loop variable
  buffer,    \* what it has put into outputBuffer
  answer,
  calls,     \* bound: how many transfers were asked for
  intrq,     \* per channel, the drive's interrupt line
  pic, handlers

vars == <<config, channels, devices, regs, drv, disk, pc, at, call, i, buffer,
          answer, calls, intrq, pic, handlers>>
driver == <<config, channels, devices, pc, at, call, i, buffer, answer, calls, handlers>>

-----------------------------------------------------------------------------
(***************************************************************************)
(* IDE_Init: where the registers are.  Without a controller in the         *)
(* configuration space the code would read a slot it does not know.        *)
(***************************************************************************)
drives == config.drives
Slot == FirstOf(WithClass(IDEClass))
Bar(n) == PCI_ConfigReadLong(Slot, 16 + 4 * n)
Port(bar, default) == (bar[1] \div 4) * 4 + IF bar = <<0, 0>> THEN default ELSE 0

\* The ports of the controller: with an empty base register those of the AT.
CommandBlock(c) == IF Bar(2 * c) = <<0, 0>> THEN <<496, 368>>[c + 1]
                   ELSE (Bar(2 * c)[1] \div 4) * 4
ControlRegister(c) == IF Bar(2 * c + 1) = <<0, 0>> THEN <<1014, 886>>[c + 1]
                      ELSE (Bar(2 * c + 1)[1] \div 4) * 4 + 2

\* The two command blocks are different ports.
ASSUME PortsAssumption == CommandBlock(0) # CommandBlock(1)

\* Mutant: the channels are swapped.
ChannelPorts_Swapped == [c \in Channels |-> [base |-> Port(Bar(2 - 2 * c), <<368, 496>>[c + 1]),
                                             ctrl |-> Port(Bar(3 - 2 * c), <<886, 1014>>[c + 1])]]

ChannelPorts == [c \in Channels |-> [base |-> Port(Bar(2 * c), <<496, 368>>[c + 1]),
                                     ctrl |-> Port(Bar(2 * c + 1), <<1014, 886>>[c + 1])]]

\* IDE_Write(c, ATA_REG_CONTROL, 2) reaches the control register, which turns
\* the interrupts off: the port is two behind ctrl.
InterruptsOff(c) == \E k \in Channels : channels[k].ctrl + 12 - 10 = ControlRegister(c)

\* A register of the command block belongs to the channel whose port it is.
Reached(k) == CHOOSE c \in Channels : channels[k].base = CommandBlock(c)

-----------------------------------------------------------------------------
(***************************************************************************)
(* The drives.                                                             *)
(***************************************************************************)
Selected(c) == <<c, regs[c].dev>>
Present(p) == p \in DOMAIN drives
EmptyChannel(c) == \A d \in {0, 1} : ~Present(<<c, d>>)

Busy(c) == drv[c].phase \in {"busy", "abort"}

\* The status register of the selected drive.  Nobody pulls the lines of an
\* empty channel down; the other drive answers 0 for one that is missing.
Status(c) ==
  IF EmptyChannel(c) THEN {"BSY", "DRDY", "DF", "DRQ", "ERR"}
  ELSE IF ~Present(Selected(c)) THEN {}
  ELSE CASE Busy(c)                -> {"BSY"}
         [] drv[c].phase = "data"  -> {"DRDY", "DRQ"}
         [] drv[c].phase = "error" -> {"DRDY", "ERR"}
         [] drv[c].phase = "fault" -> {"DRDY", "DF"}
         [] OTHER                  -> {"DRDY"}

Value(digits) == digits[1] + Byte * (digits[2] + Byte * digits[3])

\* The sector the registers name, by cylinder, head and sector or by number.
Addressed(r, ext) ==
  IF r.mode = "lba"
  THEN Value(r.lba) + Byte * Byte * Byte * (IF ext THEN Value(r.prior) ELSE r.head)
  ELSE ((r.lba[2] + Byte * r.lba[3]) * Heads + r.head) * SectorsPerTrack + r.lba[1] - 1

\* A drive without the addressing it is asked for, and one that is no disk, aborts.
Understands(p, r, ext, direction) ==
  /\ drives[p].kind = "ata"
  /\ r.mode = "lba" /\ direction # "identify" => drives[p].lba
  /\ ext => drives[p].size > LBA28Limit

\* The drive that is selected takes a command, unless it is busy.
Command(c, r, direction, ext) ==
  LET p == <<c, r.dev>> IN
  IF Busy(c) THEN drv[c]
  ELSE IF ~Present(p) THEN Quiet
  ELSE [phase |-> IF Understands(p, r, ext, direction) THEN "busy" ELSE "abort",
        direction |-> direction, at |-> Addressed(r, ext),
        left |-> CASE direction = "identify" -> 1
                   [] direction = "flush"    -> 0
                   [] OTHER -> IF r.count = 0 THEN Byte ELSE r.count]

\* Raising the interrupt line, unless it is turned off or raised already.
Signal(c) ==
  IF InterruptsOff(c) \/ intrq[c] THEN UNCHANGED <<intrq, pic>>
  ELSE intrq' = [intrq EXCEPT ![c] = TRUE] /\ pic' = Raise(pic, 14 + c)

\* The drive is ready for the next sector, has done, or reports an error.
Ready(c) ==
  LET d == drv[c]
      inRange == d.direction \in {"read", "write"} =>
                   d.left = 0 \/ d.at < drives[Selected(c)].size
  IN
  /\ Busy(c)
  /\ \/ /\ d.phase = "busy" /\ inRange
        /\ drv' = [drv EXCEPT ![c].phase = IF d.left = 0 THEN "idle" ELSE "data"]
     \/ /\ d.phase = "abort" \/ ~inRange
        /\ drv' = [drv EXCEPT ![c].phase = "error"]
     \/ /\ d.direction \in MayFail
        /\ \E p \in {"error", "fault"} : drv' = [drv EXCEPT ![c].phase = p]
  /\ Signal(c)
  /\ UNCHANGED <<driver, regs, disk>>

\* After a sector has gone through the data register.
Transferred(d) ==
  [d EXCEPT !.phase = IF d.direction # "write" /\ d.left = 1 THEN "idle" ELSE "busy",
            !.at = @ + 1, !.left = @ - 1]

Held(p, s) == IF s \in DOMAIN disk[p] THEN disk[p][s] ELSE <<"old", p, s>>

-----------------------------------------------------------------------------
(***************************************************************************)
(* IDE_Init and IDE_IdentifyDrives.  Reading the status register takes the *)
(* drive's interrupt back.                                                 *)
(***************************************************************************)
Init ==
  /\ config \in Configurations
  /\ channels = [c \in Channels |-> [base |-> 0, ctrl |-> 0]]
  /\ devices = <<>> /\ pc = "init" /\ at = 1 /\ handlers = {}
  /\ regs = [c \in Channels |-> [dev |-> 0, mode |-> "chs", head |-> 0, count |-> 0,
                                 lba |-> <<0, 0, 0>>, prior |-> <<0, 0, 0>>]]
  /\ drv = [c \in Channels |-> Quiet] /\ disk = [p \in DOMAIN drives |-> <<>>]
  /\ call = NoCall /\ i = 0 /\ buffer = <<>> /\ answer = "none" /\ calls = 0
  /\ intrq = [c \in Channels |-> FALSE] /\ pic = i686_PIC_SetMask(i686_PIC_Remap, 0)

Setup ==
  /\ pc = "init" /\ pc' = "identify"
  /\ channels' = ChannelPorts
  /\ handlers' = i686_IRQ_SetHandler(i686_IRQ_SetHandler(handlers, 14), 15)
  /\ UNCHANGED <<config, devices, regs, drv, disk, at, call, i, buffer, answer, calls,
                 intrq, pic>>

StatusRead(c) == intrq' = [intrq EXCEPT ![c] = FALSE] /\ pic' = pic

Identify ==
  /\ pc = "identify" /\ at <= Len(Places) /\ pc' = "identified"
  /\ LET c == Reached(Places[at][1])
         r == [regs[c] EXCEPT !.dev = Places[at][2], !.mode = "chs", !.head = 0]
     IN regs' = [regs EXCEPT ![c] = r] /\ drv' = [drv EXCEPT ![c] = Command(c, r, "identify", FALSE)]
  /\ UNCHANGED <<config, channels, devices, disk, at, call, i, buffer, answer, calls,
                 intrq, pic, handlers>>

\* Mutant: an error is not looked for.
NoDisk_Missing(status) == status = {}

\* Nothing is there, or it is no disk.
NoDisk(status) == status = {} \/ "ERR" \in status

HasData(status) == "BSY" \notin status /\ "DRQ" \in status

Identified ==
  LET place == Places[at]
      c == Reached(place[1])
      drive == drives[Selected(c)]
  IN
  /\ pc = "identified" /\ pc' = "identify" /\ at' = at + 1
  /\ \/ NoDisk(Status(c)) /\ UNCHANGED <<devices, drv>>
     \/ /\ ~NoDisk(Status(c)) /\ HasData(Status(c))
        /\ devices' = Append(devices, [channel |-> place[1], drive |-> place[2],
                                       lba |-> drive.lba, size |-> drive.size])
        /\ drv' = [drv EXCEPT ![c] = Transferred(@)]
  /\ StatusRead(c)
  /\ UNCHANGED <<config, channels, regs, disk, call, i, buffer, answer, calls, handlers>>

EndIdentify ==
  /\ pc = "identify" /\ at > Len(Places) /\ pc' = "ready"
  /\ UNCHANGED <<config, channels, devices, regs, drv, disk, at, call, i, buffer, answer,
                 calls, intrq, pic, handlers>>

-----------------------------------------------------------------------------
(***************************************************************************)
(* IDE_Access.                                                             *)
(***************************************************************************)
Reserved(n) == n < Len(devices)
Device(n) == devices[n + 1]
Channel == Reached(Device(call.device).channel)
setup == <<config, channels, devices, at, handlers>>

Access(a) ==
  /\ pc = "ready" /\ calls < MaxCalls
  /\ call' = a /\ calls' = calls + 1 /\ i' = 0 /\ buffer' = <<>>
  /\ pc' = IF Reserved(a.device) THEN "select" ELSE "failed"
  /\ UNCHANGED <<setup, regs, drv, disk, answer, intrq, pic>>

Return(result) ==
  /\ pc' = "ready" /\ call' = NoCall /\ answer' = result
  /\ UNCHANGED <<setup, regs, drv, disk, i, buffer, calls>>

\* The capabilities are those of devices[drive], the drive's number on its channel.
CanLBA == LET n == Device(call.device).drive IN Reserved(n) /\ Device(n).lba

\* Mutant: the byte is not masked out.
Digit_Unmasked(n) == n

Digit(n) == n % Byte

\* Mutant: the sectors are counted from 0.
CHS_SectorFrom0(lba) ==
  LET sector == lba % SectorsPerTrack
      track == (lba - sector) \div SectorsPerTrack
      cylinder == (track \div Heads) % (Byte * Byte)
  IN [mode |-> "chs", head |-> track % Heads,
      lba |-> <<sector, Digit(cylinder), cylinder \div Byte>>]

CHS(lba) ==
  LET sector == (lba % SectorsPerTrack) + 1
      track == (lba + 1 - sector) \div SectorsPerTrack
      cylinder == (track \div Heads) % (Byte * Byte)
  IN [mode |-> "chs", head |-> track % Heads,
      lba |-> <<sector, Digit(cylinder), cylinder \div Byte>>]

LBA(lba) ==
  [mode |-> "lba",
   head |-> IF lba >= LBA28Limit THEN 0 ELSE lba \div (Byte * Byte * Byte),
   lba |-> <<Digit(lba), Digit(lba \div Byte), Digit(lba \div (Byte * Byte))>>]

\* What the registers hold when the command is written: the upper half of a
\* 48-bit address was written before the lower one.
RegsFor(r, dev) ==
  LET ext == call.lba >= LBA28Limit
      a == IF ext \/ CanLBA THEN LBA(call.lba) ELSE CHS(call.lba)
  IN [dev |-> dev, mode |-> a.mode, head |-> a.head, count |-> call.count, lba |-> a.lba,
      prior |-> IF ext THEN <<Digit(call.lba \div (Byte * Byte * Byte)), 0, 0>> ELSE r.lba]

SendCommand ==
  /\ pc = "select" /\ "BSY" \notin Status(Channel) /\ pc' = "transfer"
  /\ LET c == Channel
         r == RegsFor(regs[c], Device(call.device).drive)
     IN /\ regs' = [regs EXCEPT ![c] = r]
        /\ drv' = [drv EXCEPT ![c] = Command(c, r, call.direction, call.lba >= LBA28Limit)]
        /\ StatusRead(c)
  /\ UNCHANGED <<setup, disk, call, i, buffer, answer, calls>>

\* IDE_Polling(channel, true).
Failed(status) == "ERR" \in status \/ "DF" \in status \/ "DRQ" \notin status

Moving(direction) ==
  pc = "transfer" /\ call.direction = direction /\ "BSY" \notin Status(Channel)

ReadSector ==
  /\ Moving("read") /\ i < call.count /\ ~Failed(Status(Channel))
  /\ buffer' = Append(buffer, Held(Selected(Channel), drv[Channel].at))
  /\ drv' = [drv EXCEPT ![Channel] = Transferred(@)] /\ i' = i + 1
  /\ StatusRead(Channel)
  /\ UNCHANGED <<setup, regs, disk, pc, call, answer, calls>>

ReadFails ==
  /\ Moving("read") /\ i < call.count /\ Failed(Status(Channel))
  /\ Return("error") /\ StatusRead(Channel)

ReadEnds ==
  /\ pc = "transfer" /\ call.direction = "read" /\ i = call.count
  /\ Return("ok") /\ UNCHANGED <<intrq, pic>>

NotReserved == pc = "failed" /\ Return("error") /\ UNCHANGED <<intrq, pic>>

\* A drive that does not wait for data ignores it, and the driver goes on.
WriteSector ==
  /\ Moving("write") /\ i < call.count /\ i' = i + 1
  /\ LET c == Channel
         p == Selected(c)
         s == drv[c].at
     IN IF drv[c].phase = "data"
        THEN /\ disk' = [disk EXCEPT ![p] = [t \in DOMAIN @ \union {s} |->
                                             IF t = s THEN <<"new", i>> ELSE @[t]]]
             /\ drv' = [drv EXCEPT ![c] = Transferred(@)]
        ELSE UNCHANGED <<disk, drv>>
  /\ StatusRead(Channel)
  /\ UNCHANGED <<setup, regs, pc, call, buffer, answer, calls>>

\* The flush is written without waiting for the last sector.
Flush ==
  /\ pc = "transfer" /\ call.direction = "write" /\ i = call.count /\ pc' = "flush"
  /\ drv' = [drv EXCEPT ![Channel] = Command(Channel, regs[Channel], "flush", FALSE)]
  /\ UNCHANGED <<setup, regs, disk, call, i, buffer, answer, calls, intrq, pic>>

WriteEnds ==
  /\ pc = "flush" /\ "BSY" \notin Status(Channel)
  /\ Return("ok") /\ StatusRead(Channel)

Main == \/ Setup \/ Identify \/ Identified \/ EndIdentify \/ SendCommand \/ ReadSector
        \/ ReadFails \/ ReadEnds \/ NotReserved \/ WriteSector \/ Flush \/ WriteEnds

-----------------------------------------------------------------------------
\* IDE_IRQ14Handler and IDE_IRQ15Handler read the status of the first channel.
Interrupt(line) ==
  /\ line \in Deliverable(pic)
  /\ pic' = i686_PIC_SendEOI(Acknowledge(pic, line), line)
  /\ intrq' = IF i686_ISR_CommonHandler(Vector(line), {}, handlers) = "driver"
              THEN [intrq EXCEPT ![Reached(0)] = FALSE] ELSE intrq
  /\ UNCHANGED <<driver, regs, drv, disk>>

Next == \/ \E a \in config.accesses : Access(a)
        \/ Main
        \/ \E c \in Channels : Ready(c)
        \/ \E line \in {14, 15} : Interrupt(line)

\* The only context goes on, and the drives answer what they are asked.
Fairness == WF_vars(Main) /\ \A c \in Channels : WF_vars(Ready(c))

Spec == Init /\ [][Next]_vars /\ Fairness

-----------------------------------------------------------------------------
\* The disks there are, in the order of the search.
WithDisk(found, machine, p) ==
  IF p \in DOMAIN machine /\ machine[p].kind = "ata" THEN Append(found, p) ELSE found
DisksOf(machine) ==
  WithDisk(WithDisk(WithDisk(WithDisk(<<>>, machine, Places[1]), machine, Places[2]),
                    machine, Places[3]), machine, Places[4])
Disks == DisksOf(drives)

TypeOK ==
  /\ \A c \in Channels : /\ regs[c].head \in 0..(HeadSize - 1) /\ regs[c].count \in 0..(Byte - 1)
                          /\ \A k \in 1..3 : /\ regs[c].lba[k] \in 0..(Byte - 1)
                                            /\ regs[c].prior[k] \in 0..(Byte - 1)
                          /\ drv[c].left \in 0..Byte
  /\ i \in 0..(Byte - 1) /\ at \in 1..5 /\ Len(devices) <= 4

\* IDE_IdentifyDrives numbers the disks in the order of the search and takes
\* neither a missing drive nor one that is no disk for one (lines 314 to 357).
DrivesFound ==
  pc \notin {"init", "identify", "identified"} =>
    /\ Len(devices) = Len(Disks)
    /\ \A k \in DOMAIN Disks : /\ <<devices[k].channel, devices[k].drive>> = Disks[k]
                             /\ devices[k].lba = drives[Disks[k]].lba
                             /\ devices[k].size = drives[Disks[k]].size

\* A transfer that IDE_Access reports as done has moved the sectors asked for,
\* of the drive asked for, in their order, whichever way they are addressed,
\* also when another one has failed before (lines 200 to 312).
Promise == INSTANCE BlockDevice WITH
  done <- i,
  call <- IF call = NoCall THEN NoCall
          ELSE [place |-> IF call.device < Len(Disks) THEN Disks[call.device + 1] ELSE <<2, 0>>,
                direction |-> call.direction, lba |-> call.lba, count |-> call.count]
ImplementsBlockDevice == Promise!Spec

(***************************************************************************)
(* The transfers that can be done: a disk that is addressed by cylinder    *)
(* ends where the registers for it do, and what is written fits on the     *)
(* disk, which understands how it is addressed and reports no error, as    *)
(* IDE_Access does not look for one while it writes.                       *)
(***************************************************************************)
LBAFor(m, p) ==
  LET disks == DisksOf(m.drives) IN p[2] < Len(disks) /\ m.drives[disks[p[2] + 1]].lba

Fits(m, a) ==
  LET p == DisksOf(m.drives)[a.device + 1]
      byCylinder == a.lba < LBA28Limit /\ ~LBAFor(m, p)
  IN
  /\ byCylinder => a.lba < Byte * Byte * Heads * SectorsPerTrack
  /\ a.direction = "write" => /\ a.lba + a.count <= m.drives[p].size
                              /\ byCylinder \/ m.drives[p].lba

TransfersFit ==
  /\ "write" \notin MayFail
  /\ \A m \in Configurations : \A a \in m.accesses : a.device < Len(DisksOf(m.drives)) => Fits(m, a)

\* The search for drives ends, and so does every transfer: no loop waits for a
\* bit of the status register that will not come (lines 175, 328).
CallsReturn == pc # "ready" ~> pc = "ready"
=============================================================================
