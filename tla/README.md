# Explosion OS in TLA+

Explosion OS is a 32-bit hobby operating system for PCs: a two-stage boot loader in
assembly and C, and a kernel in C with a physical and a virtual memory manager, a PS/2
keyboard, an IDE and an RTL8139 driver, a bit of networking, text and graphics output, a
shell and a ray tracer. It has no tests. This directory models its core in TLA+, checks
the models with TLC and proves theorems about them with TLAPS. Paths below are relative
to the repository (`src/kernel/...`, `src/bootloader/...`).

## The system

| Component | State | Operations | Called by / shares |
|---|---|---|---|
| Boot loader stage 1, 2 (`bootloader/`) | FAT handles, sector buffers, E820 map | BIOS reads with retries, `FAT_Open/Read/Close`, memory detection | hands the memory map to the kernel |
| Kernel entry, `main.c` | page directory, boot order | paging on, `kstart` | calls every `*_Init`; enables interrupts before most of them |
| Bootstrap allocator (`memory/bootstrap_alloc.c`) | a pointer | `bmalloc` | the bitmaps of PMM, the structs of VMM |
| Physical memory manager (`memory/pmm.c`) | five bitmaps | `PMM_Init`, `PMM_GetFrames`, `PMM_FreeFrames` | VMM, page-fault handler |
| Virtual memory manager (`memory/vmm.c`) | list of free blocks, page tables | `VMM_AllocatePages`, `VMM_ReservePages`, `VMM_FreePages`, page faults | RTL8139 driver; PMM |
| Interrupt dispatch (`arch/i686/isr*, irq.c, pic/8259.c`) | handler tables, PIC masks | common handlers, EOI | every driver |
| PS/2 (`drivers/ps2.c`, `arch/i686/i8042.c`) | command queue | `PS2_EnqueueCommand`, `PS2_IRQHandler` | main context and IRQ 1 |
| Keyboard (`drivers/keyboard.c`), shell (`shell.c`) | two rings of 256, key map, locks | push, get, flush, poll | IRQ 1 fills, the shell drains |
| RTL8139 (`drivers/net/rtl8139.c`), Ethernet, ARP, IP (`net/`) | ring offset, transmit register, one packet buffer | receive interrupt, send | main context and the interrupt |
| IDE (`drivers/drive/ide.c`), PCI (`drivers/pci.c`) | channels, devices | identify, PIO transfers | boot; IRQ 14, 15 |
| Screen (`stdio.c`, `drivers/display.c`, `arch/i686/vga/`) | cursor, mode | `putc`, mode switches | main context and handlers that print |
| Ray tracer, math, string, GDT, IDT tables, port I/O | - | - | - |

The kernel has one processor and no threads. What runs concurrently is the main context
and the interrupt handlers, which run to their end with interrupts disabled, and the
devices. Nothing is persisted, so there is no crash recovery. What is hard:

* the allocators: long sequences of legal calls, splitting and coalescing, and errors no
  caller tests for (PMM, VMM);
* integer edges: shifts, wrap-around at 4 GiB, bit indices (PMM, `PMM_Init`, VMM, IDE);
* interrupts between two statements of the main context (PS/2, keyboard rings, screen,
  RTL8139, the shared packet buffer);
* devices that answer early, late, again or never (PS/2, RTL8139, IDE).

What makes each component correct:

* PMM: no frame is handed out twice, lost, or handed out though it is not usable memory;
  a request fails only when there is no block; failing changes nothing.
* `PMM_Init`: exactly the usable pages behind the kernel are free, on one level each.
* VMM: the same for pages; a page held is mapped to a frame of its own; contiguous runs
  are contiguous; the structs of the list never run out.
* PS/2: every byte of the keyboard reaches the command that waits for it or the keyboard
  driver, never both, never neither; commands end; the lamps follow the locks.
* Keyboard and shell: rings lose only what does not fit, in order; the input buffer holds.
* RTL8139 and the protocols: packets are copied whole and in order; a packet being sent is
  not overwritten.
* IDE: the sectors asked for are those transferred, errors are reported.
* FAT: a file is read in order to its end; a handle is open for one file.

`PROJECT.json` lists the hazards by line.

## The modules

| Module | Models |
|---|---|
| `Bitmaps` | the five bitmaps of `pmm.c` as sets of clear bits, and what it means for them to be sound |
| `Buddy` | the functions of `pmm.c` as operators: search, split, free and coalesce |
| `PMM` | `PMM_GetFrames`, `PMM_FreeFrames`: the buddy allocator and its callers |
| `FrameAllocator` | what PMM promises: the blocks callers hold, nothing else |
| `MCPMM` | boot bitmaps for TLC |
| `PMMInit`, `MCPMMInit` | `PMM_Init`: the walk over the memory map, and the maps for TLC |
| `VMMBlocks` | the free list of `vmm.c`, statement by statement along the list |
| `PageAllocator` | what the free list promises: lowest free run first |
| `VMM`, `MCVMM` | the page tables: `VMM_AllocatePages`, `VMM_ReservePages`, `VMM_FreePages`, page faults |
| `Interrupts` | the two 8259 controllers and the way of an interrupt to a driver's handler |
| `PS2` | the command queue, the main context, the interrupt handler, the controller and the keyboard |
| `Console`, `MCConsole` | from the bytes of the keyboard through the decoder and its queues to the shell and the screen; a keyboard and commands for TLC |
| `KeyQueue` | what the queue of characters promises: order, and loss only when it is full |
| `Network`, `MCNetwork` | the RTL8139 driver with Ethernet and ARP, in both contexts, and the card; frames for TLC |
| `PCI` | configuration reads and the search by class |
| `IDE`, `MCIDE` | the search for drives, transfers, and the drives; machines for TLC |
| `BlockDevice` | what a transfer promises: the sectors asked for, or an error |
| `FAT`, `MCFAT` | the FAT12 reader of the boot loader and its disk reads, and a disk for TLC |
| `FileSystem` | what the FAT reader promises: the file a path leads to, its contents in order |
| `Memory_proofs` (of `PMM` and `VMM`), `PMMInit_proofs`, `VMMBlocks_proofs`, `PS2_proofs`, `Console_proofs`, `Network_proofs`, `IDE_proofs`, `FAT_proofs` | the theorems about each component and their proofs |

How they compose: `PMMInit` and `Buddy` extend `Bitmaps`; `PMMInit` shows that what it
leaves satisfies the assumption `Buddy` makes about `BootBitmaps` (`SoundBitmaps`). `PMM` and
`VMM` both extend `Buddy`: `VMM` takes frames by its operators, and pages from
`PageAllocator`. `Network`
and `IDE` run on `Interrupts`, and `IDE` finds its controller through `PCI`. `PMM`
implements `FrameAllocator`, `VMMBlocks` `PageAllocator`, `FAT` `FileSystem`, `IDE`
`BlockDevice`, and the queue of `Console` `KeyQueue`. `PS2` hands bytes to the driver of
the keyboard, which is `Console`'s: the one speaks of how bytes get there and of the
lamps, the other of what a byte does.

### Bitmaps, Buddy, PMM, FrameAllocator

A bitmap is the set of its clear bits, so `bitmaps[l]` is a set of block numbers. An
operation of the code is one action, as nothing that can interrupt it allocates frames.
The recursion of `PMM_FindAndSplit` is written out as its result: the level it finds a
block on and the bits it changes on the way back (`FoundLevel`, `AfterSplit`); that of
`PPM_FreeAndCoalesce` as the level it stops on (`TopLevel`). `GiveBack` is the chain of
tests after a request that is not a power of two. `wild` records that `bitmaps[5]` was
indexed; the memory behind the array is not modelled, so the access either halts the
machine through a page fault or goes unnoticed. `PMM_FindAndSplit` falls off its end
without a return statement when the level above has failed; the build does not optimise
and leaves the callee's 0 in the return register, which is what the model returns.
`grants` is a ghost: the blocks callers hold. Callers give back whole blocks, or the
first frame of one, as `VMM_FreePages` does.

### PMMInit

One action per branch of the loop. Addresses are counted in half pages, so that regions
can begin and end inside a page, and arithmetic is modulo the size of the address space
as `uint32_t` arithmetic is. The region's high words are dropped as in the code.
`OrdinaryMaps` is what the walk needs of a map to do what it is there for: regions in order
and below 4 GiB, none ending in the last page, no hole behind the kernel with usable memory
beyond it, and the kernel ending inside a region. The maps of the run are of that kind
(`OrdinaryMapsAssumption`).

### VMMBlocks, PageAllocator

`memoryBuffer` is an array of structs `[start, size, next]` and `listStart` an index;
`Null` is 0. A call first walks (`Walk`, one step per block) and then does one of the
things `VMM_AllocateBlock` or `VMM_FreePages` does at the end of its walk. Sizes are
counted in pages, addresses modulo `Total` as in 32 bits.

### VMM

The bitmaps, the entries of the page tables and those of the directory are one record,
`mem`, that the operators of the module transform in the order of the code's statements,
loops included (`MapRun`, `ReserveRun`, `UnmapRun`). Writing an entry whose table is not
there faults, and the handler fills in the directory's entry (`WithTable`). An entry keeps
the bits the code keeps: `|` is computed bit by bit (`BitOr`). The ghost `mem.missed` says that something happened that the code
does not test for: no frame, no page, an entry used again with old bits in it, a page freed
that was not there, the array of bitmaps left. The model stops there. The sizes are those
the code counts on: whole page tables, a heap behind the kernel in the upper half of the
address space, and no more pages than frame numbers (`SizesAssumption`). Its names differ
from those of `PMM`, as the proofs extend both.

### PS2

The main context runs `PS2_Initialize` one statement at a time (`pc`), and the interrupt
handler is one step. `outBuf` and `inBuf` are the two buffers of the controller, `irq` the
latched edge of IRQ 1. The keyboard (external) takes a byte, acknowledges it or asks for it
again, and sends the codes of keys that are struck at any time. A lock key sends
`SetLEDs` from the handler. The two bytes of that command are the only ones that are sent.

### Interrupts

A controller is the set of requested, of served and of masked lines. Lines are
edge-triggered, as `i686_PIC_Remap` programs them: a line that stays asserted while it is
acknowledged makes no further request. (A machine whose firmware sets the line of the card
to level in the registers of the chipset would ask again.) Every gate is an interrupt
gate, so handlers do not nest. The 256 stubs of `isr_gen.h` are `Vectors`.

### Console, KeyQueue

The keyboard sends real scan codes, the long ones included. `Keyboard_HandleByte` is one
step between any two of the shell's, one action for each state of the decoder and kind of
byte. The queues are the code's arrays with head and tail; `Keyboard_GetCharacter` and
`Keyboard_FlushCharacterQueue` are two steps each, as they read one variable and then write
another. `putc` is one step for each access to the cursor or the screen: `todo` is the list
of those that are left of a character (`Accesses`), and `at` what has been read and not yet
used, so that a message of the handler falls between any two of them, between the test
`screenX > 0` and the decrement of a backspace too. The handler's own `puts` is one step.
`start` and `disturbed` are ghosts: where the prompt began, and that the handler has printed
since. `KeyQueue` is told how many characters the flush that has read the tail will take
away (`Leaving`), so that it loses those and no other. A
command is modelled by what it does to mode, screen and queue. In graphics mode the text
buffer is not shown and is cleared at the end, so nothing is drawn into it.

### Network

The card (external) writes packets into its ring, each behind a header, and sends the
descriptors it was given in their order. Byte `i` of the `n`-th packet is `<<n, i>>`, so a
packet that was not copied whole shows. As the card works while the handler runs, the
handler is two steps, reading the status and everything behind it; the main context waits
meanwhile. It runs `RTL8139_Init` and `ARP_SendRequest` one statement at a time with
interrupts enabled. Two ghosts mark where the code goes wrong: `early`, the interrupt of a
packet that came between the enabling of the receiver and the registration of the handler,
after which the line stays asserted; and `crossed`, a reply that is due in the middle of
`ARP_SendRequest`, which shares packet buffer and register with it. The model ends at the
second, and at a packet that is not whole.

### PCI, IDE, BlockDevice

The base registers of a controller in the mode of the AT are 0, and the driver then takes
the ports it knows; it writes the control register two ports behind where it is, so that
the interrupts of the drives stay on, as the model shows by comparing ports
(`InterruptsOff`). An address register holds the last and the former value, which is where
48-bit commands find the upper half of an address. `Byte` and `HeadSize` scale the
registers down, so that all three ways of addressing a sector meet small disks. The drives
(external) are busy, ready for a sector, done, or report an error; commands that a drive
does not understand are aborted. Waiting loops are guards. An access is one step for the
command and one for each sector.

### FAT, FileSystem

`files` holds the `FAT_FileData` of every handle and, under -1, that of the root directory,
which lies right before `files[0]` in memory: that is what `data->files[handle]` reaches
when there is no free handle. A call goes step by step: a search reads one entry per step
(`ReadEntry`), then ends (`NotFound`) or closes the directory and opens what it has found
(`Enter`, `EnterFails`); a read takes one buffer per step (`ReadChunk`). A unit is 32 bytes,
and the content of a unit is its place on the disk, so that delivering the wrong sector
shows. The table is kept as its 12-bit entries, and `NextCluster` reads 16 bits at the byte
the code reads them at. `MayFail` says which disk reads may fail after their three
attempts. `Matches` says what the conversion of a name comes to: only names with an
extension of three characters are found. The model begins after a `FAT_Initialize` that
has succeeded.

`FileSystem` keeps what the caller has asked for until it is answered, the path of an open
or the handle and the count of a read (`call.asked` in `FAT`): an open must give the entry
the path leads to, or NULL when it leads nowhere or the disk has failed, and a read as many
units as were asked for and are left. The ghost `call.astray` marks the opens this is not
true of: the cluster of the root directory is an LBA that `FAT_Read` advances and reads as a
cluster (`fat.c:158`), so that behind its first sector a search goes on in the data of some
file or directory, and `FAT_Close` leaves that sector in the buffer (`fat.c:257`). An open
that reads an entry from a buffer that is not that of the root directory's position may give
nothing or any file (`WentAstray`); what it gives is a file of the disk all the same, and is
read correctly.

## The runs

Passing runs:

| Run | Question | Bounds |
|---|---|---|
| `pmm` | Is the buddy allocator exclusive, complete, coalescing and clean on failure, and does it implement the abstract one? | 64 frames of which 34 are usable: two 64 KiB buddies and a pair; requests of 1, 4 and 16; three blocks held at a time. Enough to split from the top, to exhaust every level, to coalesce to the top and past it |
| `pmm_init` | Does the boot walk find exactly the usable memory and end? | 32 frames, three adjacent regions with twelve possible borders, on and inside pages, of either type |
| `vmm_blocks` | Is the free list sound under any order of calls, and are its structs enough? | five pages, three structs (exactly the code's ratio, so that one struct fewer would fail), runs of 1 to 3 |
| `vmm` | Do pages and page tables own their frames, with tables made on demand? | four pages over two tables, one of them missing; runs of 1, 2 and 4, contiguous or not; six frames, so that frames run out |
| `ps2` | Do commands, answers and keys stay apart, and does everything end? | a queue of 3 slots, four keys, four resends: enough to fill the queue and to exhaust the retries of one command |
| `fat` | Do callers get the file their path names, in order, and does no handle leak? | two handles, both used; sectors of three units, two sectors to a cluster, so that files and searches end inside and at the end of sectors, clusters and chains; an empty file, a directory opened as a file; a root directory of two sectors, with a file in the last place of the first one, a file that is missing in it but is found where its search goes astray, and one that is missing below; reads of four units and of more than there are; errors in searches and in the last step of an open |
| `console` | Does the queue lose only what does not fit, does the screen show what will be run, and does the key map follow the keys? | seven keys: a letter, shift, caps lock, backspace, enter, Print Screen and Pause; a queue that holds two characters, so that it fills and wraps; a screen of 4 by 3, so that lines wrap and leave it; four strokes, which type and run each of the commands and leave the picture again |
| `network` | Are packets taken whole and in order, do frames leave so, and is every interrupt served? | a ring of 80 bytes and four frames of six or nine bytes, which fill most of it and never reach its end; two transmit registers, so that they run out; requests for this host, for another and an IP packet |
| `ide` | Does the search find the disks, does a transfer move the sectors asked for, and does everything end? | registers of base 4: 28 bits become 128 sectors; four machines with disks that are small, large, without LBA, alone, behind another one, beside a CD drive or missing; transfers at the borders of each way of addressing and of the disks; errors of reads at any sector; two transfers each |

A property that is a conjunction has a conjunct for each thing that can go wrong:
`FramesSafe` says that a block is given to one caller, is free on one level, is usable
memory and that no frame is lost; `ExactlyUsable` that the walk finds usable memory only
and all of it; `ListSound` that the list is ordered, complete and accounts for every page;
`FramesOwned` that no frame is shared and none is lost.

Runs that must find a violation, each of a statement the code's comments make:

| Run | What happens |
|---|---|
| `vmm_free` | two pages freed at once: `>> 12 + i` clears the entry of another page |
| `ps2_fast_answer` | an answer between the write of a byte and `waiting_ack = true` is taken for a key |
| `network_wrap` | a packet that reaches the end of the ring: the second packet, of 21 bytes, has its data at 32 of the driver's 48, and the part before the wrap is given 1 byte where 16 are left (`rtl8139.c:53`); the card wraps 16 bytes earlier, at 32, as it does in the code (8192 and 8208) |

`PROJECT.json` gives for each property of a passing run a mutant, an operator in the module
that changes a definition the way a plausible bug would and that breaks the property. The
mutants are marked in the modules.

Deadlock is checked where the system has no reason to stop. It is switched off in the runs
of PMM and VMM, where the page-fault handler halts the processor, in that of `PMM_Init`,
which returns, in those of PS/2 and of the console, where the strokes are bounded, in those
of the network, where the frames are bounded and the model has an end, and in that of IDE,
where the transfers are bounded.

### Fairness

`PMMInit` assumes that the loop goes on, `VMMBlocks` and `FAT` that a call that has begun goes on:
the only context there is runs them. `PS2` assumes that the main context goes on, that a
pending interrupt is taken (they are enabled throughout), and that the keyboard answers
each byte and the controller delivers what the keyboard sends. The last two are
assumptions about the device: the code has no timeout, so without them `QueueDrains` is
false. Resends are not fair and are bounded. `Network` assumes that the main context goes
on, that interrupts are taken and their handler ends, and that the card sends what it was
given; nothing makes frames arrive. `IDE` assumes that the driver goes on and that a drive
that is there answers each command, with an error if need be: the waits for `BSY` have no
limit. `Console` has no liveness property and no fairness.

## What is proved

TLAPS checks the theorems of eight modules, one to a component. Each holds for every value
of the constants that the named assumptions of the component's module admit; what a theorem
assumes beyond them is a hypothesis of it, and the values of the runs meet them all. Every
module follows the same plan: an inductive invariant, one lemma
to an action (and to a part of the invariant, where the parts are large), and the
properties of the runs as consequences.

| Module | Theorems | Assumed beyond the constants' types |
|---|---|---|
| `Memory_proofs`, of `PMM` | `TypeCorrect`, `AllocatorSafe`, `CoalescesFully`, `FailureIsClean`, `Implements` (`FrameAllocator`) | requests of 1, 2, 4, 8 or 16 frames (`BlockSizes`); for `CoalescesFully` boot bitmaps that are coalesced |
| `Memory_proofs`, of `VMM` | `TablesTypeCorrect`, `FramesAlwaysOwned`, `RunsStayContiguous`, `TouchingAlwaysSafe`, `FreedPageUnmapped` | but for the first and the last requests of 1, 2, 4, 8, 16 or more than 16 pages (`BlockRequests`); for `TouchingAlwaysSafe` reservations of one page, for `FreedPageUnmapped` frees of one |
| `PMMInit_proofs` | `MarksExactlyUsable`, `LeavesSoundBitmaps` | `OrdinaryMaps` |
| `VMMBlocks_proofs` | `TypeCorrect`, `FreeListSound`, `StructsAreEnough`, `Implements` (`PageAllocator`) | nothing |
| `PS2_proofs` | `Invariance`, `TypeCorrect`, `AnswersStayInTheQueue`, `StaysInStep`, `LampsAreCurrent` | `Patient` |
| `Console_proofs` | `Invariance`, `TypeCorrect`, `ImplementsQueue` (`KeyQueue`), `EchoesTheLine`, `MapFollowsKeys` | nothing |
| `Network_proofs` | `TypeCorrect`, `FramesLeaveWhole`, `PacketsComeInOrder` | for the last one `OneTurn` |
| `IDE_proofs` | `TypeCorrect`, `SearchFindsDisks`, `CylindersAreFound`, `Implements` (`BlockDevice`) | for the last one `TransfersFit` |
| `FAT_proofs` | `SectorsAreFound`, `ClustersAreFound`, `TypeCorrect`, `HandlesNeverLeak`, `RootIsReady`, `Implements` (`FileSystem`) | for the last three `EnoughHandles`, for the last one `ChainsFit`, `PathsFit` and sectors of open files that are read without errors |

**PMM.** Any number of frames that is a multiple of 16 and all sound boot bitmaps
(`BootAssumption`). The invariant is stated on frames rather than bits; none of its parts is
inductive alone: that a grant is exclusive needs that a block is free on one level only,
that in turn needs that freed frames were held by the caller and by nobody else, and that
frame 0 is never free is what makes 0 a failure value. The lemmas give, for one split and
one coalescing, exactly the set of frames that is free afterwards (`SplitFrames`,
`CoalesceFrames`); the invariance of a step is then about sets of frames.

**VMM.** Any memory, any heap and any size of a page table. Until the code misses an
error, `Owned` divides the usable frames: each is free, or on its way, or the frame of one
page, or of one page table that a fault has made. `On its way` is what carries the proof
through `VMM_AllocatePages`: a contiguous run takes all its frames first and maps them one by
one, and each write may fault and take a frame for a table in between, which is not one of
the run because those are no longer free. With it go `PagesHeld` (what is mapped is a
caller's, and a reserved page has no frame yet), `RunsKept` (a contiguous run is there and
keeps its frames) and, for `TouchingAlwaysSafe`, `TouchInv`. That an entry shows the frame
that was or-ed into it needs that it was 0 (`BitOr` with 0), which is what the code counts
on and does not test. The loops are
recursive functions over the pages of a call; `CountUp` and `LoopRuns` show by well-founded
induction that they exist and what a turn does. The hypotheses are where the code is right: other
sizes of a contiguous run meet the hazard of `pmm.c:195` (17 pages and more only fail), and of two pages
reserved or freed at once the second is another one (`vmm.c:123`, run `vmm_free`).

**PMMInit.** Any memory, any number of regions that begin and end anywhere, inside pages
too. The result is about the end of the walk, so the invariant says what holds on the way:
`Walking` (the regions before the current one lie behind the address, and an address in
front of the current one means that no usable memory follows), `Marked` (what is free is
usable, free once and behind the address), `Complete` (what is usable and behind the
address is free, but for first pages of regions), and `Greedy`: a block that the walk has
entered is covered by one bit, or has a page that is not free, or is longer than its
region. The last case is the one that goes away only when the region is left, and it is
why the greedy choice of sizes leaves no two free buddies uncoalesced. The conclusion
`SoundBitmaps` is what `BootAssumption` and `CoalescesFully` ask of the bitmaps PMM begins
with. `Ordinary` excludes what the hazards of `pmm.c:54`, `63` and `138` describe; there the walk
goes wrong.

**VMMBlocks.** Any size of the heap. The list's order compares neighbours; what a step needs
compares any two blocks, so the invariant says that a page lies between any two (`Apart`),
that the list starts at the lowest (`Lowest`), goes on from each to the one right behind it
(`Successors`), leaves none out (`Reached`) and accounts for every page (`Accounted`), and
how far a walk has come (`CallOK`). Half as many structs as pages suffice because blocks
that do not touch start in different pairs of pages, which counts them.

**PS2.** Any length of the queue, any number of keys and of resends, for a keyboard that is
not struck before `PS2_Initialize` has returned and that does not answer before the main
context's next statement (`Patient`). The first excludes the hazard of `ps2.c:30`;
`ps2_fast_answer` shows that the second is needed. The invariant couples four parties:
`OneByteInFlight`, `Sending` (a busy queue sends the command at its head, an idle one is
empty), `Matching` (what the keyboard has made of the byte last sent) and `LastIsCurrent`
(the command queued last sets the lamps to the lock), with what holds before and during
`PS2_Initialize`.

**Console.** Any size of the queues and of the screen, any keys and commands. `Reading` says
what the shell has read of a queue and the handler has left as it was, which is what makes
the two steps of a take one step of `KeyQueue`. `Echo` says how far the line is drawn at
each access of `putc`, through backspaces and line ends, `Columns` that the column is -1 only
where the handler has printed between the test and the decrement of a backspace, and `Struck` how the map lags behind
the one stroke that is being decoded, through codes of one, two and more bytes.

**Network.** Any number of transmit registers and any frames. For sending, `Leaving`: for
some `n` the card has the `n` registers from its next one on, they hold what was accepted
and is not yet on the wire, and the driver's register is the one behind them. For receiving,
`InTurn`: packets lie in the ring one behind the other from its start (`Laid`), and the
driver's offset is where the first one it has not taken begins (`Taken`). This is proved up to the
end of the first turn of the ring (`OneTurn`); `network_wrap` shows that behind it the
property is false.

**IDE.** Any drives, transfers and errors of reads. The arithmetic lemmas say that the
digits `IDE_Access` writes into the registers name the sector again for the drive
(`ByNumber`, `ByLongNumber`, `CHSRanges`), for every size of a register. The invariant says
what the driver has found so far and what the drive last asked will answer (`Searched`),
that only a drive that is there is busy (`Works`) and what a call has in hand (`Called`);
the refinement adds that the drive named stands at the sector the driver expects (`Moved`).
`TransfersFit`, which the run assumes as well, leaves out the transfers the hazards of
`ide.c:223` and `ide.c:297` are about: writes that fail or that the drive cannot do, which
the code reports as done, and sectors behind the last cylinder.

**FAT.** Any geometry, any formatted disk (`DiskAssumption`) and any read that fails.
`SectorsAreFound` and `ClustersAreFound` are about the arithmetic. `HandlesNeverLeak` rests
on `Accounts`: between two steps of an open its directory is open too, so a handle is left
over. It needs callers that keep no more files open than there are handles; the eleventh
file overwrites the root directory. `RootIsReady` needs nothing else: a search moves cluster
and position of the root directory on together (`RootMoves`), wherever it gets to, and
closing sets both back.

`Implements` adds to this invariant that of `FilesRight`. `Placed`: cluster, sector of the
cluster and size of a file are those that belong to its position, and `Buffered`: so is the
sector in the buffer. `HeldInv` says this of the files callers hold. `ReadInv` says that a
read has delivered the units between where it began and where it is, and that what is left
is what the caller has asked for. `SearchInv` says that a search is in the directory of the
n-th name of its path and has not passed that name, unless the disk has failed; then the
buffer may be behind, but still holds some sector of the directory (`Covered`), so that
whatever is found stands in it. Of a search that goes astray in the root directory it asks
only that its path is kept; one that has not gone astray and ends without its name has
passed every entry of the root directory (`RootReadUp`). Chains and paths are recursive functions, of which `CountUp`
and `StepsRun` show by well-founded induction that they exist and what one step of them is;
`NextSectorIs` and `AdvanceOnward` are where the reader's step and that of the chain meet:
the end of a chain is met exactly at the end of the content. The hypotheses are what the
reader counts on and does not test, and the module of the run states them as an assumption
that TLC evaluates: `ChainsFit` (a chain is as long as its file needs and ends, the size of
a directory is 0), `PathsFit` (extensions of three characters, names that are not ambiguous,
directories on the way, where `fat.c:294` tests nothing) and no failing reads of open files,
after which the buffer holds the former sector (`fat.c:173`). Searches, directories and the
first sector of a file may fail at any step.

Only model-checked is liveness, which is out of the prover's reach: `Terminates`,
`CallsReturn`, `QueueDrains`, `EveryKeyHandled` and `InterruptsServed`.

## Disagreements no run shows

The passing runs keep away from these, each a hazard in `PROJECT.json`, or end where they
begin. In the memory managers: a request of 12 frames, or of 3 when no block is left, gives
back a block in the bitmap of the wrong level (`pmm.c:195`, `pmm.c:202`); a frame freed next to a free
64 KiB block coalesces past the top level, marks that block used and leaves the array of
bitmaps (`pmm.c:213`; the passing run reaches this and excuses what is lost by the ghost
`wild`); a hole in the memory map is freed as memory when the entry behind it is usable
(`pmm.c:138`), a region that ends at 4 GiB is walked for ever (`pmm.c:63`), regions above
it are taken for low memory, and a region that begins exactly where the kernel ends is
missed (`pmm.c:54`); a page freed and allocated again gets the old and the new frame number
or-ed (`vmm.c:150`).

In the drivers: a key struck between the dummy read and the registration of the handler in
`PS2_Initialize` blocks the keyboard (`ps2.c:30`); a packet before the registration of the
handler deafens the card (`rtl8139.c:119`); a reply in the middle of `ARP_SendRequest`
overwrites the packet or skips a register (`rtl8139.c:146`); a packet that shares its
interrupt with another stays in the ring until the next one (`rtl8139.c:37`); a disk is
addressed by the capabilities of another one (`ide.c:223`), a write the drive refuses is
reported as done (`ide.c:297`), and the handler of IRQ 15 reads the status of the first
channel (`ide.c:373`); Pause toggles the number lock (`keyboard.c:195`); a line of
more than 256 characters is written past its buffer (`shell.c:37`); nothing scrolls
(`stdio.c:36`); a backspace pressed and released between two looks at the key map does not
end the picture.

In the FAT reader: a file on the way to another is searched as a directory (`fat.c:294`); a
path that is not found in the root directory's first sector, or found in its last entry,
reads a sector of the data in place of the second one (`fat.c:158`) and leaves it in the root
directory's buffer, which spoils later opens (the passing run reaches this and excuses what
they give by the ghost `astray`); an eleventh open file
overwrites the root directory; after a failed read the buffer holds the former sector; and
a directory on the way whose first sector cannot be read is followed as NULL.

## Not modelled

* The recursive page-table window at the end of the heap, protection faults, stale TLB
  entries (`VMM_FreePages` does not invalidate them) and what a recycled frame holds when
  it becomes a page table.
* A PS/2 controller that never becomes ready, where `i686_i8042_WriteByte` gives up.
* A machine without the card, where `ARP_SendRequest` writes to the ports of the interrupt
  controller, as the base address is 0 (`rtl8139.c:79`), and one without an IDE
  controller, whose absence is not tested for (`ide.c:378`). DMA is not implemented.
* Disks of more than 1024 cylinders under the boot loader, of whose number the BIOS is handed
  ten bits (`x86.asm:187`), and disks whose geometry is not the 16 heads and 63 sectors that
  `IDE_Access` computes with (`ide.c:233`): the drives of `IDE` take cylinder, head and
  sector by the driver's geometry.
* `printf` and its conversions, and the printing of packets and devices.
* The boot: stage 1 and the reads of stage 2 before `FAT_Initialize` (straight-line BIOS
  calls), the memory detection, the allocator of the bootstrap (a pointer that only
  advances, before anything else runs), a failed `FAT_Initialize`, which the loader does
  not test for. Of the boot order only what the drivers do with interrupts enabled.
* The ray tracer (floating point), fonts and VGA register tables (data), GDT and IDT
  layout (constant tables), port instructions, and the real-mode switch code.

## Plan

What is left is `PacketsComeInOrder` beyond the first turn of the ring, for frames that
never lie across its end: the invariant `InTurn` would have to speak of packets on both sides
of it.
