-------------------------------- MODULE VMM --------------------------------
(***************************************************************************)
(* The page tables under src/kernel/memory/vmm.c: VMM_AllocatePages,       *)
(* VMM_ReservePages and VMM_FreePages, the page faults they cause          *)
(* themselves, and those of the pages they reserve.                        *)
(*                                                                         *)
(* Pages come from the allocator of module PageAllocator, which the free   *)
(* list of module VMMBlocks implements, and frames from the bitmaps, as    *)
(* module Buddy says.  The window at the end of the address space that     *)
(* shows the page tables themselves is left out of the heap.               *)
(*                                                                         *)
(* The definitions have other names than those of module PMM, so that one  *)
(* module can extend both and prove about both.                            *)
(***************************************************************************)
EXTENDS Buddy

CONSTANTS
  PageCount,      \* pages of the address space below the window
  TableSize,      \* entries of a page table, 1024
  FirstPage,      \* where the heap begins
  KernelTables,   \* the frames of the page tables the boot code has set up
  AllocateCounts, ReserveCounts, FreeCounts  \* what callers ask for

\* The heap lies behind the kernel, in the upper half of the address space.
\* PAGE_COUNT is 2^20, the number of pages, of frames, and of the frame numbers
\* an entry has bits for.
ASSUME SizesAssumption ==
  /\ PageCount \in Nat /\ TableSize \in Nat \ {0} /\ FirstPage \in 1..(PageCount - 1)
  /\ PageCount % TableSize = 0 /\ PageCount <= 2 * FirstPage
  /\ FrameCount \in { 2^i : i \in 4..20 } /\ PageCount <= FrameCount
\* ReservePages and FreePages shift by 12 + i, which means nothing from 32 on.
ASSUME CallsAssumption ==
  /\ AllocateCounts \cup ReserveCounts \cup FreeCounts \subseteq 1..PageCount
  /\ ReserveCounts \cup FreeCounts \subseteq 1..20

PageNumbers == 0..(PageCount - 1)
Heap == FirstPage..(PageCount - 1)
Directory == 0..(PageCount \div TableSize - 1)
TableOf(page) == page \div TableSize

ASSUME KernelAssumption ==
  /\ DOMAIN KernelTables \subseteq Directory
  /\ \A d \in DOMAIN KernelTables : KernelTables[d] \in Frames

VARIABLES
  mem,     \* [bitmaps, pages, tables, missed]: PMM's bitmaps, the entries of the
           \* page tables and of the directory, and a ghost: an error the code
           \* does not test for has happened
  used,    \* ghost: the pages callers hold
  answer,  \* what the last call returned
  dma,     \* ghost: the contiguous runs callers hold, [base, count]
  stopped  \* the page-fault handler has stopped the processor

tableVars == <<mem, used, answer, dma, stopped>>

Blocks == INSTANCE PageAllocator WITH Pages <- Heap, Counts <- AllocateCounts

Run(base, count) == base..(base + count - 1)

\* An entry of a table or of the directory: bits 12 and up, PTE_RESERVED_BIT, bit 0.
Entry(frame, reserved, present) ==
  [frame |-> frame, reserved |-> reserved, present |-> present]

\* VMM_Init marks the tables that are not there as reserved.  What a table
\* holds that is not there yet is what its frame holds when it is taken: zero.
TablesInit ==
  /\ mem = [bitmaps |-> BootBitmaps,
            pages |-> [p \in PageNumbers |-> Entry(0, FALSE, FALSE)],
            tables |-> [d \in Directory |->
                          IF d \in DOMAIN KernelTables
                          THEN Entry(KernelTables[d], FALSE, TRUE)
                          ELSE Entry(0, TRUE, FALSE)],
            missed |-> FALSE]
  /\ used = {} /\ answer = 0 /\ dma = {} /\ stopped = FALSE

-----------------------------------------------------------------------------
(***************************************************************************)
(* Frames and entries.                                                     *)
(***************************************************************************)
FirstFrame(m, count) == GetAddress(m.bitmaps, count)

\* PMM_GetFrames, whose failure nobody tests for.
TakeFrames(m, count) ==
  [m EXCEPT !.bitmaps = AfterGet(@, count),
            !.missed = @ \/ FirstFrame(m, count) = 0]

\* a | b of two frame numbers, which have 20 bits, from that of their halves.
OrBit(a, b) == IF a = 0 /\ b = 0 THEN 0 ELSE 1
Or2(a, b) == 2 * OrBit(a \div 2, b \div 2) + OrBit(a % 2, b % 2)
Or4(a, b) == 4 * Or2(a \div 4, b \div 4) + Or2(a % 4, b % 4)
Or8(a, b) == 16 * Or4(a \div 16, b \div 16) + Or4(a % 16, b % 16)
Or16(a, b) == 256 * Or8(a \div 256, b \div 256) + Or8(a % 256, b % 256)
BitOr(a, b) == 65536 * Or4(a \div 65536, b \div 65536) + Or16(a % 65536, b % 65536)

\* What the page-fault handler makes of a reserved entry.
Fill(entry, frame) == Entry(BitOr(entry.frame, frame), FALSE, TRUE)

\* Mutant: the frame of the new table stays free.
WithTable_FrameStaysFree(m, page) ==
  IF m.tables[TableOf(page)].present THEN m
  ELSE [m EXCEPT !.tables[TableOf(page)] = Fill(@, FirstFrame(m, 1))]

\* An access to the entry of a page: when its table is not there the access
\* faults and the handler fills in the entry of the directory.
WithTable(m, page) ==
  IF m.tables[TableOf(page)].present THEN m
  ELSE [TakeFrames(m, 1) EXCEPT !.tables[TableOf(page)] = Fill(@, FirstFrame(m, 1))]

\* pageTables[page] |= frame << 12; pageTables[page] |= 3.  Bits an earlier
\* mapping has left stay.
MapPage(m, page, frame) ==
  LET t == WithTable(m, page)
  IN [t EXCEPT !.pages[page] = Entry(BitOr(@.frame, frame), @.reserved, TRUE),
               !.missed = @ \/ t.pages[page].frame # 0]

\* Mutant: the frames of a contiguous run are taken one at a time.
MapRun_OneByOne(m, base, count, contiguous) ==
  LET after[i \in 0..count] ==
        IF i = 0 THEN m
        ELSE MapPage(TakeFrames(after[i - 1], 1), base + i - 1, FirstFrame(after[i - 1], 1))
  IN after[count]

\* Mutant: a contiguous run is mapped one frame too far.
MapRun_NextFrames(m, base, count, contiguous) ==
  LET after[i \in 0..count] ==
        IF i = 0 THEN IF contiguous THEN TakeFrames(m, count) ELSE m
        ELSE LET a == after[i - 1] IN
             IF contiguous
             THEN MapPage(a, base + i - 1, FirstFrame(m, count) + i)
             ELSE MapPage(TakeFrames(a, 1), base + i - 1, FirstFrame(a, 1))
  IN after[count]

\* The loop of VMM_AllocatePages.
MapRun(m, base, count, contiguous) ==
  LET after[i \in 0..count] ==
        IF i = 0 THEN IF contiguous THEN TakeFrames(m, count) ELSE m
        ELSE LET a == after[i - 1] IN
             IF contiguous
             THEN MapPage(a, base + i - 1, FirstFrame(m, count) + i - 1)
             ELSE MapPage(TakeFrames(a, 1), base + i - 1, FirstFrame(a, 1))
  IN after[count]

\* The index the loops of VMM_ReservePages and VMM_FreePages compute:
\* `(uint32_t)base >> 12 + i' shifts by 12 + i.
ShiftedPage(base, i) == base \div 2^i

\* Mutant: the entry is not marked reserved.
ReserveRun_NotMarked(m, base, count) == WithTable(m, base)

ReserveRun(m, base, count) ==
  LET after[i \in 0..count] ==
        IF i = 0 THEN m
        ELSE LET page == ShiftedPage(base, i - 1)
             IN [WithTable(after[i - 1], page) EXCEPT
                   !.pages[page].reserved = TRUE,
                   !.missed = @ \/ after[i - 1].pages[page].frame # 0]
  IN after[count]

\* The entry keeps its frame and the reserved bit, and gives back the frame
\* it holds whether or not the page was there.
UnmapPage(m, page) ==
  LET t == WithTable(m, page)
      frame == t.pages[page].frame
  IN [t EXCEPT !.pages[page].present = FALSE,
               !.bitmaps = AfterFree(@, frame, 1),
               !.missed = @ \/ ~t.pages[page].present
                        \/ RunsPastArray(t.bitmaps, frame, 1)]

UnmapRun(m, base, count) ==
  LET after[i \in 0..count] ==
        IF i = 0 THEN m ELSE UnmapPage(after[i - 1], ShiftedPage(base, i - 1))
  IN after[count]

-----------------------------------------------------------------------------
(***************************************************************************)
(* The calls.  The model stops at the first error the code does not test   *)
(* for, with the state it leaves.                                          *)
(***************************************************************************)
Runs == ~stopped /\ ~mem.missed

\* VMM_AllocateBlock; its failure is not tested for.
AllocateBlock(base, count) ==
  \/ Blocks!Allocate(base, count)
  \/ base = 0 /\ Blocks!Fail(count)

Noting(m, base) == [m EXCEPT !.missed = @ \/ base = 0]

VMM_AllocatePages(count, contiguous) ==
  /\ Runs
  /\ \E base \in Heap \cup {0} :
       /\ AllocateBlock(base, count)
       /\ mem' = Noting(MapRun(mem, base, count, contiguous), base)
       /\ dma' = IF contiguous THEN dma \cup {[base |-> base, count |-> count]} ELSE dma
  /\ UNCHANGED stopped

VMM_ReservePages(count) ==
  /\ Runs
  /\ \E base \in Heap \cup {0} :
       /\ AllocateBlock(base, count)
       /\ mem' = Noting(ReserveRun(mem, base, count), base)
  /\ UNCHANGED <<dma, stopped>>

VMM_FreePages(address, count) ==
  /\ Runs
  /\ Blocks!Release(address, count)
  /\ mem' = UnmapRun(mem, address, count)
  /\ dma' = { r \in dma : Run(r.base, r.count) \cap Run(address, count) = {} }
  /\ UNCHANGED stopped

\* A caller touches a page it holds and that is not there:
\* VMM_PageFaultHandler gives a reserved page a frame and halts otherwise.
VMM_PageFaultHandler(page) ==
  /\ Runs
  /\ page \in used /\ ~mem.pages[page].present
  /\ IF mem.tables[TableOf(page)].present /\ mem.pages[page].reserved
     THEN /\ mem' = [TakeFrames(mem, 1) EXCEPT
                       !.pages[page] = Fill(@, FirstFrame(mem, 1))]
          /\ UNCHANGED stopped
     ELSE stopped' = TRUE /\ UNCHANGED mem
  /\ UNCHANGED <<used, answer, dma>>

TablesNext ==
  \/ \E count \in AllocateCounts, contiguous \in BOOLEAN :
       VMM_AllocatePages(count, contiguous)
  \/ \E count \in ReserveCounts : VMM_ReservePages(count)
  \/ \E count \in FreeCounts, address \in Heap : VMM_FreePages(address, count)
  \/ \E page \in Heap : VMM_PageFaultHandler(page)

TablesSpec == TablesInit /\ [][TablesNext]_tableVars

-----------------------------------------------------------------------------
(***************************************************************************)
(* Properties.  Those that say `as long as nothing was missed' hold until  *)
(* the first error the code does not test for: no frame or no page left, a *)
(* page used again whose entry keeps old bits, a page freed that was not   *)
(* there.                                                                  *)
(***************************************************************************)
PresentPages == { p \in PageNumbers : mem.pages[p].present }
NewTables == { d \in Directory \ DOMAIN KernelTables : mem.tables[d].present }

PageFrames == { mem.pages[p].frame : p \in PresentPages }
TableFrames == { mem.tables[d].frame : d \in NewTables }

TablesTypeOK ==
  /\ IsBitmaps(mem.bitmaps)
  /\ mem.pages \in [PageNumbers -> [frame : Frames, reserved : BOOLEAN,
                                    present : BOOLEAN]]
  /\ mem.tables \in [Directory -> [frame : Frames, reserved : BOOLEAN,
                                   present : BOOLEAN]]
  /\ used \subseteq Heap /\ answer \in Heap \cup {0}
  /\ mem.missed \in BOOLEAN /\ stopped \in BOOLEAN

\* As long as nothing was missed, no two pages of callers share a frame, no
\* page shows a page table, and every frame is either free or in use by one of
\* them: none is lost, and none comes from nowhere.
FramesOwned ==
  ~mem.missed =>
    /\ \A p, q \in PresentPages : p # q => mem.pages[p].frame # mem.pages[q].frame
    /\ \A d, e \in NewTables : d # e => mem.tables[d].frame # mem.tables[e].frame
    /\ PageFrames \cap TableFrames = {}
    /\ FreeFramesOf(mem.bitmaps) \cap (PageFrames \cup TableFrames) = {}
    /\ FreeFramesOf(mem.bitmaps) \cup PageFrames \cup TableFrames = Usable

\* A page a caller holds is there or will be when it is touched, so touching
\* it never halts the kernel.
TouchingIsSafe == ~stopped

\* What the driver of the network card relies on: the frames of a contiguous
\* run follow each other, whatever page tables had to be made on the way.
RunsContiguous ==
  ~mem.missed =>
    \A r \in dma : \A p \in Run(r.base, r.count) :
      mem.pages[p].frame = mem.pages[r.base].frame + (p - r.base)

\* "Clear page tables and deallocate physical memory": a call that gives pages
\* back leaves none of them mapped.
FreedPagesUnmapped == [][\A p \in used \ used' : ~mem'.pages[p].present]_tableVars
=============================================================================
