----------------------------- MODULE VMMBlocks -----------------------------
(***************************************************************************)
(* The free list of the virtual memory manager, src/kernel/memory/vmm.c:   *)
(* VMM_AllocateBlock and the first half of VMM_FreePages, on a linked list *)
(* of free blocks whose structs come from the array memoryBuffer.          *)
(*                                                                         *)
(* Addresses and sizes are counted in pages, and an address is a number    *)
(* modulo Total, as the code's is modulo 2^32.  One call runs at a time:   *)
(* interrupt handlers do not allocate pages.  The walk along the list is   *)
(* modelled step by step, as a damaged list would send it astray.          *)
(***************************************************************************)
EXTENDS Integers

CONSTANTS
  Total,      \* TOTAL_MEMORY_SIZE
  HalfPages,  \* KERNEL_HALF_PAGE_COUNT
  FirstPage,  \* the end of the kernel and of the bootstrap allocator
  Counts      \* the numbers of pages callers ask for and give back

ASSUME SizesAssumption ==
  /\ Total \in Nat /\ HalfPages \in Nat /\ FirstPage \in Nat
  /\ 0 < Total - HalfPages
  /\ Total - HalfPages < FirstPage /\ FirstPage < Total
ASSUME CountsAssumption == Counts \subseteq 1..(Total - 1)

Heap == FirstPage .. (Total - 1)

Null == 0
Slots == 1 .. (HalfPages \div 2)

VARIABLES
  memoryBuffer,  \* Slots -> [start, size, next]; an unused struct starts at Null
  listStart,
  call,          \* the call that runs: [op, address, count, previous, current]
  used,          \* ghost: the pages callers hold
  answer,        \* what the last VMM_AllocateBlock returned
  crashed        \* a NULL struct has been written through

vars == <<memoryBuffer, listStart, call, used, answer, crashed>>

Run(base, count) == base .. (base + count - 1)

NoCall == [op |-> "none", address |-> 0, count |-> 1,
           previous |-> Null, current |-> Null]

Init ==
  /\ memoryBuffer = [s \in Slots |->
                       [start |-> IF s = 1 THEN FirstPage ELSE Null,
                        size |-> IF s = 1 THEN Total - FirstPage ELSE 0,
                        next |-> Null]]
  /\ listStart = 1
  /\ call = NoCall
  /\ used = {} /\ answer = 0 /\ crashed = FALSE

-----------------------------------------------------------------------------
(***************************************************************************)
(* The walk that both functions begin with.                                *)
(***************************************************************************)
Begin(op, address, count) ==
  /\ call.op = "none" /\ ~crashed
  /\ call' = [op |-> op, address |-> address, count |-> count,
              previous |-> Null, current |-> listStart]
  /\ UNCHANGED <<memoryBuffer, listStart, used, answer, crashed>>

BeginAllocate(count) == Begin("allocate", 0, count)

\* Callers give back pages they hold, all of a block or a part of it.
BeginFree(address, count) ==
  Run(address, count) \subseteq used /\ Begin("free", address, count)

Current == memoryBuffer[call.current]
Previous == memoryBuffer[call.previous]

\* Mutant: a block of exactly the size is passed by.
PassesBy_ExactFit(block) == IF call.op = "allocate" THEN block.size <= call.count
                                                    ELSE block.start <= call.address

\* The walk goes on past blocks that are too small, or that do not lie behind
\* the address.
PassesBy(block) == IF call.op = "allocate" THEN block.size < call.count
                                           ELSE block.start <= call.address

\* Mutant: the walk does not advance.
Walk_Stays ==
  /\ call.op # "none" /\ call.current # Null
  /\ PassesBy(Current)
  /\ call' = [call EXCEPT !.previous = call.current]
  /\ UNCHANGED <<memoryBuffer, listStart, used, answer, crashed>>

Walk ==
  /\ call.op # "none" /\ call.current # Null
  /\ PassesBy(Current)
  /\ call' = [call EXCEPT !.previous = call.current, !.current = Current.next]
  /\ UNCHANGED <<memoryBuffer, listStart, used, answer, crashed>>

\* The walk is over.
At(op) == /\ call.op = op
          /\ call.current # Null => ~PassesBy(Current)
          /\ call' = NoCall

\* Makes t the block after the previous one, and the rest of the buffer buf.
LinkPrevious(buf, t) ==
  IF call.previous = Null
  THEN memoryBuffer' = buf /\ listStart' = t
  ELSE /\ memoryBuffer' = [buf EXCEPT ![call.previous].next = t]
       /\ UNCHANGED listStart

-----------------------------------------------------------------------------
(***************************************************************************)
(* VMM_AllocateBlock(count), once the walk is over.                        *)
(***************************************************************************)
Granted ==
  /\ used' = used \cup Run(Current.start, call.count)
  /\ answer' = Current.start
  /\ UNCHANGED crashed

\* Mutant: the struct is not marked unused.
AllocateExact_KeepsStart ==
  /\ At("allocate") /\ call.current # Null /\ Current.size = call.count
  /\ Granted
  /\ LinkPrevious(memoryBuffer, Current.next)

\* The block is taken whole and its struct is free again.
AllocateExact ==
  /\ At("allocate") /\ call.current # Null /\ Current.size = call.count
  /\ Granted
  /\ LinkPrevious([memoryBuffer EXCEPT ![call.current].start = Null], Current.next)

\* The front of the block is taken.
AllocateFront ==
  /\ At("allocate") /\ call.current # Null /\ Current.size > call.count
  /\ Granted
  /\ memoryBuffer' = [memoryBuffer EXCEPT ![call.current].start = @ + call.count,
                                          ![call.current].size = @ - call.count]
  /\ UNCHANGED listStart

AllocateNone ==
  /\ At("allocate") /\ call.current = Null
  /\ answer' = 0
  /\ UNCHANGED <<memoryBuffer, listStart, used, crashed>>

-----------------------------------------------------------------------------
(***************************************************************************)
(* VMM_FreePages(address, count) on the list, once the walk is over.       *)
(***************************************************************************)
Wrap(x) == x % Total

CoalesceLeft == /\ call.previous # Null
                /\ Wrap(Previous.start + Previous.size) = call.address

CoalesceRight == /\ call.current # Null
                 /\ Current.start = Wrap(call.address + call.count)

Returned == used' = used \ Run(call.address, call.count) /\ UNCHANGED answer

Unused == { s \in Slots : memoryBuffer[s].start = Null }

\* VMM_FindBlockStruct
FirstUnused == CHOOSE s \in Unused : \A t \in Unused : s <= t

\* The pages become a block of their own, in a struct nobody tests for NULL.
FreeAlone ==
  /\ At("free") /\ ~CoalesceLeft /\ ~CoalesceRight
  /\ IF Unused = {}
     THEN crashed' = TRUE /\ UNCHANGED <<memoryBuffer, listStart, used, answer>>
     ELSE /\ LinkPrevious([memoryBuffer EXCEPT ![FirstUnused] =
                             [start |-> call.address, size |-> call.count,
                              next |-> call.current]],
                          FirstUnused)
          /\ Returned
          /\ UNCHANGED crashed

\* Mutant: the struct of the block behind is not marked unused.
FreeBetween_KeepsStart ==
  /\ At("free") /\ CoalesceLeft /\ CoalesceRight
  /\ memoryBuffer' = [memoryBuffer EXCEPT
                        ![call.previous].size = @ + call.count + Current.size,
                        ![call.previous].next = Current.next]
  /\ Returned
  /\ UNCHANGED <<listStart, crashed>>

\* The pages join the blocks before and behind them into one.
FreeBetween ==
  /\ At("free") /\ CoalesceLeft /\ CoalesceRight
  /\ memoryBuffer' = [memoryBuffer EXCEPT
                        ![call.previous].size = @ + call.count + Current.size,
                        ![call.previous].next = Current.next,
                        ![call.current].start = Null]
  /\ Returned
  /\ UNCHANGED <<listStart, crashed>>

FreeBehind ==
  /\ At("free") /\ CoalesceLeft /\ ~CoalesceRight
  /\ memoryBuffer' = [memoryBuffer EXCEPT ![call.previous].size = @ + call.count]
  /\ Returned
  /\ UNCHANGED <<listStart, crashed>>

\* Mutant: the start of the block is not moved.
FreeInFront_KeepsStart ==
  /\ At("free") /\ ~CoalesceLeft /\ CoalesceRight
  /\ memoryBuffer' = [memoryBuffer EXCEPT ![call.current].size = @ + call.count]
  /\ Returned
  /\ UNCHANGED <<listStart, crashed>>

FreeInFront ==
  /\ At("free") /\ ~CoalesceLeft /\ CoalesceRight
  /\ memoryBuffer' = [memoryBuffer EXCEPT ![call.current].start = @ - call.count,
                                          ![call.current].size = @ + call.count]
  /\ Returned
  /\ UNCHANGED <<listStart, crashed>>

-----------------------------------------------------------------------------
Step == \/ Walk
        \/ AllocateExact \/ AllocateFront \/ AllocateNone
        \/ FreeAlone \/ FreeBetween \/ FreeBehind \/ FreeInFront

Next == \/ \E count \in Counts :
             \/ BeginAllocate(count)
             \/ \E address \in used : BeginFree(address, count)
        \/ Step

\* A call that has begun runs on.
Spec == Init /\ [][Next]_vars /\ WF_vars(Step)

-----------------------------------------------------------------------------
(***************************************************************************)
(* Properties.                                                             *)
(***************************************************************************)

\* The structs in use: VMM_FindBlockStruct takes any other.
Live == { s \in Slots : memoryBuffer[s].start # Null }

BlockEnd(s) == memoryBuffer[s].start + memoryBuffer[s].size

TypeOK ==
  /\ memoryBuffer \in [Slots -> [start : Heap \cup {Null}, size : 0..(Total - FirstPage),
                                 next : Slots \cup {Null}]]
  /\ listStart \in Slots \cup {Null}
  /\ call \in [op : {"none", "allocate", "free"}, address : Heap \cup {0},
               count : Counts \cup {1}, previous : Live \cup {Null},
               current : Live \cup {Null}]
  /\ used \subseteq Heap /\ answer \in Heap \cup {0} /\ crashed \in BOOLEAN

\* The list leads through exactly the structs in use, from the lowest block to
\* the highest: every one but the first is the next of another.
ListComplete ==
  /\ {listStart} \cup { memoryBuffer[s].next : s \in Live } = Live \cup {Null}
  /\ \A s, t \in Live : memoryBuffer[s].next = memoryBuffer[t].next => s = t

\* Blocks of the list neither overlap nor touch: what is freed beside a free
\* block always joins it, so the largest free run is one block.
ListOrdered ==
  \A s \in Live : /\ memoryBuffer[s].size > 0 /\ BlockEnd(s) <= Total
                  /\ memoryBuffer[s].next # Null =>
                       BlockEnd(s) < memoryBuffer[memoryBuffer[s].next].start

FreePages == UNION { Run(memoryBuffer[s].start, memoryBuffer[s].size) : s \in Live }

\* No page is lost and none is both free and held: the free list holds exactly
\* the pages of the heap nobody holds.
PagesAccounted == FreePages = Heap \ used

\* Whatever is allocated and freed in whatever order, the free list is complete,
\* ordered and coalesced, and accounts for every page.
ListSound == ListComplete /\ ListOrdered /\ PagesAccounted

\* VMM_FindBlockStruct never runs out: half as many structs as the kernel's
\* half has pages are enough for any sequence of calls.
StructsSuffice == ~crashed

\* The list implements the allocator callers see, with the lowest run that
\* fits for an answer and failure only when there is none.
Abstract == INSTANCE PageAllocator WITH Pages <- Heap

ImplementsPageAllocator == Abstract!Spec

\* Every call returns: the walk never goes round in a circle.
CallsReturn == (call.op # "none") ~> (call.op = "none")
=============================================================================
