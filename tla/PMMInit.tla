------------------------------ MODULE PMMInit ------------------------------
(***************************************************************************)
(* PMM_Init of src/kernel/memory/pmm.c: it walks the memory map the BIOS   *)
(* reports from the first page after the kernel upwards and clears the bit *)
(* of the largest block that fits at each address of usable memory.        *)
(*                                                                         *)
(* An address is counted in units of a half page, so that a region can     *)
(* start and end inside a page.  uint32_t arithmetic is arithmetic modulo  *)
(* Word, the size of the address space the bitmaps describe.               *)
(***************************************************************************)
EXTENDS Bitmaps, Sequences

CONSTANTS
  MemoryMaps,  \* the maps the BIOS may report: sequences of [base, length, type]
  MemoryStart  \* the end of the kernel and of the bootstrap allocator

Page == 2                  \* units of a page, 0x1000 bytes
Word == FrameCount * Page  \* 2^32 bytes
Usable == 1                \* the SMAP type of memory a system may use

ASSUME MemoryMapsAssumption ==
  MemoryMaps \subseteq Seq([base : Nat, length : Nat, type : Nat])
ASSUME MemoryStartAssumption == MemoryStart \in 1..(Word - Page)

VARIABLES
  smap,           \* smapEntries; index i of the code is entry i + 1
  smapIndex,
  addr,
  currBase,
  currSize,
  remainingSize,
  bitmaps,        \* per level, the set of clear bits
  done            \* PMM_Init has returned

vars == <<smap, smapIndex, addr, currBase, currSize, remainingSize, bitmaps, done>>

\* Only the low words of an entry are read.
Lo(x) == x % Word
EndOf(e) == Lo(Lo(e.base) + Lo(e.length))

\* The search loop: the first of these entries from index i on, or one past the
\* last entry.
SearchFrom(i, entries) ==
  LET found == { k \in entries : k >= i }
  IN IF found = {} THEN Len(smap) + 1
     ELSE CHOOSE k \in found : \A n \in found : k <= n

FirstAddr == Lo(((MemoryStart + Page - 1) \div Page) * Page)

\* The first search wants the entry to begin before the address.
FirstIndex ==
  SearchFrom(1, { k \in DOMAIN smap : /\ Lo(smap[k].base) < FirstAddr
                                      /\ FirstAddr < EndOf(smap[k]) })

Located(k) == k <= Len(smap)

Init ==
  /\ smap \in MemoryMaps
  /\ smapIndex = FirstIndex
  /\ addr = FirstAddr
  /\ currBase = IF Located(FirstIndex) THEN Lo(smap[FirstIndex].base) ELSE 0
  /\ currSize = IF Located(FirstIndex) THEN Lo(smap[FirstIndex].length) ELSE 0
  /\ remainingSize = IF Located(FirstIndex) THEN Lo(currBase + currSize - addr) ELSE 0
  /\ bitmaps = [l \in Levels |-> {}]
  /\ done = FALSE

-----------------------------------------------------------------------------
\* The head of the loop: the address has left the current entry.
PastEntry == Lo(currBase + currSize) < addr

Relocate ==
  /\ ~done /\ PastEntry
  /\ LET k == SearchFrom(smapIndex, { n \in DOMAIN smap : /\ Lo(smap[n].base) <= addr
                                                         /\ addr < EndOf(smap[n]) })
     IN /\ smapIndex' = k
        /\ IF Located(k)
           THEN /\ currBase' = Lo(smap[k].base)
                /\ currSize' = Lo(smap[k].length)
                /\ remainingSize' = Lo(currBase' + currSize' - addr)
                /\ UNCHANGED done
           ELSE /\ done' = TRUE
                /\ UNCHANGED <<currBase, currSize, remainingSize>>
  /\ UNCHANGED <<smap, addr, bitmaps>>

\* Mutant: the type of the entry is not looked at.
InUsable_AnyType == ~done /\ ~PastEntry

InUsable == ~done /\ ~PastEntry /\ smap[smapIndex].type = Usable

\* Mutant: other memory is not stepped over.
SkipPage_NoAdvance ==
  /\ ~done /\ ~PastEntry /\ smap[smapIndex].type # Usable
  /\ UNCHANGED vars

\* Memory of another type is stepped over a page at a time.
SkipPage ==
  /\ ~done /\ ~PastEntry /\ smap[smapIndex].type # Usable
  /\ addr' = Lo(addr + Page)
  /\ UNCHANGED <<smap, smapIndex, currBase, currSize, remainingSize, bitmaps, done>>

\* Mutant: the alignment of the address is not tested.
Fits_Unaligned(l) == remainingSize >= Size(l) * Page

\* A block of level l starts here and the rest of the entry has room for it.
Fits(l) == /\ remainingSize >= Size(l) * Page
           /\ l > 0 => addr % (Size(l) * Page) = 0

FreeBlock(l) ==
  /\ InUsable
  /\ Fits(l) /\ \A k \in (l + 1)..4 : ~Fits(k)
  /\ bitmaps' = [bitmaps EXCEPT ![l] = @ \cup {BitOf(l, addr \div Page)}]
  /\ addr' = Lo(addr + Size(l) * Page)
  /\ remainingSize' = remainingSize - Size(l) * Page
  /\ UNCHANGED <<smap, smapIndex, currBase, currSize, done>>

\* Less than a page is left: the next entry is taken for the current one,
\* wherever it begins.
NextEntry ==
  /\ InUsable /\ \A l \in Levels : ~Fits(l)
  /\ addr' = Lo(addr + Page)
  /\ smapIndex' = smapIndex + 1
  /\ IF Located(smapIndex + 1)
     THEN /\ currBase' = Lo(smap[smapIndex + 1].base)
          /\ currSize' = Lo(smap[smapIndex + 1].length)
          /\ remainingSize' = Lo(currBase' + currSize' - addr')
          /\ UNCHANGED done
     ELSE /\ done' = TRUE
          /\ UNCHANGED <<currBase, currSize, remainingSize>>
  /\ UNCHANGED <<smap, bitmaps>>

Next == \/ Relocate
        \/ SkipPage
        \/ \E l \in Levels : FreeBlock(l)
        \/ NextEntry

\* The boot processor runs the loop and nothing else.
Spec == Init /\ [][Next]_vars /\ WF_vars(Next)

-----------------------------------------------------------------------------
(***************************************************************************)
(* Properties.                                                             *)
(***************************************************************************)
\* The page of frame f lies in entry e, as the BIOS means it: base and length
\* have all their bits.
PageIn(f, e) == /\ e.base <= f * Page
                /\ (f + 1) * Page <= e.base + e.length

\* The usable pages PMM_Init is to find: wholly in an entry of usable memory
\* and behind the kernel.
UsableFrames ==
  { f \in Frames : /\ f * Page >= MemoryStart
                   /\ \E i \in 1..Len(smap) :
                        smap[i].type = Usable /\ PageIn(f, smap[i]) }

\* "Check if memory type is not available": no page is marked free that the
\* BIOS does not report as usable memory, or that the kernel occupies.  And
\* "search trough list to get the the current entry we are located in": once
\* the walk is over every usable page is free, up to the first whole page of
\* an entry, which the walk may step over when it enters the entry.
ExactlyUsable ==
  /\ FreeFramesOf(bitmaps) \subseteq UsableFrames
  /\ done => \A f \in UsableFrames \ FreeFramesOf(bitmaps) :
               \E i \in 1..Len(smap) : PageIn(f, smap[i]) /\ ~PageIn(f - 1, smap[i])

\* What the allocator builds on: the walk marks no page free on two levels,
\* never marks frame 0, whose number means failure, and chooses blocks as large
\* as they can be: when it is over, no two free buddies are left uncoalesced.
SoundBitmaps == /\ IsBitmaps(bitmaps) /\ FreeOnce(bitmaps) /\ FrameZeroUsed(bitmaps)
                /\ done => Coalesced(bitmaps)

(***************************************************************************)
(* The maps PMM_Init is made for.  Regions are in order and lie below the  *)
(* end of the address space; none ends in its last page, and one that ends *)
(* with it is not usable.  There is no hole behind the kernel with usable  *)
(* memory beyond it.  The kernel ends inside a region.                     *)
(***************************************************************************)
End(e) == e.base + e.length

NoHole(m, i) == \/ m[i + 1].base = End(m[i]) \/ m[i + 1].base <= MemoryStart
                \/ \A j \in (i + 1)..Len(m) : m[j].type # Usable

Ordinary(m) ==
  /\ \A i \in 1..Len(m) : /\ m[i].length > 0
                          /\ \/ End(m[i]) < Word - Page
                             \/ End(m[i]) = Word /\ m[i].type # Usable
  /\ \A i, j \in 1..Len(m) : i < j => End(m[i]) <= m[j].base
  /\ \A i \in 1..(Len(m) - 1) : NoHole(m, i)
  /\ \E i \in 1..Len(m) : m[i].base < FirstAddr /\ FirstAddr < End(m[i]) /\ End(m[i]) < Word

OrdinaryMaps == \A m \in MemoryMaps : Ordinary(m)

\* PMM_Init returns.
Terminates == <>done
=============================================================================
