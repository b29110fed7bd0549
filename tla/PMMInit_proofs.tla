--------------------------- MODULE PMMInit_proofs ---------------------------
(***************************************************************************)
(* For every number of frames and every map of the kind PMM_Init is made   *)
(* for: the walk marks free the usable pages and no others, up to the      *)
(* first page of a region, and leaves bitmaps the allocator can start      *)
(* from.                                                                   *)
(***************************************************************************)
EXTENDS PMMInit, TLAPS, WellFoundedInduction

Here == smap[smapIndex]

\* The walk is at a region, and everything before it lies behind the address.
\* Where the map has a hole, no usable memory follows.
Placed ==
  /\ smapIndex \in 1..Len(smap)
  /\ currBase = Lo(Here.base) /\ currSize = Lo(Here.length)
  /\ \A i \in 1..(smapIndex - 1) : End(smap[i]) <= addr
  /\ addr < Here.base => \A j \in smapIndex..Len(smap) : smap[j].type # Usable
  /\ Here.type = Usable /\ addr <= End(Here) => remainingSize = End(Here) - addr

Walking == /\ smap \in MemoryMaps /\ done \in BOOLEAN
           /\ addr \in FirstAddr..(Word - 1) /\ addr % Page = 0
           /\ ~done => Placed

\* What is free lies behind the address, is usable, and is free once.
Marked ==
  /\ IsBitmaps(bitmaps) /\ FreeOnce(bitmaps) /\ FrameZeroUsed(bitmaps)
  /\ FreeFramesOf(bitmaps) \subseteq UsableFrames
  /\ \A f \in FreeFramesOf(bitmaps) : f * Page < addr

\* The first page of a region, which the walk may step over.
FirstPage(f) == \E i \in 1..Len(smap) : PageIn(f, smap[i]) /\ ~PageIn(f - 1, smap[i])

Complete ==
  /\ \A f \in UsableFrames : f * Page < addr => f \in FreeFramesOf(bitmaps) \/ FirstPage(f)
  /\ done => \A f \in UsableFrames : f * Page < addr

\* A block that the walk has entered is free as a whole, or has a frame that is
\* not free, or the region ends before the block does.
Entered(l, b) ==
  \/ \E k \in Levels : k >= l /\ BitOf(k, b * Size(l)) \in bitmaps[k]
  \/ \E f \in Span(l, b) : f * Page < addr /\ f \notin FreeFramesOf(bitmaps)
  \/ ~done /\ Here.type = Usable /\ addr <= End(Here) /\ End(Here) < (b + 1) * Size(l) * Page

Greedy == \A l \in Levels : \A b \in Bits(l) : b * Size(l) * Page < addr => Entered(l, b)

IInv == Walking /\ Marked /\ Complete /\ Greedy

-----------------------------------------------------------------------------
(***************************************************************************)
(* Addresses and regions.                                                  *)
(***************************************************************************)
LEMMA Sizes ==
  /\ FrameCount \in Nat /\ Word = 2 * FrameCount /\ Page = 2
  /\ MemoryStart \in Nat /\ FirstAddr \in Nat /\ FirstAddr % 2 = 0 /\ 0 < FirstAddr
  /\ MemoryStart <= FirstAddr /\ FirstAddr <= Word - 2 /\ FirstAddr < MemoryStart + 2
<1>1. FrameCount \in Nat /\ Word = 2 * FrameCount /\ Page = 2
  BY FrameCountAssumption DEF Word, Page
<1>2. MemoryStart \in Nat /\ 0 < MemoryStart /\ MemoryStart <= Word - 2
  BY <1>1, MemoryStartAssumption
<1>3. PICK q : q = (MemoryStart + 1) \div 2
  OBVIOUS
<1>4. q \in Nat /\ MemoryStart <= q * 2 /\ q * 2 <= MemoryStart + 1 /\ q <= FrameCount - 1
  BY <1>1, <1>2, <1>3
<1>5. FirstAddr = (q * 2) % Word
  BY <1>1, <1>3 DEF FirstAddr, Lo
<1>6. q * 2 \in Nat /\ Word \in Nat /\ q * 2 < Word
  BY <1>1, <1>4
<1>7. FirstAddr = q * 2
  BY <1>5, <1>6
<1> QED BY <1>1, <1>2, <1>4, <1>7

LEMMA LoIs ==
  ASSUME NEW n \in Nat
  PROVE  (n < Word => Lo(n) = n) /\ (n = Word => Lo(n) = 0)
<1>1. Word \in Nat /\ Word > 0
  BY Sizes
<1> QED BY <1>1 DEF Lo

\* The regions of an ordinary map, and the end the code computes for one.
LEMMA Region ==
  ASSUME OrdinaryMaps, smap \in MemoryMaps, NEW i \in 1..Len(smap)
  PROVE  LET e == smap[i] IN
         /\ e.base \in Nat /\ e.length \in Nat /\ End(e) \in Nat /\ e.base < End(e)
         /\ End(e) < Word - 2 \/ (End(e) = Word /\ e.type # Usable)
         /\ Lo(e.base) = e.base
         /\ EndOf(e) = IF End(e) = Word THEN 0 ELSE End(e)
<1>1. PICK e, b, n : e = smap[i] /\ b = e.base /\ n = e.length
  OBVIOUS
<1>2. smap \in Seq([base : Nat, length : Nat, type : Nat])
  BY MemoryMapsAssumption
<1>3. b \in Nat /\ n \in Nat
  <2>1. e \in [base : Nat, length : Nat, type : Nat]
    <3>1. PICK R : R = [base : Nat, length : Nat, type : Nat]
      OBVIOUS
    <3>2. smap \in Seq(R)
      BY <1>2, <3>1
    <3>3. smap[i] \in R
      BY <3>2
    <3> QED BY <1>1, <3>1, <3>3
  <2> QED BY <1>1, <2>1
<1>4. n > 0 /\ (b + n < Word - 2 \/ (b + n = Word /\ e.type # Usable))
  BY <1>1, Sizes DEF OrdinaryMaps, Ordinary, End
<1>5. b < Word /\ Lo(b) = b
  BY <1>3, <1>4, LoIs, Sizes
<1>6. Lo(b + Lo(n)) = IF b + n = Word THEN 0 ELSE b + n
  <2>1. CASE n = Word
    <3>1. b = 0 /\ Lo(n) = 0
      BY <1>3, <1>4, <2>1, LoIs, Sizes
    <3> QED BY <2>1, <3>1, LoIs, Sizes
  <2>2. CASE n # Word
    <3>1. n < Word /\ Lo(n) = n /\ b + n \in Nat
      BY <1>3, <1>4, <2>2, LoIs, Sizes
    <3> QED BY <1>4, <3>1, LoIs, Sizes
  <2> QED BY <2>1, <2>2
<1> QED BY <1>1, <1>3, <1>4, <1>5, <1>6 DEF End, EndOf

\* What is left of a usable region.
LEMMA Remaining ==
  ASSUME OrdinaryMaps, smap \in MemoryMaps, NEW k \in 1..Len(smap), smap[k].type = Usable,
         NEW a \in Nat, a <= End(smap[k])
  PROVE  Lo(Lo(smap[k].base) + Lo(smap[k].length) - a) = End(smap[k]) - a
<1>1. /\ smap[k].base \in Nat /\ smap[k].length \in Nat /\ Lo(smap[k].base) = smap[k].base
      /\ End(smap[k]) \in Nat /\ End(smap[k]) < Word - 2
  BY Region
<1>2. smap[k].length < Word /\ Lo(smap[k].length) = smap[k].length
  <2>1. smap[k].length < Word
    BY <1>1, Sizes DEF End
  <2> QED BY <1>1, <2>1, LoIs
<1>3. Lo(smap[k].base) + Lo(smap[k].length) - a = End(smap[k]) - a
  BY <1>1, <1>2 DEF End
<1>4. End(smap[k]) - a \in Nat /\ End(smap[k]) - a < Word
  BY <1>1, Sizes
<1> QED BY <1>3, <1>4, LoIs

\* Regions are in order, and behind the kernel without holes that matter.
LEMMA InOrder ==
  ASSUME OrdinaryMaps, smap \in MemoryMaps
  PROVE  /\ Len(smap) \in Nat /\ DOMAIN smap = 1..Len(smap)
         /\ \A i, j \in 1..Len(smap) : i < j => End(smap[i]) <= smap[j].base
         /\ \A i \in 1..(Len(smap) - 1) : NoHole(smap, i)
<1>1. smap \in Seq([base : Nat, length : Nat, type : Nat])
  BY MemoryMapsAssumption
<1> QED BY <1>1 DEF OrdinaryMaps, Ordinary

\* The search finds the first entry.
LEMMA Least ==
  ASSUME NEW S \in SUBSET Nat, S # {}
  PROVE  \E b \in S : \A c \in S : b <= c
<1>1. PICK b \in S : \A c \in S : <<c, b>> \notin OpToRel(<, Nat)
  BY NatLessThanWellFounded, WFMin, Zenon
<1>2. \A c \in S : ~ (c < b)
  BY <1>1, Zenon DEF OpToRel
<1>3. \A c \in S : b <= c
  BY <1>2
<1> QED BY <1>3

LEMMA Search ==
  ASSUME NEW i \in Nat, NEW S, S \subseteq 1..Len(smap), Len(smap) \in Nat, NEW k,
         k = SearchFrom(i, S)
  PROVE  \/ k = Len(smap) + 1 /\ \A n \in S : n < i
         \/ k \in S /\ k >= i /\ \A n \in S : n >= i => k <= n
<1>1. PICK found : found = { n \in S : n >= i }
  OBVIOUS
<1>2. k = IF found = {} THEN Len(smap) + 1
          ELSE CHOOSE b \in found : \A c \in found : b <= c
  BY <1>1 DEF SearchFrom
<1>3. CASE found = {}
  <2>1. \A n \in S : ~(n >= i) /\ n \in Nat
    BY <1>1, <1>3
  <2>2. \A n \in S : n < i
    BY <2>1
  <2> QED BY <1>2, <1>3, <2>2
<1>4. CASE found # {}
  <2>1. \E b \in found : \A c \in found : b <= c
    BY <1>1, <1>4, Least
  <2>2. k \in found /\ \A c \in found : k <= c
    BY <1>2, <1>4, <2>1
  <2> QED BY <1>1, <2>2
<1> QED BY <1>3, <1>4

-----------------------------------------------------------------------------
(***************************************************************************)
(* Where the walk is.                                                      *)
(***************************************************************************)
\* What the head of the loop compares with.
LEMMA AtHead ==
  ASSUME OrdinaryMaps, Walking, ~done
  PROVE  /\ smapIndex \in 1..Len(smap) /\ Lo(currBase + currSize) = EndOf(Here)
         /\ Here.base \in Nat /\ End(Here) \in Nat /\ Here.base < End(Here) /\ addr \in Nat
         /\ EndOf(Here) = IF End(Here) = Word THEN 0 ELSE End(Here)
         /\ End(Here) < Word - 2 \/ (End(Here) = Word /\ Here.type # Usable)
         /\ PastEntry => End(Here) < addr \/ End(Here) = Word
         /\ ~PastEntry => addr <= End(Here) /\ End(Here) < Word - 2
<1>1. smapIndex \in 1..Len(smap) /\ smap \in MemoryMaps
      /\ currBase = Lo(Here.base) /\ currSize = Lo(Here.length)
  BY DEF Walking, Placed
<1>2. /\ Here.base \in Nat /\ End(Here) \in Nat /\ Here.base < End(Here)
      /\ EndOf(Here) = IF End(Here) = Word THEN 0 ELSE End(Here)
      /\ End(Here) < Word - 2 \/ (End(Here) = Word /\ Here.type # Usable)
  BY <1>1, Region DEF Here
<1>3. Lo(currBase + currSize) = EndOf(Here)
  BY <1>1 DEF EndOf
<1>4. addr \in Nat /\ FirstAddr <= addr /\ FirstAddr \in Nat /\ 0 < FirstAddr
  BY Sizes DEF Walking
<1> QED BY <1>1, <1>2, <1>3, <1>4 DEF PastEntry

LEMMA InitWalking == OrdinaryMaps /\ Init => Walking
<1> SUFFICES ASSUME OrdinaryMaps, Init PROVE Walking
  OBVIOUS
<1>1. smap \in MemoryMaps /\ addr = FirstAddr /\ done = FALSE /\ smapIndex = FirstIndex
  BY DEF Init
<1>2. PICK S : S = { k \in DOMAIN smap : /\ Lo(smap[k].base) < FirstAddr
                                         /\ FirstAddr < EndOf(smap[k]) }
  OBVIOUS
<1>3. S \subseteq 1..Len(smap) /\ Len(smap) \in Nat
  BY <1>1, <1>2, InOrder
<1>4. PICK n \in 1..Len(smap) : smap[n].base < FirstAddr /\ FirstAddr < End(smap[n])
                                /\ End(smap[n]) < Word
  BY <1>1 DEF OrdinaryMaps, Ordinary
<1>5. n \in S
  <2>1. End(smap[n]) # Word
    BY <1>1, <1>4, Region, Sizes
  <2>2. Lo(smap[n].base) = smap[n].base /\ EndOf(smap[n]) = End(smap[n])
    BY <1>1, <2>1, Region
  <2> QED BY <1>1, <1>2, <1>4, <2>2, InOrder
<1>6. smapIndex \in S /\ smapIndex \in 1..Len(smap)
  <2>1. smapIndex = SearchFrom(1, S)
    BY <1>1, <1>2 DEF FirstIndex
  <2>2. \/ smapIndex = Len(smap) + 1 /\ \A m \in S : m < 1
        \/ smapIndex \in S
    BY <1>3, <2>1, Search
  <2> QED BY <1>3, <1>4, <1>5, <2>2
<1>7. Located(FirstIndex)
  BY <1>1, <1>3, <1>6 DEF Located
<1>8. /\ currBase = Lo(Here.base) /\ currSize = Lo(Here.length)
      /\ remainingSize = Lo(currBase + currSize - addr)
  BY <1>1, <1>7 DEF Init, Here
<1>9. /\ Here.base \in Nat /\ End(Here) \in Nat /\ Lo(Here.base) = Here.base
      /\ EndOf(Here) = IF End(Here) = Word THEN 0 ELSE End(Here)
  BY <1>1, <1>6, Region DEF Here
<1>10. Here.base < addr /\ addr < EndOf(Here)
  BY <1>1, <1>2, <1>6, <1>9 DEF Here
<1>11. addr \in FirstAddr..(Word - 1) /\ addr % Page = 0 /\ addr \in Nat
  BY <1>1, Sizes
<1>12. \A i \in 1..(smapIndex - 1) : End(smap[i]) <= addr
  <2> TAKE i \in 1..(smapIndex - 1)
  <2>1. i \in 1..Len(smap) /\ i < smapIndex
    BY <1>3, <1>6
  <2>2. End(smap[i]) <= Here.base
    BY <1>1, <1>6, <2>1, InOrder DEF Here
  <2>3. End(smap[i]) \in Nat
    BY <1>1, <2>1, Region
  <2> QED BY <1>9, <1>10, <1>11, <2>2, <2>3
<1>13. Here.type = Usable /\ addr <= End(Here) => remainingSize = End(Here) - addr
  <2> SUFFICES ASSUME Here.type = Usable PROVE remainingSize = End(Here) - addr
    OBVIOUS
  <2>1. EndOf(Here) = End(Here)
    BY <1>1, <1>6, <1>9, Region, Sizes DEF Here
  <2>2. addr <= End(Here)
    BY <1>9, <1>10, <1>11, <2>1
  <2> QED BY <1>1, <1>6, <1>8, <1>11, <2>2, Remaining DEF Here
<1>14. ~(addr < Here.base)
  BY <1>9, <1>10, <1>11
<1> QED BY <1>1, <1>6, <1>8, <1>11, <1>12, <1>13, <1>14 DEF Walking, Placed

\* A region later in the list lies behind the address or the walk is in it.
LEMMA BehindIt ==
  ASSUME OrdinaryMaps, smap \in MemoryMaps, NEW k \in 1..Len(smap), NEW a \in Nat, smap[k].base <= a
  PROVE  \A i \in 1..(k - 1) : End(smap[i]) <= a
<1> TAKE i \in 1..(k - 1)
<1>1. i \in 1..Len(smap) /\ i < k
  BY InOrder
<1>2. End(smap[i]) <= smap[k].base /\ smap[k].base \in Nat /\ End(smap[i]) \in Nat
  BY <1>1, InOrder, Region
<1> QED BY <1>2

LEMMA RelocateWalking == OrdinaryMaps /\ Walking /\ Relocate => Walking'
<1> SUFFICES ASSUME OrdinaryMaps, Walking, Relocate PROVE Walking'
  OBVIOUS
<1>1. smap \in MemoryMaps /\ ~done /\ smap' = smap /\ addr' = addr
  BY DEF Walking, Relocate
<1>2. addr \in FirstAddr..(Word - 1) /\ addr % Page = 0 /\ addr \in Nat
  BY Sizes DEF Walking
<1>3. PICK S : S = { n \in DOMAIN smap : /\ Lo(smap[n].base) <= addr /\ addr < EndOf(smap[n]) }
  OBVIOUS
<1>4. PICK k : k = SearchFrom(smapIndex, S)
  OBVIOUS
<1>5. /\ smapIndex' = k
      /\ IF k <= Len(smap)
         THEN /\ currBase' = Lo(smap[k].base) /\ currSize' = Lo(smap[k].length)
              /\ remainingSize' = Lo(currBase' + currSize' - addr) /\ done' = done
         ELSE done' = TRUE
  BY <1>3, <1>4 DEF Relocate, Located
<1>6. CASE ~(k <= Len(smap))
  BY <1>1, <1>2, <1>5, <1>6 DEF Walking
<1>7. CASE k <= Len(smap)
  <2>1. k \in S /\ k \in 1..Len(smap) /\ Len(smap) \in Nat
    <3>1. S \subseteq 1..Len(smap) /\ Len(smap) \in Nat /\ smapIndex \in Nat
      BY <1>1, <1>3, InOrder DEF Walking, Placed
    <3>2. k = Len(smap) + 1 \/ k \in S
      BY <1>4, <3>1, Search
    <3>3. k # Len(smap) + 1
      BY <1>7, <3>1
    <3>4. k \in S
      BY <3>2, <3>3
    <3> QED BY <3>1, <3>4
  <2>2. smap[k].base <= addr /\ smap[k].base \in Nat
    BY <1>1, <1>3, <2>1, Region
  <2>3. Here' = smap[k] /\ done' = done
    BY <1>1, <1>5, <1>7 DEF Here
  <2>4. \A i \in 1..(k - 1) : End(smap[i]) <= addr
    BY <1>1, <1>2, <2>1, <2>2, BehindIt
  <2>5. smap[k].type = Usable /\ addr <= End(smap[k]) => remainingSize' = End(smap[k]) - addr
    BY <1>1, <1>2, <1>5, <1>7, <2>1, Remaining
  <2>6. ~(addr < smap[k].base)
    BY <1>2, <2>2
  <2>7. Placed'
    <3>1. /\ smapIndex' \in 1..Len(smap') /\ currBase' = Lo(Here'.base) /\ currSize' = Lo(Here'.length)
      BY <1>1, <1>5, <1>7, <2>1, <2>3
    <3>2. \A i \in 1..(smapIndex' - 1) : End(smap'[i]) <= addr'
      BY <1>1, <1>5, <2>4
    <3> QED BY <1>1, <2>3, <2>5, <2>6, <3>1, <3>2 DEF Placed, End
  <2> QED BY <1>1, <1>2, <2>3, <2>7 DEF Walking
<1> QED BY <1>6, <1>7

LEMMA SkipWalking == OrdinaryMaps /\ Walking /\ SkipPage => Walking'
<1> SUFFICES ASSUME OrdinaryMaps, Walking, SkipPage PROVE Walking'
  OBVIOUS
<1>1. /\ ~done /\ ~PastEntry /\ Here.type # Usable /\ addr' = Lo(addr + Page)
      /\ UNCHANGED <<smap, smapIndex, currBase, currSize, remainingSize, bitmaps, done>>
  BY DEF SkipPage, Here
<1>2. addr \in Nat /\ addr + 2 < Word /\ addr \in FirstAddr..(Word - 1) /\ addr % 2 = 0
  BY <1>1, AtHead, Sizes DEF Walking
<1>3. addr' = addr + 2
  <2>1. addr + 2 \in Nat
    BY <1>2
  <2> QED BY <1>1, <1>2, <2>1, LoIs, Sizes
<1>4. addr' \in FirstAddr..(Word - 1) /\ addr' % Page = 0
  BY <1>2, <1>3, Sizes
<1>5. \A i \in 1..(smapIndex - 1) : End(smap[i]) <= addr'
  <2> TAKE i \in 1..(smapIndex - 1)
  <2>1. i \in 1..Len(smap) /\ End(smap[i]) <= addr /\ smap \in MemoryMaps
    BY <1>1, InOrder DEF Walking, Placed
  <2>2. End(smap[i]) \in Nat
    BY <2>1, Region
  <2> QED BY <1>2, <1>3, <2>1, <2>2
<1>6. addr' < Here.base => addr < Here.base
  BY <1>1, <1>2, <1>3, AtHead
<1>7. Placed'
  BY <1>1, <1>5, <1>6 DEF Walking, Placed, Here, End
<1> QED BY <1>1, <1>4, <1>7 DEF Walking

\* A block that fits lies in the region, and no larger one does.
LEMMA FitsIs ==
  ASSUME NEW n \in Nat, addr = 2 * n, NEW l \in Levels
  PROVE  Fits(l) <=> remainingSize >= 2 * Size(l) /\ n % Size(l) = 0
<1>1. Page = 2
  BY DEF Page
<1>2. CASE l = 0
  <2>1. Size(l) = 1 /\ n % 1 = 0 /\ ~(l > 0)
    BY <1>2 DEF Size
  <2> QED BY <1>1, <2>1 DEF Fits
<1>3. CASE l > 0
  <2>1. (2 * n) % (Size(l) * 2) = 0 <=> n % Size(l) = 0
    BY <1>3 DEF Levels, Size
  <2>2. Size(l) * 2 = 2 * Size(l)
    BY DEF Levels, Size
  <2> QED BY <1>1, <1>3, <2>1, <2>2 DEF Fits
<1> QED BY <1>2, <1>3 DEF Levels

LEMMA Room ==
  ASSUME NEW a \in Nat, NEW e \in Nat, NEW z \in Nat, 2 * z <= e - a, e < Word - 2
  PROVE  a + 2 * z \in Nat /\ a + 2 * z <= e /\ a + 2 * z < Word
<1>1. Word \in Nat
  BY Sizes
<1> QED BY <1>1

LEMMA BlockFreed ==
  ASSUME OrdinaryMaps, Walking, NEW l \in Levels, FreeBlock(l), NEW n, n = addr \div 2
  PROVE  /\ n \in Nat /\ addr = 2 * n /\ n % Size(l) = 0
         /\ Here.type = Usable /\ Here.base <= addr /\ ~done /\ addr <= End(Here)
         /\ addr' = 2 * (n + Size(l)) /\ addr' <= End(Here) /\ End(Here) < Word - 2
         /\ remainingSize = End(Here) - addr /\ remainingSize' = remainingSize - 2 * Size(l)
         /\ bitmaps' = [bitmaps EXCEPT ![l] = @ \union {BitOf(l, n)}]
         /\ \A k \in Levels : k > l /\ n % Size(k) = 0 => End(Here) - addr < 2 * Size(k)
         /\ UNCHANGED <<smap, smapIndex, currBase, currSize, done>>
<1>1. /\ ~done /\ ~PastEntry /\ Here.type = Usable /\ Fits(l) /\ \A k \in (l + 1)..4 : ~Fits(k)
      /\ bitmaps' = [bitmaps EXCEPT ![l] = @ \union {BitOf(l, addr \div Page)}]
      /\ addr' = Lo(addr + Size(l) * Page) /\ remainingSize' = remainingSize - Size(l) * Page
      /\ UNCHANGED <<smap, smapIndex, currBase, currSize, done>>
  BY DEF FreeBlock, InUsable, Here
<1>2. /\ addr \in Nat /\ addr % 2 = 0 /\ addr <= End(Here) /\ End(Here) < Word - 2
      /\ End(Here) \in Nat /\ Here.base \in Nat /\ smapIndex \in 1..Len(smap) /\ smap \in MemoryMaps
  BY <1>1, AtHead, Sizes DEF Walking
<1>3. n \in Nat /\ addr = 2 * n
  BY <1>2
<1>4. remainingSize = End(Here) - addr
  BY <1>1, <1>2 DEF Walking, Placed
<1>5. Here.base <= addr
  <2>1. smapIndex \in smapIndex..Len(smap)
    BY <1>2, InOrder
  <2> QED BY <1>1, <1>2, <2>1 DEF Walking, Placed, Here
<1>6. Size(l) \in Nat /\ Size(l) * 2 = 2 * Size(l)
  BY DEF Levels, Size
<1>7. remainingSize >= 2 * Size(l) /\ n % Size(l) = 0
  BY <1>1, <1>3, FitsIs
<1>8. addr' = 2 * (n + Size(l)) /\ addr' <= End(Here)
  <2>1. addr + 2 * Size(l) \in Nat /\ addr + 2 * Size(l) <= End(Here) /\ addr + 2 * Size(l) < Word
    <3>1. 2 * Size(l) <= End(Here) - addr
      BY <1>4, <1>6, <1>7
    <3> QED BY <1>2, <1>6, <3>1, Room
  <2>2. addr' = addr + 2 * Size(l)
    BY <1>1, <1>6, <2>1, LoIs, Sizes
  <2> QED BY <1>3, <1>6, <2>1, <2>2
<1>9. \A k \in Levels : k > l /\ n % Size(k) = 0 => End(Here) - addr < 2 * Size(k)
  <2> SUFFICES ASSUME NEW k \in Levels, k > l, n % Size(k) = 0
               PROVE  End(Here) - addr < 2 * Size(k)
    OBVIOUS
  <2>1. k \in (l + 1)..4
    BY DEF Levels
  <2>2. ~(remainingSize >= 2 * Size(k))
    BY <1>1, <1>3, <2>1, FitsIs
  <2>3. Size(k) \in Nat
    BY DEF Levels, Size
  <2> QED BY <1>2, <1>4, <2>2, <2>3
<1> QED BY <1>1, <1>2, <1>3, <1>4, <1>5, <1>6, <1>7, <1>8, <1>9, Sizes

LEMMA FreeWalking == ASSUME OrdinaryMaps, Walking, NEW l \in Levels, FreeBlock(l) PROVE Walking'
<1>1. PICK n : n = addr \div 2
  OBVIOUS
<1>2. /\ n \in Nat /\ addr = 2 * n /\ Here.base <= addr /\ ~done /\ addr <= End(Here)
      /\ addr' = 2 * (n + Size(l)) /\ addr' <= End(Here) /\ End(Here) < Word - 2
      /\ remainingSize = End(Here) - addr /\ remainingSize' = remainingSize - 2 * Size(l)
      /\ UNCHANGED <<smap, smapIndex, currBase, currSize, done>>
  BY <1>1, BlockFreed
<1>3. /\ addr \in FirstAddr..(Word - 1) /\ smap \in MemoryMaps /\ Placed
      /\ End(Here) \in Nat /\ Here.base \in Nat /\ Size(l) \in Nat
  BY <1>2, AtHead DEF Walking, Levels, Size
<1>4. addr' \in FirstAddr..(Word - 1) /\ addr' % Page = 0 /\ addr' >= addr
  BY <1>2, <1>3, Sizes
<1>5. \A i \in 1..(smapIndex - 1) : End(smap[i]) <= addr'
  <2> TAKE i \in 1..(smapIndex - 1)
  <2>1. i \in 1..Len(smap) /\ End(smap[i]) <= addr
    BY <1>3, InOrder DEF Placed
  <2>2. End(smap[i]) \in Nat
    BY <1>3, <2>1, Region
  <2> QED BY <1>3, <1>4, <2>1, <2>2, Sizes
<1>6. ~(addr' < Here.base) /\ remainingSize' = End(Here) - addr'
  BY <1>2, <1>3, <1>4
<1>7. Placed'
  BY <1>2, <1>3, <1>5, <1>6 DEF Placed, Here, End
<1> QED BY <1>2, <1>3, <1>4, <1>7 DEF Walking

\* Less than a page of the region is left.
LEMMA NextFacts ==
  ASSUME OrdinaryMaps, Walking, NextEntry
  PROVE  /\ ~done /\ Here.type = Usable /\ Here.base <= addr /\ addr <= End(Here)
         /\ End(Here) < addr + 2 /\ addr' = addr + 2 /\ addr' < Word - 1 /\ addr \in Nat
         /\ smapIndex' = smapIndex + 1 /\ smapIndex \in 1..Len(smap)
         /\ UNCHANGED <<smap, bitmaps>> /\ End(Here) \in Nat
         /\ smapIndex = Len(smap) => done'
         /\ smapIndex # Len(smap) => done' = done
<1>1. /\ ~done /\ ~PastEntry /\ Here.type = Usable /\ ~Fits(0) /\ addr' = Lo(addr + Page)
      /\ smapIndex' = smapIndex + 1 /\ UNCHANGED <<smap, bitmaps>>
  BY DEF NextEntry, InUsable, Here, Levels
<1>2. /\ addr \in Nat /\ addr % 2 = 0 /\ addr <= End(Here) /\ End(Here) < Word - 2
      /\ End(Here) \in Nat /\ Here.base \in Nat /\ smapIndex \in 1..Len(smap) /\ smap \in MemoryMaps
  BY <1>1, AtHead, Sizes DEF Walking
<1>3. remainingSize = End(Here) - addr
  BY <1>1, <1>2 DEF Walking, Placed
<1>4. Here.base <= addr
  <2>1. smapIndex \in smapIndex..Len(smap)
    BY <1>2, InOrder
  <2> QED BY <1>1, <1>2, <2>1 DEF Walking, Placed, Here
<1>5. End(Here) < addr + 2
  <2>1. ~(remainingSize >= 2)
    BY <1>1 DEF Fits, Size, Page
  <2> QED BY <1>2, <1>3, <2>1
<1>6. addr' = addr + 2 /\ addr' < Word - 1
  <2>1. addr + 2 \in Nat /\ addr + 2 < Word
    BY <1>2, Sizes
  <2>2. addr' = addr + 2
    BY <1>1, <2>1, LoIs, Sizes
  <2> QED BY <1>2, <2>2, Sizes
<1>7. Len(smap) \in Nat
  BY <1>2, InOrder
<1>8. smapIndex + 1 <= Len(smap) <=> smapIndex # Len(smap)
  BY <1>2, <1>7
<1> QED BY <1>1, <1>2, <1>4, <1>5, <1>6, <1>8 DEF NextEntry, Located

LEMMA NextWalking == OrdinaryMaps /\ Walking /\ NextEntry => Walking'
<1> SUFFICES ASSUME OrdinaryMaps, Walking, NextEntry PROVE Walking'
  OBVIOUS
<1>1. /\ Here.base <= addr /\ addr <= End(Here) /\ End(Here) < addr + 2 /\ addr' = addr + 2
      /\ addr' < Word - 1 /\ smapIndex' = smapIndex + 1 /\ smap' = smap /\ smapIndex \in 1..Len(smap)
      /\ End(Here) \in Nat /\ addr \in Nat
  BY NextFacts
<1>2. /\ addr \in FirstAddr..(Word - 1) /\ addr % 2 = 0 /\ smap \in MemoryMaps
  BY Sizes DEF Walking
<1>3. addr' \in FirstAddr..(Word - 1) /\ addr' % Page = 0 /\ addr' \in Nat /\ done' \in BOOLEAN
  <2>1. done' \in BOOLEAN
    BY NextFacts DEF Walking
  <2> QED BY <1>1, <1>2, <2>1, Sizes
<1>4. ASSUME ~done'
      PROVE  Placed'
  <2>1. PICK k : k = smapIndex + 1
    OBVIOUS
  <2>2. k \in 1..Len(smap) /\ Len(smap) \in Nat /\ smapIndex \in 1..(Len(smap) - 1) /\ k <= Len(smap)
    <3>1. smapIndex # Len(smap)
      BY <1>4, NextFacts
    <3>2. Len(smap) \in Nat
      BY <1>2, InOrder
    <3> QED BY <1>1, <2>1, <3>1, <3>2
  <2>3. /\ smapIndex' = k /\ Here' = smap[k] /\ currBase' = Lo(smap[k].base)
        /\ currSize' = Lo(smap[k].length) /\ remainingSize' = Lo(currBase' + currSize' - addr')
    BY <1>1, <2>1, <2>2 DEF NextEntry, Located, Here
  <2>4. \A i \in 1..(k - 1) : End(smap[i]) <= addr'
    <3> TAKE i \in 1..(k - 1)
    <3>1. i = smapIndex \/ i \in 1..(smapIndex - 1)
      BY <1>1, <2>1
    <3>2. CASE i = smapIndex
      BY <1>1, <3>2 DEF Here
    <3>3. CASE i \in 1..(smapIndex - 1)
      <4>1. End(smap[i]) <= addr /\ i \in 1..Len(smap)
        BY <1>1, <2>2, <3>3, NextFacts DEF Walking, Placed
      <4>2. End(smap[i]) \in Nat
        BY <1>2, <4>1, Region
      <4> QED BY <1>1, <4>1, <4>2
    <3> QED BY <3>1, <3>2, <3>3
  <2>5. addr' < smap[k].base => \A j \in k..Len(smap) : smap[j].type # Usable
    <3>1. \/ smap[k].base = End(Here) \/ smap[k].base <= MemoryStart
          \/ \A j \in k..Len(smap) : smap[j].type # Usable
      BY <1>2, <2>1, <2>2, InOrder DEF NoHole, Here
    <3>2. smap[k].base \in Nat
      BY <1>2, <2>2, Region
    <3>3. smap[k].base = End(Here) => ~(addr' < smap[k].base)
      BY <1>1
    <3>4. smap[k].base <= MemoryStart => ~(addr' < smap[k].base)
      BY <1>3, <3>2, Sizes
    <3> QED BY <3>1, <3>3, <3>4
  <2>6. smap[k].type = Usable /\ addr' <= End(smap[k]) => remainingSize' = End(smap[k]) - addr'
    <3>1. PICK a : a = addr'
      OBVIOUS
    <3>2. a \in Nat
      BY <1>3, <3>1
    <3>3. smap[k].type = Usable /\ a <= End(smap[k])
            => Lo(Lo(smap[k].base) + Lo(smap[k].length) - a) = End(smap[k]) - a
      BY <1>2, <2>2, <3>2, Remaining
    <3>4. remainingSize' = Lo(Lo(smap[k].base) + Lo(smap[k].length) - a)
      BY <2>3, <3>1
    <3> QED BY <3>1, <3>3, <3>4
  <2> QED BY <1>1, <2>2, <2>3, <2>4, <2>5, <2>6 DEF Placed, End
<1> QED BY <1>1, <1>2, <1>3, <1>4 DEF Walking

-----------------------------------------------------------------------------
(***************************************************************************)
(* What is marked free.                                                    *)
(***************************************************************************)
\* The frames of the block of level l at frame a are the ones with its bit.
LEMMA BlockIsBit ==
  ASSUME NEW l \in Levels, NEW a \in Nat, a % Size(l) = 0, NEW f \in Nat
  PROVE  BitOf(l, f) = BitOf(l, a) <=> a <= f /\ f < a + Size(l)
BY DEF Levels, Size, BitOf

\* The bit of a frame is a bit of its bitmap, and 0 only for the first block.
LEMMA BitInRange ==
  ASSUME NEW l \in Levels, NEW f \in Frames
  PROVE  /\ BitOf(l, f) \in Bits(l)
         /\ f % Size(l) = 0 /\ BitOf(l, f) = 0 => f = 0
BY FrameCountAssumption DEF Levels, Size, BitOf, Bits, Frames

\* The pages of a block lie where the block does.
LEMMA PageOfBlock ==
  ASSUME NEW n \in Nat, NEW z \in Nat, NEW e \in Nat, 2 * (n + z) <= e, e < Word - 2,
         NEW b \in Nat, b <= 2 * n, NEW f \in n..(n + z - 1)
  PROVE  /\ f \in Nat /\ n <= f /\ f < n + z /\ f \in Frames
         /\ b <= f * 2 /\ (f + 1) * 2 <= e
<1>1. f \in Nat /\ n <= f /\ f < n + z
  OBVIOUS
<1>2. (f + 1) * 2 <= e /\ b <= f * 2
  BY <1>1
<1>3. f \in Frames
  BY <1>1, <1>2, Sizes DEF Frames
<1> QED BY <1>1, <1>2, <1>3

\* Every page of a block that the walk marks free is usable, and none of them
\* was free; nothing else changes.
LEMMA BlockMarked ==
  ASSUME OrdinaryMaps, Walking, Marked, NEW l \in Levels, FreeBlock(l), NEW n, n = addr \div 2
  PROVE  /\ n \in Frames /\ n > 0 /\ n % Size(l) = 0 /\ addr = 2 * n
         /\ addr' = 2 * (n + Size(l)) /\ Size(l) \in Nat
         /\ bitmaps' \in [Levels -> SUBSET Nat]
         /\ \A k \in Levels : bitmaps'[k] = IF k = l THEN bitmaps[k] \union {BitOf(l, n)}
                                                      ELSE bitmaps[k]
         /\ \A f \in n..(n + Size(l) - 1) :
              f \in UsableFrames /\ \A k \in Levels : BitOf(k, f) \notin bitmaps[k]
         /\ FreeFramesOf(bitmaps') = FreeFramesOf(bitmaps) \union (n..(n + Size(l) - 1))
<1>1. /\ n \in Nat /\ addr = 2 * n /\ n % Size(l) = 0
      /\ Here.type = Usable /\ Here.base <= addr
      /\ addr' = 2 * (n + Size(l)) /\ addr' <= End(Here) /\ End(Here) < Word - 2 /\ ~done
      /\ bitmaps' = [bitmaps EXCEPT ![l] = @ \union {BitOf(l, n)}]
  BY BlockFreed
<1>2. Size(l) \in Nat /\ Size(l) > 0
  BY DEF Levels, Size
<1>3. /\ smapIndex \in 1..Len(smap) /\ Here.base \in Nat /\ End(Here) \in Nat
      /\ addr >= FirstAddr
  BY <1>1, AtHead, Sizes DEF Walking
<1>4. n \in Frames /\ n > 0
  BY <1>1, <1>2, <1>3, Sizes DEF Frames
<1>5. BitOf(l, n) \in Nat
  BY <1>1 DEF BitOf, Levels, Size
<1>6. bitmaps \in [Levels -> SUBSET Nat]
  BY DEF Marked, IsBitmaps
<1>7. /\ bitmaps' \in [Levels -> SUBSET Nat]
      /\ \A k \in Levels : bitmaps'[k] = IF k = l THEN bitmaps[k] \union {BitOf(l, n)}
                                                   ELSE bitmaps[k]
  BY <1>1, <1>5, <1>6
<1>8. ASSUME NEW f \in n..(n + Size(l) - 1)
      PROVE  f \in Frames /\ f \in UsableFrames /\ \A k \in Levels : BitOf(k, f) \notin bitmaps[k]
  <2>0. 2 * (n + Size(l)) <= End(Here) /\ Here.base <= 2 * n
    BY <1>1
  <2>1. /\ f \in Nat /\ n <= f /\ f < n + Size(l) /\ f \in Frames
        /\ Here.base <= f * 2 /\ (f + 1) * 2 <= End(Here)
    BY <1>1, <1>2, <1>3, <2>0, PageOfBlock
  <2>2. PageIn(f, Here) /\ f * Page >= MemoryStart
    <3>1. f * 2 >= MemoryStart
      BY <1>1, <1>3, <2>1, Sizes
    <3> QED BY <2>1, <3>1 DEF PageIn, Page, End
  <2>3. f \in UsableFrames
    BY <1>1, <1>3, <2>1, <2>2 DEF UsableFrames, Here
  <2>4. ~(f * Page < addr)
    BY <1>1, <2>1 DEF Page
  <2>5. f \notin FreeFramesOf(bitmaps)
    BY <2>4 DEF Marked
  <2> QED BY <2>1, <2>3, <2>5 DEF FreeFramesOf
<1>9. FreeFramesOf(bitmaps') = FreeFramesOf(bitmaps) \union (n..(n + Size(l) - 1))
  <2>1. ASSUME NEW f \in Frames
        PROVE  (\E k \in Levels : BitOf(k, f) \in bitmaps'[k])
                 <=> (\E k \in Levels : BitOf(k, f) \in bitmaps[k]) \/ f \in n..(n + Size(l) - 1)
    <3>1. f \in Nat
      BY Sizes DEF Frames
    <3>2. BitOf(l, f) = BitOf(l, n) <=> f \in n..(n + Size(l) - 1)
      BY <1>1, <1>2, <3>1, BlockIsBit
    <3> QED BY <1>7, <3>2
  <2>2. n..(n + Size(l) - 1) \subseteq Frames
    BY <1>8
  <2> QED BY <2>1, <2>2 DEF FreeFramesOf
<1> QED BY <1>1, <1>2, <1>4, <1>7, <1>8, <1>9

LEMMA FreeMarked ==
  ASSUME OrdinaryMaps, Walking, Marked, NEW l \in Levels, FreeBlock(l) PROVE Marked'
<1>1. PICK n : n = addr \div 2
  OBVIOUS
<1>2. /\ n \in Frames /\ n > 0 /\ n % Size(l) = 0 /\ addr = 2 * n
      /\ addr' = 2 * (n + Size(l)) /\ Size(l) \in Nat /\ n \in Nat
      /\ bitmaps' \in [Levels -> SUBSET Nat]
  BY <1>1, BlockMarked, Sizes DEF Frames
<1>3. \A k \in Levels : bitmaps'[k] = IF k = l THEN bitmaps[k] \union {BitOf(l, n)}
                                               ELSE bitmaps[k]
  BY <1>1, BlockMarked
<1>4. \A f \in n..(n + Size(l) - 1) :
        f \in UsableFrames /\ \A k \in Levels : BitOf(k, f) \notin bitmaps[k]
  BY <1>1, BlockMarked
<1>5. FreeFramesOf(bitmaps') = FreeFramesOf(bitmaps) \union (n..(n + Size(l) - 1))
  BY <1>1, BlockMarked
<1>6. BitOf(l, n) \in Bits(l) /\ BitOf(l, n) # 0
  BY <1>2, BitInRange
<1>7. IsBitmaps(bitmaps')
  BY <1>2, <1>3, <1>6 DEF Marked, IsBitmaps
<1>8. FrameZeroUsed(bitmaps')
  BY <1>3, <1>6 DEF Marked, FrameZeroUsed
<1>9. FreeOnce(bitmaps')
  <2> SUFFICES ASSUME NEW f \in Frames, NEW j \in Levels, BitOf(j, f) \in bitmaps'[j],
                      NEW k \in Levels, BitOf(k, f) \in bitmaps'[k]
               PROVE  k = j
    BY DEF FreeOnce
  <2>1. f \in Nat
    BY Sizes DEF Frames
  <2>2. BitOf(l, f) = BitOf(l, n) <=> f \in n..(n + Size(l) - 1)
    BY <1>2, <2>1, BlockIsBit
  <2>3. CASE f \in n..(n + Size(l) - 1)
    BY <1>3, <1>4, <2>3
  <2>4. CASE f \notin n..(n + Size(l) - 1)
    <3>1. ASSUME NEW m \in Levels, BitOf(m, f) \in bitmaps'[m]
          PROVE  BitOf(m, f) \in bitmaps[m]
      <4>1. bitmaps'[m] = IF m = l THEN bitmaps[l] \union {BitOf(l, n)} ELSE bitmaps[m]
        BY <1>3
      <4>2. CASE m = l
        BY <2>2, <2>4, <3>1, <4>1, <4>2
      <4>3. CASE m # l
        BY <3>1, <4>1, <4>3
      <4> QED BY <4>2, <4>3
    <3> QED BY <3>1 DEF Marked, FreeOnce
  <2> QED BY <2>3, <2>4
<1>10. UsableFrames' = UsableFrames
  BY DEF FreeBlock, UsableFrames
<1>11. FreeFramesOf(bitmaps') \subseteq UsableFrames'
  BY <1>4, <1>5, <1>10 DEF Marked
<1>12. \A f \in FreeFramesOf(bitmaps') : f * Page < addr'
  <2> TAKE f \in FreeFramesOf(bitmaps')
  <2>1. CASE f \in n..(n + Size(l) - 1)
    BY <1>2, <2>1 DEF Page
  <2>2. CASE f \in FreeFramesOf(bitmaps)
    <3>1. f \in Nat /\ f * Page < addr
      BY <2>2, Sizes DEF Marked, FreeFramesOf, Frames
    <3> QED BY <1>2, <3>1 DEF Page
  <2> QED BY <1>5, <2>1, <2>2
<1> QED BY <1>7, <1>8, <1>9, <1>11, <1>12 DEF Marked

\* The other steps mark nothing.
LEMMA SameMarked ==
  ASSUME Marked, UNCHANGED <<smap, bitmaps>>, addr \in Nat, addr' \in Nat, addr <= addr'
  PROVE  Marked'
<1>1. UsableFrames' = UsableFrames
  BY DEF UsableFrames
<1>2. \A f \in FreeFramesOf(bitmaps) : f * Page < addr'
  <2> TAKE f \in FreeFramesOf(bitmaps)
  <2>1. f \in Nat /\ f * Page < addr
    BY Sizes DEF Marked, FreeFramesOf, Frames
  <2> QED BY <2>1 DEF Page
<1> QED BY <1>1, <1>2 DEF Marked

LEMMA InitMarked == Init => Marked
<1> SUFFICES ASSUME Init PROVE Marked
  OBVIOUS
<1>1. bitmaps = [l \in Levels |-> {}]
  BY DEF Init
<1>2. FreeFramesOf(bitmaps) = {}
  BY <1>1 DEF FreeFramesOf
<1> QED BY <1>1, <1>2 DEF Marked, IsBitmaps, FreeOnce, FrameZeroUsed

-----------------------------------------------------------------------------
(***************************************************************************)
(* What is not left out.                                                   *)
(***************************************************************************)
\* A usable page at the address that is not in the region the walk is in is
\* the first page of a region.
LEMMA PageAhead ==
  ASSUME OrdinaryMaps, Walking, ~done, NEW f \in UsableFrames, addr <= f * Page, f * Page < addr + Page,
         addr <= End(Here), Here.type # Usable \/ End(Here) < addr + Page
  PROVE  smapIndex < Len(smap) /\ FirstPage(f)
<1>1. f \in Nat /\ addr = f * 2 /\ addr \in Nat
  BY Sizes DEF UsableFrames, Frames, Walking
<1>2. PICK i \in 1..Len(smap) : smap[i].type = Usable /\ PageIn(f, smap[i])
  BY DEF UsableFrames
<1>3. /\ smap \in MemoryMaps /\ smapIndex \in 1..Len(smap) /\ Len(smap) \in Nat
      /\ \A j \in 1..(smapIndex - 1) : End(smap[j]) <= addr
      /\ addr < Here.base => \A j \in smapIndex..Len(smap) : smap[j].type # Usable
  BY InOrder DEF Walking, Placed
<1>4. /\ smap[i].base \in Nat /\ End(smap[i]) \in Nat /\ End(Here) \in Nat /\ Here.base \in Nat
      /\ smap[i].base <= addr /\ addr + 2 <= End(smap[i])
  <2>1. smap[i].base \in Nat /\ End(smap[i]) \in Nat /\ End(Here) \in Nat /\ Here.base \in Nat
    BY <1>3, Region DEF Here
  <2>2. smap[i].base <= f * 2 /\ (f + 1) * 2 <= End(smap[i])
    BY <1>2 DEF PageIn, Page, End
  <2> QED BY <1>1, <2>1, <2>2
<1>5. ~(i < smapIndex)
  <2> SUFFICES ASSUME i < smapIndex PROVE FALSE
    OBVIOUS
  <2>1. i \in 1..(smapIndex - 1)
    BY <1>3
  <2>2. End(smap[i]) <= addr
    BY <1>3, <2>1
  <2> QED BY <1>1, <1>4, <2>2
<1>6. i # smapIndex
  BY <1>1, <1>2, <1>4 DEF Here, Page
<1>7. smapIndex < i /\ smapIndex < Len(smap)
  BY <1>3, <1>5, <1>6
<1>8. smap[i].base = addr
  <2>1. End(Here) <= smap[i].base
    BY <1>3, <1>7, InOrder DEF Here
  <2> QED BY <1>1, <1>4, <2>1
<1>9. ~PageIn(f - 1, smap[i])
  BY <1>1, <1>8 DEF PageIn, Page
<1> QED BY <1>2, <1>7, <1>9 DEF FirstPage

\* When nothing is marked, the walk may go on if it leaves no page out.
LEMMA SameComplete ==
  ASSUME Complete, UNCHANGED <<smap, bitmaps>>, done' => \A f \in UsableFrames : f * Page < addr',
         \A f \in UsableFrames : f * Page < addr' => f * Page < addr \/ FirstPage(f)
  PROVE  Complete'
<1>1. UsableFrames' = UsableFrames /\ \A f : FirstPage(f)' = FirstPage(f)
  BY DEF UsableFrames, FirstPage
<1> QED BY <1>1 DEF Complete, FirstPage

LEMMA FreeComplete ==
  ASSUME OrdinaryMaps, Walking, Marked, Complete, NEW l \in Levels, FreeBlock(l) PROVE Complete'
<1>1. PICK n : n = addr \div 2
  OBVIOUS
<1>2. /\ addr = 2 * n /\ addr' = 2 * (n + Size(l)) /\ Size(l) \in Nat /\ n \in Nat
      /\ FreeFramesOf(bitmaps') = FreeFramesOf(bitmaps) \union (n..(n + Size(l) - 1))
  BY <1>1, BlockMarked, Sizes DEF Frames
<1>3. /\ UsableFrames' = UsableFrames /\ \A f : FirstPage(f)' = FirstPage(f) /\ ~done'
  BY DEF UsableFrames, FirstPage, FreeBlock, InUsable
<1>4. ASSUME NEW f \in UsableFrames, f * Page < addr'
      PROVE  f \in FreeFramesOf(bitmaps') \/ FirstPage(f)
  <2>1. f \in Nat
    BY Sizes DEF UsableFrames, Frames
  <2>2. CASE f * Page < addr
    BY <1>2, <2>2 DEF Complete
  <2>3. CASE ~(f * Page < addr)
    <3>1. f \in n..(n + Size(l) - 1)
      BY <1>2, <1>4, <2>1, <2>3 DEF Page
    <3> QED BY <1>2, <3>1
  <2> QED BY <2>2, <2>3
<1> QED BY <1>3, <1>4 DEF Complete, FirstPage

LEMMA SkipComplete == OrdinaryMaps /\ Walking /\ Complete /\ SkipPage => Complete'
<1> SUFFICES ASSUME OrdinaryMaps, Walking, Complete, SkipPage PROVE Complete'
  OBVIOUS
<1>1. ~done /\ ~done' /\ ~PastEntry /\ Here.type # Usable /\ addr' = Lo(addr + Page)
      /\ UNCHANGED <<smap, bitmaps>>
  BY DEF SkipPage, Here
<1>2. addr \in Nat /\ addr <= End(Here) /\ End(Here) \in Nat /\ End(Here) < Word - 2
  BY <1>1, AtHead
<1>3. addr' = addr + Page
  <2>1. addr + 2 \in Nat /\ addr + 2 < Word
    BY <1>2, Sizes
  <2> QED BY <1>1, <2>1, LoIs, Sizes
<1>4. \A f \in UsableFrames : f * Page < addr' => f * Page < addr \/ FirstPage(f)
  <2> SUFFICES ASSUME NEW f \in UsableFrames, f * Page < addr', ~(f * Page < addr)
               PROVE  FirstPage(f)
    OBVIOUS
  <2>1. addr <= f * Page
    BY <1>2, Sizes DEF UsableFrames, Frames, Page
  <2> QED BY <1>1, <1>2, <1>3, <2>1, PageAhead
<1> QED BY <1>1, <1>4, SameComplete

LEMMA NextComplete == OrdinaryMaps /\ Walking /\ Complete /\ NextEntry => Complete'
<1> SUFFICES ASSUME OrdinaryMaps, Walking, Complete, NextEntry PROVE Complete'
  OBVIOUS
<1>1. /\ ~done /\ Here.type = Usable /\ addr <= End(Here) /\ End(Here) < addr + 2
      /\ addr' = addr + 2 /\ addr \in Nat /\ smapIndex \in 1..Len(smap)
      /\ UNCHANGED <<smap, bitmaps>> /\ End(Here) \in Nat
      /\ smapIndex # Len(smap) => done' = done
  BY NextFacts
<1>2. \A f \in UsableFrames : f * Page < addr' => f * Page < addr \/ FirstPage(f)
  <2> SUFFICES ASSUME NEW f \in UsableFrames, f * Page < addr', ~(f * Page < addr)
               PROVE  FirstPage(f)
    OBVIOUS
  <2>1. addr <= f * Page
    BY <1>1, Sizes DEF UsableFrames, Frames, Page
  <2>2. f * Page < addr + Page /\ End(Here) < addr + Page
    BY <1>1 DEF Page
  <2> QED BY <1>1, <2>1, <2>2, PageAhead
<1>3. ASSUME done', NEW f \in UsableFrames
      PROVE  f * Page < addr'
  <2>1. smapIndex = Len(smap) /\ smap \in MemoryMaps
    BY <1>1, <1>3 DEF Walking
  <2>2. PICK i \in 1..Len(smap) : smap[i].type = Usable /\ PageIn(f, smap[i])
    BY DEF UsableFrames
  <2>3. End(smap[i]) \in Nat /\ End(smap[i]) < addr + 2
    <3>1. End(smap[i]) \in Nat
      BY <2>1, Region
    <3>2. CASE i = smapIndex
      BY <1>1, <3>1, <3>2 DEF Here
    <3>3. CASE i # smapIndex
      <4>1. i \in 1..(smapIndex - 1)
        BY <1>1, <2>1, <3>3
      <4>2. End(smap[i]) <= addr
        BY <1>1, <4>1 DEF Walking, Placed
      <4> QED BY <1>1, <3>1, <4>2
    <3> QED BY <3>2, <3>3
  <2>4. f \in Nat /\ (f + 1) * 2 <= End(smap[i])
    BY <2>2, Sizes DEF PageIn, Page, End, UsableFrames, Frames
  <2>5. f * 2 < addr + 2
    BY <1>1, <2>3, <2>4
  <2> QED BY <1>1, <2>5 DEF Page
<1> QED BY <1>1, <1>2, <1>3, SameComplete

\* When no entry is found there is no usable memory any more.
LEMMA NothingAhead ==
  ASSUME OrdinaryMaps, Walking, ~done, PastEntry, NEW S,
         S = { n \in DOMAIN smap : /\ Lo(smap[n].base) <= addr /\ addr < EndOf(smap[n]) },
         \A n \in S : n < smapIndex, NEW f \in UsableFrames
  PROVE  f * Page < addr
<1> SUFFICES ASSUME ~(f * Page < addr) PROVE FALSE
  OBVIOUS
<1>1. /\ addr \in Nat /\ FirstAddr <= addr /\ f \in Nat /\ addr <= f * 2
      /\ smap \in MemoryMaps /\ smapIndex \in 1..Len(smap) /\ Len(smap) \in Nat
      /\ DOMAIN smap = 1..Len(smap)
  BY Sizes, InOrder DEF UsableFrames, Frames, Walking, Placed, Page
<1>2. \A j \in 1..(smapIndex - 1) : End(smap[j]) <= addr
  BY DEF Walking, Placed
<1>3. PICK i \in 1..Len(smap) : smap[i].type = Usable /\ PageIn(f, smap[i])
  BY DEF UsableFrames
<1>4. smap[i].base \in Nat /\ End(smap[i]) \in Nat /\ addr < End(smap[i]) /\ End(smap[i]) # Word
      /\ smap[i].base < End(smap[i]) /\ End(smap[i]) < Word
  <2>1. /\ smap[i].base \in Nat /\ End(smap[i]) \in Nat /\ smap[i].base < End(smap[i])
        /\ End(smap[i]) < Word - 2
    BY <1>1, <1>3, Region
  <2>2. (f + 1) * 2 <= End(smap[i])
    BY <1>3 DEF PageIn, Page, End
  <2> QED BY <1>1, <2>1, <2>2, Sizes
<1>5. End(Here) \in Nat /\ (End(Here) < addr \/ (End(Here) = Word /\ Here.type # Usable))
  BY AtHead, Sizes
<1>6. smapIndex < i
  <2>1. ~(i < smapIndex)
    <3> SUFFICES ASSUME i < smapIndex PROVE FALSE
      OBVIOUS
    <3>1. i \in 1..(smapIndex - 1)
      BY <1>1
    <3> QED BY <1>1, <1>2, <1>4, <3>1
  <2>2. i # smapIndex
    BY <1>1, <1>3, <1>4, <1>5 DEF Here
  <2> QED BY <1>1, <2>1, <2>2
<1>7. PICK T : T = { j \in (smapIndex + 1)..Len(smap) : addr < End(smap[j]) }
  OBVIOUS
<1>8. PICK n \in T : \A j \in T : n <= j
  <2>1. T \in SUBSET Nat /\ i \in T
    BY <1>1, <1>4, <1>6, <1>7
  <2> QED BY <2>1, Least
<1>9. n \in (smapIndex + 1)..Len(smap) /\ addr < End(smap[n]) /\ n <= i /\ n \in 1..Len(smap)
  BY <1>1, <1>4, <1>6, <1>7, <1>8
<1>10. smap[n].base \in Nat /\ End(smap[n]) \in Nat /\ smap[n].base < End(smap[n])
       /\ Lo(smap[n].base) = smap[n].base
       /\ EndOf(smap[n]) = IF End(smap[n]) = Word THEN 0 ELSE End(smap[n])
  BY <1>1, <1>9, Region
<1>11. End(smap[n]) # Word
  <2> SUFFICES ASSUME End(smap[n]) = Word PROVE FALSE
    OBVIOUS
  <2>1. n # i
    BY <1>4
  <2>2. n < i
    BY <1>9, <2>1
  <2>3. End(smap[n]) <= smap[i].base
    BY <1>1, <1>9, <2>2, InOrder
  <2> QED BY <1>4, <2>3, Sizes
<1>12. addr < smap[n].base
  <2>1. n \notin S
    BY <1>1, <1>9
  <2>2. ~(smap[n].base <= addr /\ addr < End(smap[n]))
    BY <1>1, <1>9, <1>10, <1>11, <2>1
  <2> QED BY <1>1, <1>9, <1>10, <2>2
<1>13. PICK m : m = n - 1
  OBVIOUS
<1>14. m \in smapIndex..(Len(smap) - 1) /\ n = m + 1 /\ m \in 1..(Len(smap) - 1)
       /\ m \in 1..Len(smap)
  BY <1>1, <1>9, <1>13
<1>15. \/ smap[n].base = End(smap[m]) \/ smap[n].base <= MemoryStart
       \/ \A j \in n..Len(smap) : smap[j].type # Usable
  BY <1>1, <1>14, InOrder DEF NoHole
<1>16. smap[n].base # End(smap[m])
  <2>1. CASE m = smapIndex
    <3>0. smap[n].base < Word
      <4>1. End(smap[n]) < Word - 2
        BY <1>1, <1>9, <1>11, Region
      <4> QED BY <1>10, <4>1, Sizes
    <3>1. End(Here) = smap[n].base => FALSE
      BY <1>1, <1>5, <1>10, <1>12, <3>0, Sizes
    <3> QED BY <2>1, <3>1 DEF Here
  <2>2. CASE m # smapIndex
    <3>1. m \in (smapIndex + 1)..Len(smap) /\ m < n
      BY <1>1, <1>14, <2>2
    <3>2. m \notin T
      BY <1>8, <1>9, <1>14, <3>1
    <3>3. ~(addr < End(smap[m]))
      BY <1>7, <3>1, <3>2
    <3> QED BY <1>12, <3>3
  <2> QED BY <2>1, <2>2
<1>17. ~(smap[n].base <= MemoryStart)
  BY <1>1, <1>10, <1>12, Sizes
<1>18. i \in n..Len(smap)
  BY <1>1, <1>9
<1> QED BY <1>3, <1>15, <1>16, <1>17, <1>18

LEMMA RelocateComplete == OrdinaryMaps /\ Walking /\ Complete /\ Relocate => Complete'
<1> SUFFICES ASSUME OrdinaryMaps, Walking, Complete, Relocate PROVE Complete'
  OBVIOUS
<1>1. ~done /\ PastEntry /\ UNCHANGED <<smap, addr, bitmaps>>
  BY DEF Relocate
<1>2. PICK S : S = { n \in DOMAIN smap : /\ Lo(smap[n].base) <= addr /\ addr < EndOf(smap[n]) }
  OBVIOUS
<1>3. PICK k : k = SearchFrom(smapIndex, S)
  OBVIOUS
<1>4. done' => ~(k <= Len(smap))
  BY <1>1, <1>2, <1>3 DEF Relocate, Located
<1>5. S \subseteq 1..Len(smap) /\ Len(smap) \in Nat /\ smapIndex \in Nat
  BY <1>1, <1>2, InOrder DEF Walking, Placed
<1>6. ~(k <= Len(smap)) => \A n \in S : n < smapIndex
  <2>1. \/ k = Len(smap) + 1 /\ \A n \in S : n < smapIndex
        \/ k \in S
    BY <1>3, <1>5, Search
  <2>2. k \in S => k <= Len(smap)
    BY <1>5
  <2> QED BY <2>1, <2>2
<1>7. done' => \A f \in UsableFrames : f * Page < addr'
  BY <1>1, <1>2, <1>4, <1>6, NothingAhead
<1> QED BY <1>1, <1>7, SameComplete

LEMMA InitComplete == Init => Complete
<1> SUFFICES ASSUME Init PROVE Complete
  OBVIOUS
<1>1. addr = FirstAddr /\ done = FALSE
  BY DEF Init
<1>2. \A f \in UsableFrames : ~(f * Page < addr)
  <2> TAKE f \in UsableFrames
  <2>1. f \in Nat /\ f * 2 >= MemoryStart
    BY Sizes DEF UsableFrames, Frames, Page
  <2> QED BY <1>1, <2>1, Sizes
<1> QED BY <1>1, <1>2 DEF Complete

-----------------------------------------------------------------------------
(***************************************************************************)
(* The largest blocks.                                                     *)
(***************************************************************************)
\* Where a block starts and where it ends.
LEMMA BlockOf ==
  ASSUME NEW l \in Levels, NEW b \in Bits(l), NEW s, s = b * Size(l)
  PROVE  /\ s \in Nat /\ b \in Nat /\ Size(l) \in Nat /\ Size(l) > 0 /\ s % Size(l) = 0
         /\ (b + 1) * Size(l) * Page = 2 * (s + Size(l)) /\ b * Size(l) * Page = 2 * s
         /\ Span(l, b) = s..(s + Size(l) - 1)
         /\ s \in Frames /\ s \in Span(l, b)
<1>1. b \in Nat /\ b < FrameCount \div Size(l)
  BY FrameCountAssumption DEF Bits, Levels, Size
<1>2. s \in Nat /\ Size(l) \in Nat /\ Size(l) > 0 /\ s % Size(l) = 0
  BY <1>1 DEF Levels, Size
<1>3. (b + 1) * Size(l) * Page = 2 * (s + Size(l)) /\ b * Size(l) * Page = 2 * s
  BY <1>1 DEF Levels, Size, Page
<1>4. Span(l, b) = s..(s + Size(l) - 1)
  BY DEF Span
<1>5. s \in Frames
  BY <1>1, FrameCountAssumption DEF Levels, Size, Frames
<1>6. s \in Span(l, b)
  BY <1>2, <1>4
<1> QED BY <1>1, <1>2, <1>3, <1>4, <1>5, <1>6

\* Of two blocks that overlap the larger one starts where the smaller one
\* starts or before it.
LEMMA SameStart ==
  ASSUME NEW j \in Levels, NEW l \in Levels, l > j, NEW n \in Nat, NEW s \in Nat,
         n % Size(j) = 0, s % Size(l) = 0, n <= s, s < n + Size(j)
  PROVE  s = n
BY DEF Levels, Size

\* A page that is not free keeps every block of it from being free.
LEMMA HasUsed ==
  ASSUME NEW l \in Levels, NEW b \in Bits(l), NEW f \in Span(l, b), f * Page < addr,
         f \notin FreeFramesOf(bitmaps)
  PROVE  Entered(l, b)
BY DEF Entered

\* A step that marks nothing and leaves a usable region only when it has used
\* it up keeps the blocks as they are.
LEMMA SameGreedy ==
  ASSUME Marked, Greedy, bitmaps' = bitmaps, addr \in Nat, addr' \in Nat, addr <= addr',
         addr' = addr \/ addr' = addr + 2, addr % 2 = 0,
         addr' = addr => ~(~done /\ Here.type = Usable /\ addr <= End(Here)),
         End(Here) \in Nat
  PROVE  Greedy'
<1> SUFFICES ASSUME NEW l \in Levels, NEW b \in Bits(l), b * Size(l) * Page < addr' PROVE Entered(l, b)'
  BY DEF Greedy
<1>1. PICK s : s = b * Size(l)
  OBVIOUS
<1>2. /\ s \in Nat /\ Size(l) \in Nat /\ Size(l) > 0 /\ Span(l, b) = s..(s + Size(l) - 1)
      /\ (b + 1) * Size(l) * Page = 2 * (s + Size(l)) /\ b * Size(l) * Page = 2 * s /\ s \in Span(l, b)
  BY <1>1, BlockOf
<1>3. ASSUME NEW f \in Span(l, b), f * Page < addr', f \notin FreeFramesOf(bitmaps)
      PROVE  Entered(l, b)'
  BY <1>3 DEF Entered
<1>4. PICK n : n = addr \div 2
  OBVIOUS
<1>5. n \in Nat /\ addr = 2 * n /\ n * Page = 2 * n
  BY <1>4, Sizes
<1>6. n \notin FreeFramesOf(bitmaps)
  BY <1>5 DEF Marked
<1>7. n \in Span(l, b) /\ addr' = addr + 2 => Entered(l, b)'
  <2> SUFFICES ASSUME n \in Span(l, b), addr' = addr + 2 PROVE Entered(l, b)'
    OBVIOUS
  <2>1. n * Page < addr'
    BY <1>5
  <2> QED BY <1>3, <1>6, <2>1
<1>8. CASE s < n
  <2>1. Entered(l, b)
    BY <1>2, <1>5, <1>8 DEF Greedy
  <2>2. CASE \E k \in Levels : k >= l /\ BitOf(k, b * Size(l)) \in bitmaps[k]
    BY <2>2 DEF Entered
  <2>3. CASE \E f \in Span(l, b) : f * Page < addr /\ f \notin FreeFramesOf(bitmaps)
    <3>1. PICK f \in Span(l, b) : f * Page < addr /\ f \notin FreeFramesOf(bitmaps)
      BY <2>3
    <3>2. f * Page < addr'
      BY <1>2, <3>1, Sizes
    <3> QED BY <1>3, <3>1, <3>2
  <2>4. CASE ~done /\ Here.type = Usable /\ addr <= End(Here) /\ End(Here) < (b + 1) * Size(l) * Page
    <3>1. addr' = addr + 2
      BY <2>4
    <3>2. n \in Span(l, b)
      BY <1>2, <1>5, <1>8, <2>4
    <3> QED BY <1>7, <3>1, <3>2
  <2> QED BY <2>1, <2>2, <2>3, <2>4 DEF Entered
<1>9. CASE ~(s < n)
  <2>1. 2 * s < addr'
    BY <1>2
  <2>2. s = n /\ addr' = addr + 2
    BY <1>2, <1>5, <1>9, <2>1
  <2> QED BY <1>2, <1>7, <2>2
<1> QED BY <1>8, <1>9

LEMMA RelocateGreedy == OrdinaryMaps /\ IInv /\ Relocate => Greedy'
<1> SUFFICES ASSUME OrdinaryMaps, IInv, Relocate PROVE Greedy'
  OBVIOUS
<1>1. Walking /\ Marked /\ Greedy /\ ~done /\ PastEntry /\ UNCHANGED <<smap, addr, bitmaps>>
  BY DEF IInv, Relocate
<1>2. End(Here) \in Nat /\ addr \in Nat /\ (End(Here) < addr \/ Here.type # Usable) /\ addr % 2 = 0
  BY <1>1, AtHead, Sizes DEF Walking
<1> QED BY <1>1, <1>2, SameGreedy

LEMMA SkipGreedy == OrdinaryMaps /\ IInv /\ SkipPage => Greedy'
<1> SUFFICES ASSUME OrdinaryMaps, IInv, SkipPage PROVE Greedy'
  OBVIOUS
<1>1. Walking /\ Marked /\ Greedy /\ ~done /\ ~PastEntry /\ addr' = Lo(addr + Page)
      /\ UNCHANGED <<smap, bitmaps>>
  BY DEF IInv, SkipPage
<1>2. /\ addr \in Nat /\ addr <= End(Here) /\ End(Here) \in Nat /\ End(Here) < Word - 2
      /\ addr % 2 = 0
  BY <1>1, AtHead, Sizes DEF Walking
<1>3. addr' = addr + 2
  <2>1. addr + 2 \in Nat /\ addr + 2 < Word
    BY <1>2, Sizes
  <2> QED BY <1>1, <2>1, LoIs, Sizes
<1> QED BY <1>1, <1>2, <1>3, SameGreedy

LEMMA NextGreedy == OrdinaryMaps /\ IInv /\ NextEntry => Greedy'
<1> SUFFICES ASSUME OrdinaryMaps, IInv, NextEntry PROVE Greedy'
  OBVIOUS
<1>1. Walking /\ Marked /\ Greedy
  BY DEF IInv
<1>2. addr' = addr + 2 /\ addr \in Nat /\ bitmaps' = bitmaps /\ End(Here) \in Nat
  BY <1>1, NextFacts
<1>3. addr % 2 = 0
  BY <1>1, Sizes DEF Walking
<1> QED BY <1>1, <1>2, <1>3, SameGreedy

LEMMA FreeGreedy ==
  ASSUME OrdinaryMaps, IInv, NEW j \in Levels, FreeBlock(j) PROVE Greedy'
<1>1. PICK n : n = addr \div 2
  OBVIOUS
<1>2. Walking /\ Marked /\ Greedy
  BY DEF IInv
<1>3. /\ addr = 2 * n /\ addr' = 2 * (n + Size(j)) /\ Size(j) \in Nat /\ n \in Nat
      /\ n % Size(j) = 0
      /\ FreeFramesOf(bitmaps') = FreeFramesOf(bitmaps) \union (n..(n + Size(j) - 1))
  BY <1>1, <1>2, BlockMarked, Sizes DEF Frames
<1>4. \A k \in Levels : bitmaps'[k] = IF k = j THEN bitmaps[k] \union {BitOf(j, n)} ELSE bitmaps[k]
  BY <1>1, <1>2, BlockMarked
<1>5. /\ Here.type = Usable /\ addr <= End(Here) /\ addr' <= End(Here) /\ ~done'
      /\ \A k \in Levels : k > j /\ n % Size(k) = 0 => End(Here) - addr < 2 * Size(k)
      /\ smap' = smap /\ smapIndex' = smapIndex
  BY <1>1, <1>2, BlockFreed
<1>6. End(Here) \in Nat
  BY <1>2, <1>5, AtHead DEF FreeBlock, InUsable
<1> SUFFICES ASSUME NEW l \in Levels, NEW b \in Bits(l), b * Size(l) * Page < addr' PROVE Entered(l, b)'
  BY DEF Greedy
<1>7. PICK s : s = b * Size(l)
  OBVIOUS
<1>8. /\ s \in Nat /\ Size(l) \in Nat /\ s % Size(l) = 0 /\ Span(l, b) = s..(s + Size(l) - 1)
      /\ (b + 1) * Size(l) * Page = 2 * (s + Size(l)) /\ b * Size(l) * Page = 2 * s /\ s \in Span(l, b)
  BY <1>7, BlockOf
<1>9. End(Here) < (b + 1) * Size(l) * Page => Entered(l, b)'
  <2>1. Here' = Here /\ ~done'
    BY <1>5 DEF Here
  <2> QED BY <1>5, <2>1 DEF Entered, End
<1>10. CASE s < n
  <2>1. Entered(l, b)
    BY <1>2, <1>3, <1>8, <1>10 DEF Greedy
  <2>2. CASE \E k \in Levels : k >= l /\ BitOf(k, b * Size(l)) \in bitmaps[k]
    <3>1. \E k \in Levels : k >= l /\ BitOf(k, b * Size(l)) \in bitmaps'[k]
      BY <1>4, <2>2
    <3> QED BY <3>1 DEF Entered
  <2>3. CASE \E f \in Span(l, b) : f * Page < addr /\ f \notin FreeFramesOf(bitmaps)
    <3>1. PICK f \in Span(l, b) : f * Page < addr /\ f \notin FreeFramesOf(bitmaps)
      BY <2>3
    <3>2. f \in Nat /\ f * 2 < 2 * n
      BY <1>3, <1>8, <3>1, Sizes
    <3>3. f * Page < addr' /\ f \notin FreeFramesOf(bitmaps')
      <4>1. f \notin n..(n + Size(j) - 1)
        BY <1>3, <3>2
      <4>2. f * 2 < 2 * (n + Size(j))
        BY <1>3, <3>2
      <4> QED BY <1>3, <3>1, <4>1, <4>2, Sizes
    <3> QED BY <3>1, <3>3 DEF Entered
  <2>4. CASE ~done /\ Here.type = Usable /\ addr <= End(Here) /\ End(Here) < (b + 1) * Size(l) * Page
    BY <1>9, <2>4
  <2> QED BY <2>1, <2>2, <2>3, <2>4 DEF Entered
<1>11. CASE ~(s < n)
  <2>1. n <= s /\ s < n + Size(j)
    BY <1>3, <1>8, <1>11
  <2>2. CASE j >= l
    <3>1. BitOf(j, s) = BitOf(j, n)
      BY <1>3, <1>8, <2>1, BlockIsBit
    <3>2. BitOf(j, b * Size(l)) \in bitmaps'[j]
      BY <1>4, <1>7, <3>1
    <3> QED BY <2>2, <3>2 DEF Entered
  <2>3. CASE l > j
    <3>1. s = n
      BY <1>3, <1>8, <2>1, <2>3, SameStart
    <3>2. End(Here) - addr < 2 * Size(l)
      BY <1>5, <1>8, <2>3, <3>1
    <3>3. End(Here) < 2 * (s + Size(l))
      BY <1>3, <1>6, <1>8, <3>1, <3>2
    <3> QED BY <1>8, <1>9, <3>3
  <2> QED BY <2>2, <2>3 DEF Levels
<1> QED BY <1>10, <1>11

LEMMA InitGreedy == Init => Greedy
<1> SUFFICES ASSUME Init, NEW l \in Levels, NEW b \in Bits(l), b * Size(l) * Page < addr PROVE Entered(l, b)
  BY DEF Greedy
<1>1. FreeFramesOf(bitmaps) = {}
  BY DEF Init, FreeFramesOf
<1>2. PICK s : s = b * Size(l)
  OBVIOUS
<1>3. s \in Span(l, b) /\ b * Size(l) * Page = s * Page
  BY <1>2, BlockOf
<1> QED BY <1>1, <1>3, HasUsed

-----------------------------------------------------------------------------
(***************************************************************************)
(* The theorems.                                                           *)
(***************************************************************************)
LEMMA InductiveInvariant ==
  ASSUME OrdinaryMaps PROVE Spec => []IInv
<1>1. Init => IInv
  BY InitWalking, InitMarked, InitComplete, InitGreedy DEF IInv
<1>2. IInv /\ [Next]_vars => IInv'
  <2> SUFFICES ASSUME IInv, [Next]_vars PROVE IInv'
    OBVIOUS
  <2>1. Walking /\ Marked /\ Complete /\ Greedy /\ addr \in Nat
    BY Sizes DEF IInv, Walking
  <2>2. ASSUME Walking', UNCHANGED <<smap, bitmaps>>, addr' = addr \/ addr' = addr + 2
        PROVE  Marked'
    <3>1. addr' \in Nat /\ addr <= addr'
      BY <2>1, <2>2
    <3> QED BY <2>1, <2>2, <3>1, SameMarked
  <2>3. CASE Relocate
    <3>1. Walking'
      BY <2>1, <2>3, RelocateWalking
    <3>2. Marked'
      BY <2>2, <2>3, <3>1 DEF Relocate
    <3>3. Complete' /\ Greedy'
      BY <2>1, <2>3, RelocateComplete, RelocateGreedy
    <3> QED BY <3>1, <3>2, <3>3 DEF IInv
  <2>4. CASE SkipPage
    <3>1. Walking'
      BY <2>1, <2>4, SkipWalking
    <3>2. addr' = addr + 2 /\ UNCHANGED <<smap, bitmaps>>
      <4>1. ~done /\ ~PastEntry /\ addr' = Lo(addr + Page) /\ UNCHANGED <<smap, bitmaps>>
        BY <2>4 DEF SkipPage
      <4>2. addr + 2 \in Nat /\ addr + 2 < Word
        BY <2>1, <4>1, AtHead, Sizes
      <4> QED BY <4>1, <4>2, LoIs, Sizes
    <3>3. Marked'
      BY <2>2, <3>1, <3>2
    <3>4. Complete' /\ Greedy'
      BY <2>1, <2>4, SkipComplete, SkipGreedy
    <3> QED BY <3>1, <3>3, <3>4 DEF IInv
  <2>5. CASE \E l \in Levels : FreeBlock(l)
    BY <2>1, <2>5, FreeWalking, FreeMarked, FreeComplete, FreeGreedy DEF IInv
  <2>6. CASE NextEntry
    <3>1. Walking'
      BY <2>1, <2>6, NextWalking
    <3>2. Marked'
      BY <2>1, <2>2, <2>6, <3>1, NextFacts
    <3>3. Complete' /\ Greedy'
      BY <2>1, <2>6, NextComplete, NextGreedy
    <3> QED BY <3>1, <3>2, <3>3 DEF IInv
  <2>7. CASE UNCHANGED vars
    BY <2>7 DEF vars, IInv, Walking, Placed, Here, Marked, Complete, Greedy, Entered, UsableFrames,
                FirstPage
  <2> QED BY <2>3, <2>4, <2>5, <2>6, <2>7 DEF Next
<1> QED BY <1>1, <1>2, PTL DEF Spec

\* "Check if memory type is not available": whatever map the BIOS reports, as
\* long as it is of the kind PMM_Init is made for, every page marked free is
\* usable memory behind the kernel, and when the walk is over no page of it
\* has been left out but first pages of regions.
THEOREM MarksExactlyUsable ==
  ASSUME OrdinaryMaps PROVE Spec => []ExactlyUsable
<1>1. IInv => ExactlyUsable
  BY DEF IInv, Marked, Complete, ExactlyUsable, FirstPage
<1> QED BY <1>1, InductiveInvariant, PTL

\* The bitmaps the allocator starts from: no frame free twice, frame 0 never
\* free, and every free block on the highest level it fits.
THEOREM LeavesSoundBitmaps ==
  ASSUME OrdinaryMaps PROVE Spec => []SoundBitmaps
<1>1. IInv => SoundBitmaps
  <2> SUFFICES ASSUME IInv PROVE SoundBitmaps
    OBVIOUS
  <2>1. IsBitmaps(bitmaps) /\ FreeOnce(bitmaps) /\ FrameZeroUsed(bitmaps)
    BY DEF IInv, Marked
  <2>2. ASSUME done, NEW l \in Levels, NEW b \in Bits(l), Span(l, b) \subseteq FreeFramesOf(bitmaps)
        PROVE  \E k \in Levels : k >= l /\ BitOf(k, b * Size(l)) \in bitmaps[k]
    <3>1. PICK s : s = b * Size(l)
      OBVIOUS
    <3>2. s \in Span(l, b) /\ b * Size(l) * Page = s * Page
      BY <3>1, BlockOf
    <3>3. s * Page < addr
      BY <2>2, <3>2 DEF IInv, Marked
    <3>4. Entered(l, b)
      BY <3>2, <3>3 DEF IInv, Greedy
    <3> QED BY <2>2, <3>4 DEF Entered
  <2> QED BY <2>1, <2>2 DEF SoundBitmaps, Coalesced
<1> QED BY <1>1, InductiveInvariant, PTL
=============================================================================
