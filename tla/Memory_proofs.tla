--------------------------- MODULE Memory_proofs ---------------------------
(***************************************************************************)
(* For every number of frames and every boot map: when callers ask only    *)
(* for block sizes, PMM hands a frame to one caller at a time, loses none  *)
(* and keeps free buddies coalesced.                                       *)
(*                                                                         *)
(* On top of it, for every heap and every size of a page table: the page   *)
(* tables of VMM give every page and every table a frame of its own, lose  *)
(* none, and keep contiguous runs contiguous.                              *)
(***************************************************************************)
EXTENDS PMM, VMM, TLAPS, WellFoundedInduction

\* The sizes of the blocks, the requests PMM_GetFrames takes no part back of.
BlockSizes == {1, 2, 4, 8, 16}

-----------------------------------------------------------------------------
(***************************************************************************)
(* Arithmetic of bits and blocks.                                          *)
(***************************************************************************)

\* The frames of the block of level l at address a are the ones with its bit.
LEMMA BlockIsBit ==
  ASSUME NEW l \in Levels, NEW a \in Nat, a % Size(l) = 0, NEW f \in Nat
  PROVE  BitOf(l, f) = BitOf(l, a) <=> a <= f /\ f < a + Size(l)
BY DEF Levels, Size, BitOf

\* A bit stands for the block that starts at the bit times the block's size.
LEMMA BitAddress ==
  ASSUME NEW l \in Levels, NEW b \in Nat
  PROVE  /\ b * Size(l) \in Nat
         /\ (b * Size(l)) % Size(l) = 0
         /\ BitOf(l, b * Size(l)) = b
BY DEF Levels, Size, BitOf

\* A block starts where a block of every lower level starts.
LEMMA AlignedBelow ==
  ASSUME NEW l \in Levels, NEW k \in 0..l, NEW a \in Nat, a % Size(l) = 0
  PROVE  a % Size(k) = 0
BY DEF Levels, Size

\* The upper half of a block is a block, and lies in it.
LEMMA UpperHalf ==
  ASSUME NEW j \in Levels, NEW k \in 0..(j - 1), NEW a \in Nat,
         a % Size(j) = 0, NEW f \in Nat
  PROVE  /\ BitOf(k, f) = BitOf(k, a + Size(k))
              <=> a + Size(k) <= f /\ f < a + 2 * Size(k)
         /\ 2 * Size(k) <= Size(j)
BY DEF Levels, Size, BitOf

\* The frames of a block of level l + 1 are those of a block of level l in it
\* and those of the buddy.
LEMMA BlockIsTwoBuddies ==
  ASSUME NEW l \in 0..3, NEW a \in Nat, NEW f \in Nat
  PROVE  /\ BuddyOf(BitOf(l, a)) # BitOf(l, a)
         /\ BitOf(l + 1, f) = BitOf(l + 1, a) <=>
              \/ BitOf(l, f) = BitOf(l, a)
              \/ BitOf(l, f) = BuddyOf(BitOf(l, a))
BY DEF Levels, Size, BitOf, BuddyOf

\* The bit of a frame is a bit of its bitmap.
LEMMA BitInRange ==
  ASSUME NEW l \in Levels, NEW f \in Frames
  PROVE  BitOf(l, f) \in Bits(l)
BY FrameCountAssumption DEF Levels, Size, BitOf, Bits, Frames

\* A bit of a bitmap stands for frames only.
LEMMA RangeInFrames ==
  ASSUME NEW l \in Levels, NEW b \in Bits(l)
  PROVE  /\ b \in Nat
         /\ b * Size(l) + Size(l) <= FrameCount
BY FrameCountAssumption DEF Levels, Size, Bits

\* A function that gives every level bits of its bitmap is a set of bitmaps.
LEMMA BitmapsAre ==
  ASSUME NEW bm, bm = [k \in Levels |-> bm[k]],
         \A k \in Levels : bm[k] \subseteq Bits(k)
  PROVE  IsBitmaps(bm)
<1>1. \A k \in Levels : bm[k] \in SUBSET Nat
  BY RangeInFrames
<1>2. bm \in [Levels -> SUBSET Nat]
  BY <1>1
<1> QED BY <1>2 DEF IsBitmaps

\* _BSF finds the lowest clear bit.
LEMMA FirstBitInSet ==
  ASSUME NEW S \in SUBSET Nat, S # {}
  PROVE  FirstBit(S) \in S
<1>1. PICK b \in S : \A c \in S : <<c, b>> \notin OpToRel(<, Nat)
  BY NatLessThanWellFounded, WFMin, Zenon
<1>2. \A c \in S : ~ (c < b)
  BY <1>1, Zenon DEF OpToRel
<1>3. \A c \in S : b <= c
  BY <1>2
<1> QED BY <1>3 DEF FirstBit

-----------------------------------------------------------------------------
(***************************************************************************)
(* PMM_FindAndSplit.                                                       *)
(***************************************************************************)

\* The block that is found is free, and no lower level from the one asked for
\* has a free block.
LEMMA FoundBlock ==
  ASSUME NEW bm, IsBitmaps(bm), NEW level \in Levels, HasFreeFrom(bm, level)
  PROVE  /\ FoundLevel(bm, level) \in level..4
         /\ FoundAddress(bm, level) \in Frames
         /\ FoundAddress(bm, level) % Size(FoundLevel(bm, level)) = 0
         /\ BitOf(FoundLevel(bm, level), FoundAddress(bm, level))
              \in bm[FoundLevel(bm, level)]
         /\ FoundAddress(bm, level) + Size(FoundLevel(bm, level)) <= FrameCount
         /\ \A k \in Levels : level <= k /\ k < FoundLevel(bm, level)
                                => bm[k] = {}
<1> DEFINE j == FoundLevel(bm, level)
<1>1. /\ j \in Levels /\ j >= level /\ bm[j] # {}
      /\ \A k \in Levels : level <= k /\ k < j => bm[k] = {}
  <2>1. \E i \in Levels :
          /\ i >= level /\ bm[i] # {}
          /\ \A k \in Levels : level <= k /\ k < i => bm[k] = {}
    BY DEF HasFreeFrom, Levels
  <2> QED BY <2>1 DEF FoundLevel
<1> HIDE DEF j
<1>2. bm[j] \in SUBSET Bits(j) /\ bm[j] \in SUBSET Nat
  BY <1>1, RangeInFrames DEF IsBitmaps
<1> DEFINE b == FirstBit(bm[j])
<1>3. b \in bm[j]
  BY <1>1, <1>2, FirstBitInSet
<1> HIDE DEF b
<1>4. /\ b \in Nat /\ b * Size(j) + Size(j) <= FrameCount
      /\ b * Size(j) \in Nat /\ (b * Size(j)) % Size(j) = 0
      /\ BitOf(j, b * Size(j)) = b
  BY <1>1, <1>2, <1>3, RangeInFrames, BitAddress
<1>5. FoundAddress(bm, level) = b * Size(j)
  BY DEF FoundAddress, b, j
<1>6. Size(j) \in Nat \ {0}
  BY <1>1 DEF Levels, Size
<1>7. b * Size(j) \in Frames
  BY <1>4, <1>6, FrameCountAssumption DEF Frames
<1> QED BY <1>1, <1>3, <1>4, <1>5, <1>7 DEF j, Levels

\* Splitting changes no bit of a level below the one asked for or above the
\* one found; on the levels between, it leaves the upper half free.
LEMMA SplitBits ==
  ASSUME NEW bm, IsBitmaps(bm), NEW level \in Levels, HasFreeFrom(bm, level),
         FoundAddress(bm, level) # 0, NEW k \in Levels
  PROVE  LET j == FoundLevel(bm, level)
             a == FoundAddress(bm, level)
         IN AfterSplit(bm, level)[k] =
              IF k = j THEN bm[k] \ {BitOf(k, a)}
              ELSE IF level <= k /\ k < j THEN {BitOf(k, a + Size(k))}
              ELSE bm[k]
BY FoundBlock DEF AfterSplit

\* After the split the first block of the level asked for is free on no level
\* and every other frame is free exactly when it was, on one level.
LEMMA SplitFrames ==
  ASSUME NEW bm, IsBitmaps(bm), FreeOnce(bm), NEW level \in Levels,
         HasFreeFrom(bm, level), FoundAddress(bm, level) # 0
  PROVE  LET a == FoundAddress(bm, level)
             new == AfterSplit(bm, level)
         IN /\ IsBitmaps(new)
            /\ FreeOnce(new)
            /\ FreeFramesOf(new)
                 = FreeFramesOf(bm) \ (a .. (a + Size(level) - 1))
            /\ a .. (a + Size(level) - 1) \subseteq FreeFramesOf(bm)
<1> DEFINE j == FoundLevel(bm, level)
           a == FoundAddress(bm, level)
           new == AfterSplit(bm, level)
<1>1. /\ j \in level..4 /\ a \in Frames /\ a % Size(j) = 0
      /\ BitOf(j, a) \in bm[j] /\ a + Size(j) <= FrameCount
      /\ \A k \in Levels : level <= k /\ k < j => bm[k] = {}
  BY FoundBlock
<1>2. \A k \in Levels :
        new[k] = IF k = j THEN bm[k] \ {BitOf(k, a)}
                 ELSE IF level <= k /\ k < j THEN {BitOf(k, a + Size(k))}
                 ELSE bm[k]
  BY SplitBits
<1>3. new = [k \in Levels |-> new[k]]
  BY DEF AfterSplit
<1> HIDE DEF j, a, new
<1>4. a \in Nat /\ j \in Levels /\ level \in Nat /\ j \in Nat
  BY <1>1 DEF Frames, Levels
<1>5. \A k \in Levels : Size(k) \in Nat \ {0}
  BY DEF Levels, Size
<1>6. Size(level) <= Size(j)
  BY <1>1 DEF Levels, Size
<1>7. ASSUME NEW f \in Frames
      PROVE  /\ BitOf(j, f) = BitOf(j, a) <=> a <= f /\ f < a + Size(j)
             /\ \A k \in level..(j - 1) :
                  BitOf(k, f) = BitOf(k, a + Size(k))
                    <=> a + Size(k) <= f /\ f < a + 2 * Size(k)
  BY <1>1, <1>4, BlockIsBit, UpperHalf DEF Frames, Levels
\* Which bits of a frame are clear afterwards.
<1>8. ASSUME NEW f \in Frames, ~ (a <= f /\ f < a + Size(j)), NEW k \in Levels
      PROVE  BitOf(k, f) \in new[k] <=> BitOf(k, f) \in bm[k]
  <2>1. CASE k = j
    BY <1>2, <1>7, <1>8, <2>1
  <2>2. CASE level <= k /\ k < j
    <3>1. k \in level..(j - 1) /\ 2 * Size(k) <= Size(j)
      BY <1>1, <2>2 DEF Levels, Size
    <3>2. BitOf(k, f) # BitOf(k, a + Size(k))
      BY <1>4, <1>5, <1>7, <1>8, <3>1 DEF Frames
    <3> QED BY <1>1, <1>2, <2>2, <3>2
  <2> QED BY <1>2, <2>1, <2>2
<1>9. ASSUME NEW f \in Frames, a <= f, f < a + Size(j)
      PROVE  /\ BitOf(j, f) \in bm[j]
             /\ \A k \in Levels : BitOf(k, f) \in bm[k] => k = j
             /\ \A k \in Levels : BitOf(k, f) \in new[k] <=>
                  /\ level <= k /\ k < j
                  /\ a + Size(k) <= f /\ f < a + 2 * Size(k)
  <2>1. BitOf(j, f) \in bm[j]
    BY <1>1, <1>7, <1>9
  <2>2. \A k \in Levels : BitOf(k, f) \in bm[k] => k = j
    BY <1>4, <2>1 DEF FreeOnce
  <2>3. ASSUME NEW k \in Levels
        PROVE  BitOf(k, f) \in new[k] <=>
                 /\ level <= k /\ k < j
                 /\ a + Size(k) <= f /\ f < a + 2 * Size(k)
    <3>1. CASE k = j
      BY <1>1, <1>2, <1>7, <1>9, <3>1, <1>4 DEF Levels
    <3>2. CASE level <= k /\ k < j
      <4>1. k \in level..(j - 1)
        BY <1>1, <3>2 DEF Levels
      <4>2. k # j
        BY <1>4, <3>2 DEF Levels
      <4>3. new[k] = {BitOf(k, a + Size(k))}
        BY <1>2, <3>2, <4>2
      <4> QED BY <1>7, <3>2, <4>1, <4>3
    <3>3. CASE k # j /\ ~ (level <= k /\ k < j)
      BY <1>2, <2>2, <3>3
    <3> QED BY <3>1, <3>2, <3>3
  <2> QED BY <2>1, <2>2, <2>3
<1>10. IsBitmaps(new)
  <2>1. ASSUME NEW k \in Levels, level <= k, k < j
        PROVE  BitOf(k, a + Size(k)) \in Bits(k)
    <3>1. 2 * Size(k) <= Size(j)
      BY <1>1, <2>1 DEF Levels, Size
    <3>2. a + Size(k) \in Frames
      BY <1>1, <1>4, <1>5, <3>1, FrameCountAssumption DEF Frames
    <3> QED BY <3>2, BitInRange
  <2>2. \A k \in Levels : new[k] \subseteq Bits(k)
    BY <1>1, <1>2, <2>1 DEF IsBitmaps
  <2> QED BY <1>3, <2>2, BitmapsAre
<1>11. FreeOnce(new)
  <2> SUFFICES ASSUME NEW f \in Frames, NEW l \in Levels, BitOf(l, f) \in new[l],
                      NEW k \in Levels, BitOf(k, f) \in new[k]
               PROVE  k = l
    BY DEF FreeOnce
  <2>1. CASE a <= f /\ f < a + Size(j)
    <3>1. /\ a + Size(k) <= f /\ f < a + 2 * Size(k)
          /\ a + Size(l) <= f /\ f < a + 2 * Size(l)
      BY <1>9, <2>1
    <3> QED BY <1>4, <3>1 DEF Levels, Size, Frames
  <2>2. CASE ~ (a <= f /\ f < a + Size(j))
    BY <1>8, <2>2 DEF FreeOnce
  <2> QED BY <2>1, <2>2
<1>12. a .. (a + Size(level) - 1) \subseteq FreeFramesOf(bm)
  <2> SUFFICES ASSUME NEW f \in a .. (a + Size(level) - 1)
               PROVE  f \in Frames /\ a <= f /\ f < a + Size(j)
    BY <1>4, <1>9 DEF FreeFramesOf
  <2> QED BY <1>1, <1>4, <1>5, <1>6, FrameCountAssumption DEF Frames
<1>13. ASSUME NEW f \in Frames
       PROVE  f \in FreeFramesOf(new)
                <=> f \in FreeFramesOf(bm) /\ f \notin a .. (a + Size(level) - 1)
  <2>1. CASE ~ (a <= f /\ f < a + Size(j))
    <3>1. f \notin a .. (a + Size(level) - 1)
      BY <1>4, <1>5, <1>6, <2>1 DEF Frames
    <3> QED BY <1>8, <2>1, <3>1 DEF FreeFramesOf
  <2>2. CASE a <= f /\ f < a + Size(j)
    <3>1. f \in FreeFramesOf(bm)
      BY <1>4, <1>9, <2>2 DEF FreeFramesOf
    <3>2. f \in FreeFramesOf(new) <=>
            \E k \in Levels : /\ level <= k /\ k < j
                              /\ a + Size(k) <= f /\ f < a + 2 * Size(k)
      BY <1>9, <2>2 DEF FreeFramesOf
    <3>3. (\E k \in Levels : /\ level <= k /\ k < j
                             /\ a + Size(k) <= f /\ f < a + 2 * Size(k))
            <=> a + Size(level) <= f
      BY <1>1, <1>4, <2>2 DEF Levels, Size, Frames
    <3> QED BY <1>4, <1>5, <2>2, <3>1, <3>2, <3>3 DEF Frames
  <2> QED BY <2>1, <2>2
<1>14. FreeFramesOf(new) = FreeFramesOf(bm) \ (a .. (a + Size(level) - 1))
  BY <1>13 DEF FreeFramesOf
<1> QED BY <1>10, <1>11, <1>12, <1>14 DEF a, new

-----------------------------------------------------------------------------
(***************************************************************************)
(* PPM_FreeAndCoalesce.                                                    *)
(***************************************************************************)

\* The recursion stops at a level whose buddy is not free, or past the array,
\* and on every level before it the buddy is free.
LEMMA TopLevelStops ==
  ASSUME NEW bm, NEW level \in Levels, NEW a \in Nat
  PROVE  /\ TopLevel(bm, level, a) \in level..5
         /\ \A k \in level..(TopLevel(bm, level, a) - 1) : BuddyFree(bm, k, a)
         /\ TopLevel(bm, level, a) = 5 \/ ~BuddyFree(bm, TopLevel(bm, level, a), a)
<1> DEFINE Stops(t) == /\ \A k \in level..(t - 1) : BuddyFree(bm, k, a)
                       /\ t = 5 \/ ~BuddyFree(bm, t, a)
<1>1. \E t \in level..5 : Stops(t)
  <2> DEFINE F(k) == BuddyFree(bm, k, a)
  <2>1. \E t \in level..5 : /\ \A k \in level..(t - 1) : F(k)
                            /\ t = 5 \/ ~F(t)
    <3> HIDE DEF F
    <3> QED BY DEF Levels
  <2> QED BY <2>1
<1> QED BY <1>1 DEF TopLevel

\* The block the recursion ends with is made of the block given back and the
\* buddies it has met.
LEMMA CoalescedBlock ==
  ASSUME NEW level \in Levels, NEW m \in level..4, NEW a \in Nat, NEW f \in Nat
  PROVE  BitOf(m, f) = BitOf(m, a) <=>
           \/ BitOf(level, f) = BitOf(level, a)
           \/ \E k \in level..(m - 1) : BitOf(k, f) = BuddyOf(BitOf(k, a))
<1> DEFINE S(k) == BitOf(k, f) = BitOf(k, a)
           B(k) == BitOf(k, f) = BuddyOf(BitOf(k, a))
<1>1. \A k \in 0..3 : S(k + 1) <=> S(k) \/ B(k)
  BY BlockIsTwoBuddies
<1>2. S(m) <=> S(level) \/ \E k \in level..(m - 1) : B(k)
  <2> HIDE DEF S, B
  <2>1. /\ S(1) <=> S(0) \/ B(0)
        /\ S(2) <=> S(1) \/ B(1)
        /\ S(3) <=> S(2) \/ B(2)
        /\ S(4) <=> S(3) \/ B(3)
    BY <1>1
  <2> QED BY <2>1 DEF Levels
<1> QED BY <1>2

\* Giving back a block whose frames are free on no level makes exactly its
\* frames free when the recursion stays in the array.  When it does not, the
\* frames of the last buddy are lost; no frame is free twice in either case.
LEMMA CoalesceFrames ==
  ASSUME NEW bm, IsBitmaps(bm), FreeOnce(bm), NEW level \in Levels,
         NEW a \in Frames, a % Size(level) = 0,
         \A f \in a .. (a + Size(level) - 1) : f \notin FreeFramesOf(bm)
  PROVE  LET new == FreeAndCoalesce(bm, level, a)
             block == a .. (a + Size(level) - 1)
         IN /\ IsBitmaps(new)
            /\ FreeOnce(new)
            /\ FreeFramesOf(new) \subseteq FreeFramesOf(bm) \cup block
            /\ TopLevel(bm, level, a) # 5 =>
                 FreeFramesOf(bm) \cup (block \cap Frames) \subseteq FreeFramesOf(new)
<1> DEFINE top == TopLevel(bm, level, a)
           m == IF top = 5 THEN 4 ELSE top
           new == FreeAndCoalesce(bm, level, a)
           block == a .. (a + Size(level) - 1)
<1>1. /\ top \in level..5
      /\ \A k \in level..(top - 1) : BuddyOf(BitOf(k, a)) \in bm[k]
  <2>1. a \in Nat
    BY DEF Frames
  <2>2. /\ top \in level..5
        /\ \A k \in level..(top - 1) : BuddyFree(bm, k, a)
    BY <2>1, TopLevelStops
  <2> QED BY <2>2 DEF BuddyFree
<1>2. \A k \in Levels :
        new[k] = IF k = 4 /\ top >= 4
                 THEN (bm[k] \cup {BitOf(k, a)})
                        \ (IF top = 5 THEN {BuddyOf(BitOf(k, a))} ELSE {})
                 ELSE IF level <= k /\ k < top THEN bm[k] \ {BuddyOf(BitOf(k, a))}
                 ELSE IF k = top THEN bm[k] \cup {BitOf(k, a)}
                 ELSE bm[k]
  BY DEF FreeAndCoalesce
<1>3. new = [k \in Levels |-> new[k]]
  BY DEF FreeAndCoalesce
<1> HIDE DEF top, new
<1>4. m \in level..4 /\ m \in Levels /\ m <= top /\ top <= m + 1
  BY <1>1 DEF Levels
\* What the recursion did, level by level.
<1>5. ASSUME NEW k \in Levels, NEW b
      PROVE  b \in new[k] <=>
               \/ k = m /\ b = BitOf(k, a)
               \/ b \in bm[k] /\ ~ (k \in level..(top - 1) /\ b = BuddyOf(BitOf(k, a)))
  <2>1. BuddyOf(BitOf(k, a)) # BitOf(k, a)
    BY DEF BuddyOf, BitOf, Levels, Size, Frames
  <2>2. CASE k = 4 /\ top >= 4
    BY <1>1, <1>2, <2>1, <2>2 DEF Levels
  <2>3. CASE ~ (k = 4 /\ top >= 4) /\ level <= k /\ k < top
    BY <1>1, <1>2, <2>3 DEF Levels
  <2>4. CASE ~ (k = 4 /\ top >= 4) /\ k = top
    BY <1>1, <1>2, <2>4 DEF Levels
  <2>5. CASE ~ (k = 4 /\ top >= 4) /\ k # top /\ ~ (level <= k /\ k < top)
    BY <1>1, <1>2, <2>5 DEF Levels
  <2> QED BY <2>2, <2>3, <2>4, <2>5
<1>6. ASSUME NEW f \in Frames
      PROVE  /\ f \in block <=> BitOf(level, f) = BitOf(level, a)
             /\ BitOf(m, f) = BitOf(m, a) <=>
                  \/ f \in block
                  \/ \E k \in level..(m - 1) : BitOf(k, f) = BuddyOf(BitOf(k, a))
  <2>1. f \in Nat /\ a \in Nat
    BY DEF Frames
  <2>2. f \in block <=> BitOf(level, f) = BitOf(level, a)
    <3>1. Size(level) \in Nat
      BY DEF Size, Levels
    <3> QED BY <2>1, <3>1, BlockIsBit
  <2> QED BY <1>4, <2>1, <2>2, CoalescedBlock
\* The frames of the coalesced block are free on no level but the last one.
<1>7. ASSUME NEW f \in Frames, BitOf(m, f) = BitOf(m, a), NEW k \in Levels
      PROVE  BitOf(k, f) \in new[k] <=> k = m
  <2>1. BitOf(m, f) \in new[m]
    BY <1>4, <1>5, <1>7
  <2>2. ASSUME k # m, BitOf(k, f) \in new[k]  PROVE FALSE
    <3>1. /\ BitOf(k, f) \in bm[k]
          /\ ~ (k \in level..(top - 1) /\ BitOf(k, f) = BuddyOf(BitOf(k, a)))
      BY <1>5, <2>2
    <3>2. f \notin block
      BY <3>1 DEF FreeFramesOf
    <3>3. PICK i \in level..(m - 1) : BitOf(i, f) = BuddyOf(BitOf(i, a))
      BY <1>6, <1>7, <3>2
    <3>4. i \in Levels /\ i \in level..(top - 1)
      BY <1>4, <1>1 DEF Levels
    <3>5. BitOf(i, f) \in bm[i]
      BY <1>1, <3>3, <3>4
    <3>6. i = k
      BY <3>1, <3>4, <3>5 DEF FreeOnce
    <3> QED BY <3>1, <3>3, <3>4, <3>6
  <2> QED BY <2>1, <2>2
\* The other frames are free where they were, or no longer.
<1>8. ASSUME NEW f \in Frames, BitOf(m, f) # BitOf(m, a), NEW k \in Levels,
             BitOf(k, f) \in new[k]
      PROVE  BitOf(k, f) \in bm[k]
  BY <1>5, <1>8
<1>9. ASSUME NEW f \in Frames, BitOf(m, f) # BitOf(m, a), NEW k \in Levels,
             BitOf(k, f) \in bm[k], top # 5
      PROVE  BitOf(k, f) \in new[k]
  <2>1. ASSUME k \in level..(top - 1), BitOf(k, f) = BuddyOf(BitOf(k, a))
        PROVE  FALSE
    BY <1>6, <1>9, <2>1
  <2> QED BY <1>5, <1>9, <2>1
<1>10. IsBitmaps(new)
  <2>1. BitOf(m, a) \in Bits(m)
    BY <1>4, BitInRange
  <2>2. \A k \in Levels : new[k] \subseteq Bits(k)
    BY <1>5, <2>1 DEF IsBitmaps
  <2> QED BY <1>3, <2>2, BitmapsAre
<1>11. FreeOnce(new)
  BY <1>7, <1>8 DEF FreeOnce
<1>12. FreeFramesOf(new) \subseteq FreeFramesOf(bm) \cup block
  <2> SUFFICES ASSUME NEW f \in Frames, NEW k \in Levels, BitOf(k, f) \in new[k],
                      f \notin block
               PROVE  \E i \in Levels : BitOf(i, f) \in bm[i]
    BY DEF FreeFramesOf
  <2>1. CASE BitOf(m, f) = BitOf(m, a)
    <3>1. PICK i \in level..(m - 1) : BitOf(i, f) = BuddyOf(BitOf(i, a))
      BY <1>6, <2>1
    <3>2. i \in Levels /\ i \in level..(top - 1)
      BY <1>4, <1>1 DEF Levels
    <3> QED BY <1>1, <3>1, <3>2
  <2>2. CASE BitOf(m, f) # BitOf(m, a)
    BY <1>8, <2>2
  <2> QED BY <2>1, <2>2
<1>13. ASSUME top # 5
       PROVE  FreeFramesOf(bm) \cup (block \cap Frames) \subseteq FreeFramesOf(new)
  <2> SUFFICES ASSUME NEW f \in Frames, f \in FreeFramesOf(bm) \/ f \in block
               PROVE  \E k \in Levels : BitOf(k, f) \in new[k]
    BY DEF FreeFramesOf
  <2>1. CASE BitOf(m, f) = BitOf(m, a)
    BY <1>4, <1>7, <2>1
  <2>2. CASE BitOf(m, f) # BitOf(m, a)
    BY <1>6, <1>9, <1>13, <2>2 DEF FreeFramesOf
  <2> QED BY <2>1, <2>2
<1> QED BY <1>10, <1>11, <1>12, <1>13 DEF new, top

-----------------------------------------------------------------------------
(***************************************************************************)
(* PMM_GetFrames and PMM_FreeFrames on whole blocks.                       *)
(***************************************************************************)

\* A request for a whole block fails and changes nothing, or takes a block
\* that is wholly free and nothing else.
LEMMA GetBlock ==
  ASSUME NEW bm, IsBitmaps(bm), FreeOnce(bm), 0 \notin FreeFramesOf(bm),
         NEW count \in BlockSizes
  PROVE  LET a == GetAddress(bm, count)
             new == AfterGet(bm, count)
             block == a .. (a + count - 1)
         IN \/ a = 0 /\ new = bm
            \/ /\ a # 0 /\ a \in Frames /\ block \subseteq FreeFramesOf(bm)
               /\ IsBitmaps(new) /\ FreeOnce(new)
               /\ FreeFramesOf(new) = FreeFramesOf(bm) \ block
<1> DEFINE level == LevelFor(count)
<1>1. level \in Levels /\ Size(level) = count /\ ~ (count > MaxCount)
  BY DEF BlockSizes, LevelFor, Size, Levels, MaxCount
<1>2. \A a : GiveBack(count, a) = {}
  BY DEF BlockSizes, LevelFor, Size, GiveBack
<1>3. ASSUME NEW b, IsBitmaps(b)  PROVE ClearBits(b, {}) = b
  BY <1>3 DEF ClearBits, IsBitmaps
<1>4. GetAddress(bm, count) = FoundAddress(bm, level)
  BY <1>1 DEF GetAddress
<1>5. AfterGet(bm, count) = ClearBits(AfterSplit(bm, level), {})
  BY <1>1, <1>2 DEF AfterGet
<1> HIDE DEF level
<1>6. CASE ~HasFreeFrom(bm, level)
  <2>1. FoundAddress(bm, level) = 0 /\ AfterSplit(bm, level) = bm
    BY <1>6 DEF FoundAddress, AfterSplit
  <2> QED BY <1>3, <1>4, <1>5, <2>1
<1>7. CASE HasFreeFrom(bm, level)
  <2> DEFINE a == FoundAddress(bm, level)
             j == FoundLevel(bm, level)
  <2>1. a \in Frames /\ j \in Levels /\ BitOf(j, a) \in bm[j]
    BY <1>1, <1>7, FoundBlock DEF Levels
  <2>2. a \in FreeFramesOf(bm)
    BY <2>1 DEF FreeFramesOf
  <2>3. a # 0
    BY <2>2
  <2>4. LET new == AfterSplit(bm, level)
        IN /\ IsBitmaps(new)
           /\ FreeOnce(new)
           /\ FreeFramesOf(new) = FreeFramesOf(bm) \ (a .. (a + count - 1))
           /\ a .. (a + count - 1) \subseteq FreeFramesOf(bm)
    BY <1>1, <1>7, <2>3, SplitFrames
  <2> HIDE DEF a
  <2>5. AfterGet(bm, count) = AfterSplit(bm, level)
    BY <1>3, <1>5, <2>4
  <2> QED BY <1>4, <2>1, <2>3, <2>4, <2>5 DEF a
<1> QED BY <1>6, <1>7

\* A block smaller than 16 frames is given back by one call of
\* PPM_FreeAndCoalesce, on its level.
LEMMA SmallBlock ==
  ASSUME NEW bm, NEW count \in BlockSizes, count # 16, NEW a \in Frames
  PROVE  \E level \in 0..3 :
           /\ Size(level) = count
           /\ AfterFree(bm, a, count) = FreeAndCoalesce(bm, level, a)
           /\ TopLevel(bm, level, a) = 5 => RunsPastArray(bm, a, count)
<1> DEFINE level == LevelFor(count)
<1>1. level \in 0..3 /\ level \in Levels /\ Size(level) = count
  BY DEF BlockSizes, LevelFor, Size, Levels
<1>2. \A l \in 0..3 : HasBit(count, l) <=> l = level
  BY DEF BlockSizes, LevelFor, Size, HasBit
<1>3. PartAddress(a, count, level) = a
  BY DEF BlockSizes, LevelFor, Size, PartAddress, Frames
<1> HIDE DEF level
<1>4. ASSUME NEW b, NEW l \in 0..3
      PROVE  FreePart(b, a, count, l) =
               IF l = level THEN FreeAndCoalesce(b, level, a) ELSE b
  BY <1>2, <1>3 DEF FreePart
<1>5. /\ AfterFree(bm, a, count) = FreeAndCoalesce(bm, level, a)
      /\ Before(bm, a, count, level) = bm
  BY <1>1, <1>4 DEF AfterFree, Before
<1>6. TopLevel(bm, level, a) = 5 => RunsPastArray(bm, a, count)
  BY <1>1, <1>2, <1>3, <1>5 DEF RunsPastArray, PartRunsPastArray
<1> QED BY <1>1, <1>5, <1>6

\* Giving a whole block back frees its frames and no others.
LEMMA FreeBlock ==
  ASSUME NEW bm, IsBitmaps(bm), FreeOnce(bm), NEW count \in BlockSizes,
         NEW a \in Frames, a % count = 0,
         \A f \in a .. (a + count - 1) : f \notin FreeFramesOf(bm)
  PROVE  LET new == AfterFree(bm, a, count)
             block == a .. (a + count - 1)
         IN /\ IsBitmaps(new) /\ FreeOnce(new)
            /\ FreeFramesOf(new) \subseteq FreeFramesOf(bm) \cup block
            /\ ~RunsPastArray(bm, a, count) =>
                 FreeFramesOf(bm) \cup (block \cap Frames) \subseteq FreeFramesOf(new)
<1>1. CASE count = 16
  <2> DEFINE new == [bm EXCEPT ![4] = @ \cup {BitOf(4, a)}]
  <2>1. \A l \in 0..3 : ~HasBit(count, l)
    BY <1>1 DEF HasBit, Size
  <2>2. AfterFree(bm, a, count) = new
    BY <1>1, <2>1 DEF AfterFree, FreePart, Before
  <2>3. ASSUME NEW k \in Levels
        PROVE  new[k] = IF k = 4 THEN bm[k] \cup {BitOf(k, a)} ELSE bm[k]
    BY DEF IsBitmaps, Levels
  <2>4. new = [k \in Levels |-> new[k]]
    BY DEF IsBitmaps
  <2> HIDE DEF new
  <2>5. ASSUME NEW f \in Frames
        PROVE  f \in a .. (a + 15) <=> BitOf(4, f) = BitOf(4, a)
    <3>1. 4 \in Levels /\ Size(4) = 16 /\ a \in Nat /\ f \in Nat
      BY DEF Levels, Size, Frames
    <3>2. BitOf(4, f) = BitOf(4, a) <=> a <= f /\ f < a + 16
      BY <1>1, <3>1, BlockIsBit
    <3> QED BY <3>1, <3>2
  <2>6. IsBitmaps(new)
    <3>1. \A k \in Levels : new[k] \subseteq Bits(k)
      <4>1. BitOf(4, a) \in Bits(4)
        BY BitInRange DEF Levels
      <4>2. \A k \in Levels : bm[k] \subseteq Bits(k)
        BY DEF IsBitmaps
      <4>3. ASSUME NEW k \in Levels PROVE new[k] \subseteq Bits(k)
        <5>1. CASE k = 4
          <6>1. new[k] = bm[4] \cup {BitOf(4, a)} /\ bm[4] \subseteq Bits(4)
            BY <2>3, <4>2, <5>1
          <6> QED BY <4>1, <5>1, <6>1
        <5>2. CASE k # 4
          BY <2>3, <4>2, <5>2
        <5> QED BY <5>1, <5>2
      <4> QED BY <4>3
    <3> QED BY <2>4, <3>1, BitmapsAre
  <2>7. ASSUME NEW f \in Frames, NEW k \in Levels
        PROVE  BitOf(k, f) \in new[k]
                 <=> BitOf(k, f) \in bm[k] \/ (k = 4 /\ f \in a .. (a + 15))
    BY <2>3, <2>5
  <2>8. 4 \in Levels
    BY DEF Levels
  <2>9. FreeOnce(new)
    <3> SUFFICES ASSUME NEW f \in Frames, NEW l \in Levels, BitOf(l, f) \in new[l],
                        NEW k \in Levels, BitOf(k, f) \in new[k]
                 PROVE  k = l
      BY DEF FreeOnce
    <3>1. CASE f \in a .. (a + 15)
      BY <1>1, <2>7, <3>1 DEF FreeFramesOf
    <3>2. CASE f \notin a .. (a + 15)
      BY <2>7, <3>2 DEF FreeOnce
    <3> QED BY <3>1, <3>2
  <2>10. FreeFramesOf(new) = FreeFramesOf(bm) \cup (a .. (a + 15) \cap Frames)
    BY <2>7, <2>8 DEF FreeFramesOf
  <2> QED BY <1>1, <2>2, <2>6, <2>9, <2>10
<1>2. CASE count # 16
  <2>1. PICK level \in 0..3 :
          /\ Size(level) = count
          /\ AfterFree(bm, a, count) = FreeAndCoalesce(bm, level, a)
          /\ TopLevel(bm, level, a) = 5 => RunsPastArray(bm, a, count)
    BY <1>2, SmallBlock
  <2> QED BY <2>1, CoalesceFrames DEF Levels
<1> QED BY <1>1, <1>2

-----------------------------------------------------------------------------
(***************************************************************************)
(* The inductive invariant: the safety invariants the runs check, together.*)
(* Each needs the others: the block that is handed out is exclusive        *)
(* because a free frame is free on one level (splitting then removes it),  *)
(* a block that is coalesced because its frames were not free before.      *)
(***************************************************************************)
IInv == TypeOK /\ GrantsExclusive /\ FreeOnOneLevel /\ OnlyUsable /\ NoFrameLost

\* Frame 0, whose number means failure, is never free.
LEMMA FrameZeroNotFree == IInv => 0 \notin FreeFrames
<1>1. 0 \notin Usable
  BY BootAssumption DEF Usable, FreeFramesOf, FrameZeroUsed, BitOf, Levels, Size
<1> QED BY <1>1 DEF IInv, OnlyUsable

\* A frame is held when it is in a block somebody holds.
LEMMA HeldFrames == \A f : f \in Held <=> \E g \in grants : f \in FramesOf(g)
BY DEF Held

\* A held block lies in memory.
LEMMA GrantInMemory ==
  ASSUME IInv, NEW g \in grants
  PROVE  /\ g.base \in Frames /\ g.count \in 1..16
         /\ g = [base |-> g.base, count |-> g.count]
         /\ FramesOf(g) \subseteq Frames
         /\ FramesOf(g) \cap FreeFrames = {}
<1>1. g \in [base : Frames, count : 1..16]
  BY DEF IInv, TypeOK, MaxCount
<1>2. FramesOf(g) \subseteq Held
  BY HeldFrames
<1>3. Usable \subseteq Frames
  BY DEF Usable, FreeFramesOf
<1> QED BY <1>1, <1>2, <1>3 DEF IInv, OnlyUsable, GrantsExclusive

LEMMA IInvInit == Init => IInv
<1> SUFFICES ASSUME Init PROVE IInv
  OBVIOUS
<1>1. grants = {} /\ bitmaps = BootBitmaps /\ wild = FALSE /\ halted = FALSE
  BY DEF Init
<1>2. Held = {}
  BY <1>1, HeldFrames
<1> QED BY <1>1, <1>2, BootAssumption
        DEF IInv, TypeOK, GrantsExclusive, FreeOnOneLevel, OnlyUsable,
            NoFrameLost, FreeFrames, Usable

LEMMA IInvGet ==
  ASSUME Counts \subseteq BlockSizes, IInv, NEW count \in Counts,
         PMM_GetFrames(count)
  PROVE  IInv'
<1> DEFINE a == GetAddress(bitmaps, count)
           block == a .. (a + count - 1)
           g == [base |-> a, count |-> count]
<1>1. count \in BlockSizes /\ count \in 1..16
  BY DEF BlockSizes
<1>2. \/ a = 0 /\ bitmaps' = bitmaps
      \/ /\ a # 0 /\ a \in Frames /\ block \subseteq FreeFrames
         /\ IsBitmaps(bitmaps') /\ FreeOnce(bitmaps')
         /\ FreeFrames' = FreeFrames \ block
  <2>1. IsBitmaps(bitmaps) /\ FreeOnce(bitmaps) /\ 0 \notin FreeFramesOf(bitmaps)
    BY FrameZeroNotFree DEF IInv, TypeOK, FreeOnOneLevel, FreeFrames
  <2>2. bitmaps' = AfterGet(bitmaps, count)
    BY DEF PMM_GetFrames
  <2> QED BY <1>1, <2>1, <2>2, GetBlock DEF FreeFrames
<1>3. /\ grants' = IF a = 0 THEN grants ELSE grants \cup {g}
      /\ wild' = wild /\ halted' = halted
  BY DEF PMM_GetFrames
<1> HIDE DEF a
<1>4. CASE a = 0
  <2>1. bitmaps' = bitmaps /\ grants' = grants /\ wild' = wild /\ halted' = halted
    BY <1>2, <1>3, <1>4
  <2> QED BY <2>1
        DEF IInv, TypeOK, GrantsExclusive, FreeOnOneLevel, OnlyUsable,
            NoFrameLost, FreeFrames, Held
<1>5. CASE a # 0
  <2>1. /\ a \in Frames /\ block \subseteq FreeFrames /\ grants' = grants \cup {g}
        /\ FreeFrames' = FreeFrames \ block
    BY <1>2, <1>3, <1>5
  <2>2. FramesOf(g) = block
    BY DEF FramesOf
  <2>3. Held' = Held \cup block
    BY <2>1, <2>2, HeldFrames DEF Held
  <2>4. TypeOK'
    BY <1>1, <1>2, <1>3, <1>5, <2>1 DEF IInv, TypeOK, MaxCount
  <2>5. GrantsExclusive'
    <3>1. FreeFrames' \cap Held' = {}
      BY <2>1, <2>3 DEF IInv, GrantsExclusive
    <3>2. \A h \in grants : FramesOf(h) \cap block = {}
      BY <2>1, GrantInMemory
    <3>3. \A x, y \in grants' : x # y => FramesOf(x) \cap FramesOf(y) = {}
      BY <2>1, <2>2, <3>2 DEF IInv, GrantsExclusive
    <3> QED BY <3>1, <3>3 DEF GrantsExclusive
  <2>6. FreeOnOneLevel'
    BY <1>2, <1>5 DEF FreeOnOneLevel
  <2>7. OnlyUsable' /\ NoFrameLost'
    BY <1>3, <2>1, <2>3 DEF IInv, OnlyUsable, NoFrameLost
  <2> QED BY <2>4, <2>5, <2>6, <2>7 DEF IInv
<1> QED BY <1>4, <1>5

\* What both ways of giving frames back have in common: the first count frames
\* of a held block are freed, and the caller keeps the rest.
LEMMA IInvFree ==
  ASSUME IInv, NEW g \in grants, NEW count \in BlockSizes, count <= g.count,
         g.base % count = 0, FreeEffect(g.base, count),
         NEW kept, kept \subseteq [base : Frames, count : 1..MaxCount],
         grants' = (grants \ {g}) \cup kept,
         \A f : (\E h \in kept : f \in FramesOf(h))
                  <=> f \in FramesOf(g) /\ f \notin g.base .. (g.base + count - 1),
         \A h, k \in kept : h = k
  PROVE  IInv'
<1> DEFINE block == g.base .. (g.base + count - 1)
<1>1. /\ g.base \in Frames /\ g.count \in 1..16
      /\ FramesOf(g) \subseteq Frames /\ FramesOf(g) \cap FreeFrames = {}
  BY GrantInMemory
<1>2. block \subseteq FramesOf(g)
  BY <1>1 DEF FramesOf, Frames, BlockSizes
<1>3. IsBitmaps(bitmaps) /\ FreeOnce(bitmaps) /\ bitmaps' = AfterFree(bitmaps, g.base, count)
  BY DEF IInv, TypeOK, FreeOnOneLevel, FreeEffect
<1>4. \A f \in block : f \notin FreeFramesOf(bitmaps)
  BY <1>1, <1>2 DEF FreeFrames
<1>5. /\ IsBitmaps(bitmaps') /\ FreeOnce(bitmaps')
      /\ FreeFrames' \subseteq FreeFrames \cup block
      /\ ~RunsPastArray(bitmaps, g.base, count) =>
           FreeFrames \cup (block \cap Frames) \subseteq FreeFrames'
  BY <1>1, <1>3, <1>4, FreeBlock DEF FreeFrames
<1>6. /\ wild' \in BOOLEAN /\ halted' \in BOOLEAN
      /\ ~wild' => ~wild /\ ~RunsPastArray(bitmaps, g.base, count)
  BY DEF IInv, TypeOK, FreeEffect
<1> HIDE DEF block
<1>7. ASSUME NEW h \in grants, h # g
      PROVE  FramesOf(h) \cap FramesOf(g) = {}
  BY <1>7 DEF IInv, GrantsExclusive
<1>8. ASSUME NEW f  PROVE f \in Held' <=> f \in Held /\ f \notin block
  <2>1. f \in Held' <=> \/ \E h \in grants : h # g /\ f \in FramesOf(h)
                        \/ \E h \in kept : f \in FramesOf(h)
    BY DEF Held
  <2>2. f \in Held <=> \/ \E h \in grants : h # g /\ f \in FramesOf(h)
                       \/ f \in FramesOf(g)
    BY HeldFrames
  <2> QED BY <1>2, <1>7, <2>1, <2>2 DEF block
<1>9. TypeOK'
  BY <1>5, <1>6 DEF IInv, TypeOK
<1>10. GrantsExclusive'
  <2>1. FreeFrames' \cap Held' = {}
    BY <1>5, <1>8 DEF IInv, GrantsExclusive
  <2>2. ASSUME NEW x \in grants', NEW y \in grants', x # y,
               NEW f \in FramesOf(x), f \in FramesOf(y)
        PROVE  FALSE
    <3>1. CASE x \in kept /\ y \in kept
      BY <2>2, <3>1
    <3>2. CASE x \in kept /\ y \notin kept
      BY <1>7, <2>2, <3>2
    <3>3. CASE x \notin kept /\ y \in kept
      BY <1>7, <2>2, <3>3
    <3>4. CASE x \notin kept /\ y \notin kept
      BY <2>2, <3>4 DEF IInv, GrantsExclusive
    <3> QED BY <3>1, <3>2, <3>3, <3>4
  <2> QED BY <2>1, <2>2 DEF GrantsExclusive
<1>11. FreeOnOneLevel'
  BY <1>5 DEF FreeOnOneLevel
<1>12. block \subseteq Held /\ block \subseteq Frames
  BY <1>1, <1>2, HeldFrames
<1>13. OnlyUsable'
  BY <1>5, <1>8, <1>12 DEF IInv, OnlyUsable
<1>14. NoFrameLost'
  BY <1>5, <1>6, <1>8, <1>12 DEF IInv, NoFrameLost
<1> QED BY <1>9, <1>10, <1>11, <1>13, <1>14 DEF IInv

LEMMA IInvNext ==
  ASSUME Counts \subseteq BlockSizes, IInv, [Next]_vars
  PROVE  IInv'
<1>1. ASSUME NEW count \in Counts, PMM_GetFrames(count)  PROVE IInv'
  BY <1>1, IInvGet
<1>2. ASSUME NEW g \in grants, PMM_FreeFrames(g)  PROVE IInv'
  <2>1. g.count \in BlockSizes /\ g.base % g.count = 0 /\ FreeEffect(g.base, g.count)
    <3>1. g.count \in BlockSizes /\ FreeEffect(g.base, g.count)
      BY <1>2 DEF PMM_FreeFrames
    <3>2. \A c \in BlockSizes : Size(LevelFor(c)) = c
      BY DEF BlockSizes, LevelFor, Size
    <3> QED BY <1>2, <3>1, <3>2 DEF PMM_FreeFrames
  <2> DEFINE kept == {}
  <2>2. grants' = (grants \ {g}) \cup kept
    BY <1>2 DEF PMM_FreeFrames
  <2>3. g.count <= g.count
    BY GrantInMemory
  <2>4. \A f : (\E h \in kept : f \in FramesOf(h))
                 <=> f \in FramesOf(g) /\ f \notin g.base .. (g.base + g.count - 1)
    BY DEF FramesOf
  <2>5. kept \subseteq [base : Frames, count : 1..MaxCount] /\ \A h, k \in kept : h = k
    OBVIOUS
  <2> HIDE DEF kept
  <2> QED BY <2>1, <2>2, <2>3, <2>4, <2>5, IInvFree
<1>3. ASSUME NEW g \in grants, PMM_FreeFirstFrame(g)  PROVE IInv'
  <2> DEFINE rest == [base |-> g.base + 1, count |-> g.count - 1]
             kept == IF g.count = 1 THEN {} ELSE {rest}
  <2>1. FreeEffect(g.base, 1) /\ grants' = (grants \ {g}) \cup kept
    BY <1>3 DEF PMM_FreeFirstFrame
  <2>2. /\ g.base \in Nat /\ g.base \in Frames /\ g.count \in 1..16
        /\ FramesOf(g) \subseteq Frames
    BY GrantInMemory DEF Frames
  <2>3. 1 \in BlockSizes /\ 1 <= g.count /\ g.base % 1 = 0
    BY <2>2 DEF BlockSizes
  <2>4. kept \subseteq [base : Frames, count : 1..MaxCount]
    <3>1. g.count # 1 => g.base + 1 \in FramesOf(g)
      BY <2>2 DEF FramesOf
    <3> QED BY <2>2, <3>1 DEF MaxCount
  <2>5. \A f : (\E h \in kept : f \in FramesOf(h))
                 <=> f \in FramesOf(g) /\ f \notin g.base .. (g.base + 1 - 1)
    <3>1. CASE g.count = 1
      BY <2>2, <3>1 DEF FramesOf
    <3>2. CASE g.count # 1
      <4>1. \A f : (\E h \in kept : f \in FramesOf(h)) <=> f \in FramesOf(rest)
        BY <3>2
      <4>2. /\ rest.base = g.base + 1
            /\ rest.base + rest.count - 1 = g.base + g.count - 1
        BY <2>2
      <4> HIDE DEF kept, rest
      <4>3. FramesOf(rest) = (g.base + 1) .. (g.base + g.count - 1)
        BY <4>2 DEF FramesOf
      <4>4. FramesOf(g) = g.base .. (g.base + g.count - 1)
        BY DEF FramesOf
      <4>5. \A f : f \in FramesOf(rest)
                     <=> f \in FramesOf(g) /\ f \notin g.base .. (g.base + 1 - 1)
        BY <2>2, <4>3, <4>4
      <4> QED BY <4>1, <4>5
    <3> QED BY <3>1, <3>2
  <2>6. \A h, k \in kept : h = k
    OBVIOUS
  <2> HIDE DEF kept
  <2> QED BY <2>1, <2>2, <2>3, <2>4, <2>5, <2>6, IInvFree
<1>4. CASE UNCHANGED vars
  BY <1>4 DEF vars, IInv, TypeOK, GrantsExclusive, FreeOnOneLevel, OnlyUsable,
              NoFrameLost, FreeFrames, Held
<1> QED BY <1>1, <1>2, <1>3, <1>4 DEF Next

-----------------------------------------------------------------------------
\* When callers ask for whole blocks only, in every reachable state of every
\* memory: no frame has two owners, no frame is free twice or free and held,
\* only memory PMM_Init found usable is handed out, and no frame is lost as
\* long as the coalescing has not run past the array of bitmaps.
THEOREM AllocatorSafe ==
  ASSUME Counts \subseteq BlockSizes
  PROVE  Spec => [](TypeOK /\ FramesSafe)
<1>1. IInv /\ [Next]_vars => IInv'
  BY IInvNext
<1>2. IInv => TypeOK /\ FramesSafe
  BY DEF IInv, FramesSafe
<1> QED BY IInvInit, <1>1, <1>2, PTL DEF Spec

\* A request for a whole block that PMM_GetFrames fails leaves every bitmap as
\* it was.
THEOREM FailureIsClean ==
  ASSUME Counts \subseteq BlockSizes
  PROVE  Spec => FailureChangesNothing
<1>1. ASSUME IInv, NEW count \in Counts, PMM_GetFrames(count), grants' = grants
      PROVE  bitmaps' = bitmaps
  <2>1. /\ IsBitmaps(bitmaps) /\ FreeOnce(bitmaps)
        /\ 0 \notin FreeFramesOf(bitmaps) /\ count \in BlockSizes
    BY <1>1, FrameZeroNotFree DEF IInv, TypeOK, FreeOnOneLevel, FreeFrames
  <2> DEFINE a == GetAddress(bitmaps, count)
             g == [base |-> a, count |-> count]
  <2>2. \/ a = 0 /\ AfterGet(bitmaps, count) = bitmaps
        \/ /\ a # 0 /\ a \in Frames
           /\ a .. (a + count - 1) \subseteq FreeFrames
    BY <2>1, GetBlock DEF FreeFrames
  <2>3. /\ bitmaps' = AfterGet(bitmaps, count)
        /\ grants' = IF a = 0 THEN grants ELSE grants \cup {g}
    BY <1>1 DEF PMM_GetFrames
  <2> HIDE DEF a
  <2>4. ASSUME a # 0  PROVE FALSE
    <3>1. g \in grants
      BY <1>1, <2>3, <2>4
    <3>2. a \in FramesOf(g) /\ a \in a .. (a + count - 1)
      BY <2>1, <2>2, <2>4 DEF FramesOf, BlockSizes, Frames
    <3> QED BY <1>1, <2>2, <2>4, <3>1, <3>2, GrantInMemory
  <2> QED BY <2>2, <2>3, <2>4
<1>2. ASSUME IInv, NEW g \in grants, PMM_FreeFrames(g) \/ PMM_FreeFirstFrame(g)
      PROVE  grants' # grants
  <2>1. g # [base |-> g.base + 1, count |-> g.count - 1]
    BY <1>2, GrantInMemory DEF Frames
  <2> QED BY <1>2, <2>1 DEF PMM_FreeFrames, PMM_FreeFirstFrame
<1>3. IInv /\ [Next]_vars => [grants' = grants => bitmaps' = bitmaps]_vars
  BY <1>1, <1>2 DEF Next, vars
<1>4. IInv /\ [Next]_vars => IInv'
  BY IInvNext
<1> QED BY IInvInit, <1>3, <1>4, PTL DEF Spec, FailureChangesNothing

\* The bitmaps implement the allocator callers see: every step takes a run of
\* usable frames nobody holds, gives frames back, or changes nobody's grants.
THEOREM Implements ==
  ASSUME Counts \subseteq BlockSizes
  PROVE  Spec => ImplementsFrameAllocator
<1>1. Init => Abstract!Init
  BY DEF Init, Abstract!Init
<1>2. ASSUME IInv, [Next]_vars  PROVE [Abstract!Next]_grants
  <2>1. ASSUME NEW count \in Counts, PMM_GetFrames(count)
        PROVE  [Abstract!Next]_grants
    <3> DEFINE a == GetAddress(bitmaps, count)
               g == [base |-> a, count |-> count]
    <3>1. /\ IsBitmaps(bitmaps) /\ FreeOnce(bitmaps)
          /\ 0 \notin FreeFramesOf(bitmaps) /\ count \in BlockSizes
      BY <1>2, FrameZeroNotFree DEF IInv, TypeOK, FreeOnOneLevel, FreeFrames
    <3>2. a = 0 \/ (a \in Frames /\ a .. (a + count - 1) \subseteq FreeFrames)
      BY <3>1, GetBlock DEF FreeFrames
    <3>3. grants' = IF a = 0 THEN grants ELSE grants \cup {g}
      BY <2>1 DEF PMM_GetFrames
    <3> HIDE DEF a
    <3>4. CASE a = 0
      BY <3>3, <3>4
    <3>5. CASE a # 0
      <4>1. Abstract!Run(g) = a .. (a + count - 1)
        BY DEF Abstract!Run
      <4>2. a .. (a + count - 1) \subseteq Usable /\ a \in Usable
        BY <1>2, <3>1, <3>2, <3>5 DEF IInv, OnlyUsable, BlockSizes, Frames
      <4>3. ASSUME NEW h \in grants
            PROVE  Abstract!Run(g) \cap Abstract!Run(h) = {}
        <5>1. Abstract!Run(h) = FramesOf(h)
          BY DEF Abstract!Run, FramesOf
        <5> QED BY <1>2, <3>2, <3>5, <4>1, <5>1, GrantInMemory
      <4>4. Abstract!Get(a, count)
        BY <3>3, <3>5, <4>1, <4>2, <4>3 DEF Abstract!Get
      <4> QED BY <4>2, <4>4 DEF Abstract!Next
    <3> QED BY <3>4, <3>5
  <2>2. ASSUME NEW g \in grants, PMM_FreeFrames(g)
        PROVE  [Abstract!Next]_grants
    BY <2>2 DEF PMM_FreeFrames, Abstract!Next, Abstract!Free
  <2>3. ASSUME NEW g \in grants, PMM_FreeFirstFrame(g)
        PROVE  [Abstract!Next]_grants
    BY <2>3 DEF PMM_FreeFirstFrame, Abstract!Next, Abstract!FreeFirst
  <2>4. CASE UNCHANGED vars
    BY <2>4 DEF vars
  <2> QED BY <1>2, <2>1, <2>2, <2>3, <2>4 DEF Next
<1>3. IInv /\ [Next]_vars => IInv'
  BY IInvNext
<1> QED BY IInvInit, <1>1, <1>2, <1>3, PTL
        DEF Spec, ImplementsFrameAllocator, Abstract!Spec

\* In every reachable state the bitmaps are bitmaps of this memory and the
\* blocks callers hold are runs of 1 to 16 of its frames.
THEOREM TypeCorrect ==
  ASSUME Counts \subseteq BlockSizes
  PROVE  Spec => []TypeOK
BY AllocatorSafe, PTL

-----------------------------------------------------------------------------
(***************************************************************************)
(* Coalescing goes as far as it can.  Inductive is that no two buddies are *)
(* clear at the same time on a level below 4: splitting leaves one clear   *)
(* bit on a level that had none, and the recursion of PPM_FreeAndCoalesce  *)
(* stops only where the buddy is used.                                     *)
(***************************************************************************)
NoTwoBuddies(bm) == \A l \in 0..3 : \A b \in bm[l] : BuddyOf(b) \notin bm[l]

LEMMA BuddyFacts ==
  ASSUME NEW b \in Nat
  PROVE  BuddyOf(b) \in Nat /\ BuddyOf(b) # b /\ BuddyOf(BuddyOf(b)) = b
BY DEF BuddyOf

\* Buddies that are both clear would be a free block no higher bit covers.
LEMMA CoalescedHasNoBuddies ==
  ASSUME NEW bm, IsBitmaps(bm), FreeOnce(bm), Coalesced(bm)
  PROVE  NoTwoBuddies(bm)
<1> SUFFICES ASSUME NEW l \in 0..3, NEW b \in bm[l], BuddyOf(b) \in bm[l]
             PROVE  FALSE
  BY DEF NoTwoBuddies
<1>1. l \in Levels /\ l + 1 \in Levels /\ b \in Bits(l) /\ BuddyOf(b) \in Bits(l) /\ b \in Nat
  BY RangeInFrames DEF Levels, IsBitmaps
<1> DEFINE h == BitOf(l + 1, b * Size(l))
<1>2. h \in Bits(l + 1) /\ b * Size(l) \in Frames
  <2>1. b * Size(l) \in Frames
    BY <1>1, FrameCountAssumption DEF Levels, Size, Bits, Frames
  <2> QED BY <1>1, <2>1, BitInRange
<1>3. \A f \in Frames : f \in Span(l + 1, h) <=> BitOf(l, f) = b \/ BitOf(l, f) = BuddyOf(b)
  BY <1>1 DEF Frames, Span, Size, BitOf, BuddyOf
<1>4. Span(l + 1, h) \subseteq FreeFramesOf(bm)
  <2>1. Span(l + 1, h) \subseteq Frames
    <3>1. h \in Nat /\ h * Size(l + 1) + Size(l + 1) <= FrameCount
      BY <1>1, <1>2, RangeInFrames
    <3>2. Size(l + 1) \in Nat /\ h * Size(l + 1) \in Nat
      BY <1>1, <3>1 DEF Size
    <3> QED BY <3>1, <3>2, FrameCountAssumption DEF Span, Frames
  <2> QED BY <1>1, <1>3, <2>1 DEF FreeFramesOf
<1>5. PICK k \in Levels : k >= l + 1 /\ BitOf(k, h * Size(l + 1)) \in bm[k]
  BY <1>1, <1>2, <1>4 DEF Coalesced
<1>6. BitOf(k, b * Size(l)) = BitOf(k, h * Size(l + 1)) /\ BitOf(l, b * Size(l)) = b
  BY <1>1, <1>5 DEF Levels, Size, BitOf
<1>7. k = l
  BY <1>1, <1>2, <1>5, <1>6 DEF FreeOnce
<1> QED BY <1>5, <1>7 DEF Levels

\* A block that is wholly free is covered by one bit: on each level, two
\* halves that are both covered are covered by one bit of a higher level.
LEMMA NoBuddiesIsCoalesced ==
  ASSUME NEW bm, IsBitmaps(bm), NoTwoBuddies(bm)
  PROVE  Coalesced(bm)
<1> DEFINE free == FreeFramesOf(bm)
           Covered(l, b) == \E k \in Levels : k >= l /\ BitOf(k, b * Size(l)) \in bm[k]
           All(l) == \A b \in Bits(l) : Span(l, b) \subseteq free => Covered(l, b)
<1>1. All(0)
  <2> SUFFICES ASSUME NEW b \in Bits(0), Span(0, b) \subseteq free
               PROVE  Covered(0, b)
    OBVIOUS
  <2>1. b * Size(0) \in Span(0, b)
    BY DEF Bits, Span, Size
  <2>2. PICK k \in Levels : BitOf(k, b * Size(0)) \in bm[k]
    BY <2>1 DEF FreeFramesOf
  <2> QED BY <2>2 DEF Levels
<1>2. ASSUME NEW l \in 0..3, All(l)
      PROVE  All(l + 1)
  <2> SUFFICES ASSUME NEW b \in Bits(l + 1), Span(l + 1, b) \subseteq free
               PROVE  Covered(l + 1, b)
    OBVIOUS
  <2>1. /\ l \in Levels /\ l + 1 \in Levels
        /\ b \in Nat /\ 2 * b \in Bits(l) /\ 2 * b + 1 \in Bits(l)
    BY FrameCountAssumption DEF Levels, Bits, Size
  <2>2. Span(l, 2 * b) \subseteq Span(l + 1, b) /\ Span(l, 2 * b + 1) \subseteq Span(l + 1, b)
    BY <2>1 DEF Span, Size
  <2>3. Covered(l, 2 * b) /\ Covered(l, 2 * b + 1)
    BY <1>2, <2>1, <2>2
  <2>4. PICK k, m \in Levels : /\ k >= l /\ BitOf(k, (2 * b) * Size(l)) \in bm[k]
                               /\ m >= l /\ BitOf(m, (2 * b + 1) * Size(l)) \in bm[m]
    BY <2>3
  <2>5. /\ k > l => BitOf(k, (2 * b) * Size(l)) = BitOf(k, b * Size(l + 1))
        /\ m > l => BitOf(m, (2 * b + 1) * Size(l)) = BitOf(m, b * Size(l + 1))
    BY <2>1, <2>4 DEF Levels, BitOf, Size
  <2>6. ASSUME k = l, m = l PROVE FALSE
    <3>1. BitOf(l, (2 * b) * Size(l)) = 2 * b /\ BitOf(l, (2 * b + 1) * Size(l)) = 2 * b + 1
      BY <2>1, BitAddress
    <3>2. BuddyOf(2 * b) = 2 * b + 1
      BY <2>1 DEF BuddyOf
    <3> QED BY <2>4, <2>6, <3>1, <3>2 DEF NoTwoBuddies
  <2>7. k >= l + 1 \/ m >= l + 1
    BY <2>4, <2>6 DEF Levels
  <2> QED BY <2>4, <2>5, <2>7 DEF Levels
<1>3. \A l \in Levels : All(l)
  <2> HIDE DEF All
  <2>1. All(0) /\ All(0 + 1) /\ All(1 + 1) /\ All(2 + 1) /\ All(3 + 1)
    <3>1. All(0 + 1)
      BY <1>1, <1>2
    <3>2. All(1 + 1)
      BY <3>1, <1>2
    <3>3. All(2 + 1)
      BY <3>2, <1>2
    <3>4. All(3 + 1)
      BY <3>3, <1>2
    <3> QED BY <1>1, <3>1, <3>2, <3>3, <3>4
  <2> QED BY <2>1 DEF Levels
<1> QED BY <1>3 DEF Coalesced

\* Taking a block leaves no two buddies clear.
LEMMA GetKeepsNoBuddies ==
  ASSUME NEW bm, IsBitmaps(bm), NoTwoBuddies(bm), FrameZeroUsed(bm), NEW count \in BlockSizes
  PROVE  NoTwoBuddies(AfterGet(bm, count))
<1> DEFINE level == LevelFor(count)
           new == AfterSplit(bm, level)
<1>1. level \in Levels /\ ~ (count > MaxCount) /\ \A a : GiveBack(count, a) = {}
  BY DEF BlockSizes, LevelFor, Levels, MaxCount, Size, GiveBack
<1>2. AfterGet(bm, count) = ClearBits(new, {})
  BY <1>1 DEF AfterGet
<1>3. \A l \in Levels : AfterGet(bm, count)[l] = new[l]
  BY <1>2 DEF ClearBits
<1> HIDE DEF level, new
<1>4. CASE ~HasFreeFrom(bm, level)
  BY <1>3, <1>4 DEF new, AfterSplit, NoTwoBuddies, Levels
<1>5. CASE HasFreeFrom(bm, level)
  <2> DEFINE a == FoundAddress(bm, level)
             j == FoundLevel(bm, level)
  <2>1. j \in Levels /\ BitOf(j, a) \in bm[j] /\ a \in Nat
    BY <1>1, <1>5, FoundBlock DEF Levels, Frames
  <2>2. a # 0
    <3>1. BitOf(j, 0) = 0
      BY <2>1 DEF BitOf, Levels, Size
    <3> QED BY <2>1, <3>1 DEF FrameZeroUsed
  <2>3. ASSUME NEW l \in 0..3
        PROVE  new[l] \subseteq bm[l] \/ \E b \in Nat : new[l] = {b}
    <3>1. l \in Levels /\ BitOf(l, a + Size(l)) \in Nat
      BY <2>1 DEF Levels, BitOf, Size
    <3>2. new[l] = IF l = j THEN bm[l] \ {BitOf(l, a)}
                   ELSE IF level <= l /\ l < j THEN {BitOf(l, a + Size(l))}
                   ELSE bm[l]
      BY <1>1, <1>5, <2>2, <3>1, SplitBits DEF new
    <3> QED BY <3>1, <3>2
  <2>4. ASSUME NEW l \in 0..3, NEW b \in new[l]
        PROVE  BuddyOf(b) \notin new[l]
    BY <2>3, <2>4, BuddyFacts DEF NoTwoBuddies
  <2> QED BY <1>3, <2>4 DEF NoTwoBuddies, Levels
<1> QED BY <1>4, <1>5

\* Giving a block back leaves no two buddies clear.
LEMMA FreeKeepsNoBuddies ==
  ASSUME NEW bm, IsBitmaps(bm), NoTwoBuddies(bm), NEW count \in BlockSizes,
         NEW a \in Frames, a % count = 0
  PROVE  NoTwoBuddies(AfterFree(bm, a, count))
<1>1. CASE count = 16
  <2>1. AfterFree(bm, a, count) = [bm EXCEPT ![4] = @ \cup {BitOf(4, a)}]
    <3>1. \A l \in 0..3 : ~HasBit(count, l)
      BY <1>1 DEF HasBit, Size
    <3> QED BY <1>1, <3>1 DEF AfterFree, FreePart, Before
  <2>2. \A l \in 0..3 : AfterFree(bm, a, count)[l] = bm[l]
    BY <2>1 DEF IsBitmaps, Levels
  <2> QED BY <2>2 DEF NoTwoBuddies
<1>2. CASE count # 16
  <2> PICK level \in 0..3 : AfterFree(bm, a, count) = FreeAndCoalesce(bm, level, a)
    BY <1>2, SmallBlock
  <2> DEFINE top == TopLevel(bm, level, a)
  <2>1. a \in Nat /\ level \in Levels
    BY DEF Frames, Levels
  <2>2. top \in level..5 /\ (top = 5 \/ BuddyOf(BitOf(top, a)) \notin bm[top])
    BY <2>1, TopLevelStops DEF BuddyFree
  <2>3. \A l \in 0..3 : IF l = top THEN FreeAndCoalesce(bm, level, a)[l] = bm[l] \cup {BitOf(l, a)}
                        ELSE FreeAndCoalesce(bm, level, a)[l] \subseteq bm[l]
    BY <2>2 DEF FreeAndCoalesce, Levels
  <2> HIDE DEF top
  <2>4. ASSUME NEW l \in 0..3, NEW b \in FreeAndCoalesce(bm, level, a)[l]
        PROVE  BuddyOf(b) \notin FreeAndCoalesce(bm, level, a)[l]
    <3>1. CASE l = top
      <4>1. BitOf(l, a) \in Nat
        BY <2>1 DEF BitOf, Size
      <4>2. bm[l] \subseteq Nat
        BY DEF IsBitmaps, Levels
      <4> QED BY <2>2, <2>3, <2>4, <3>1, <4>1, <4>2, BuddyFacts DEF NoTwoBuddies
    <3>2. CASE l # top
      BY <2>3, <2>4, <3>2 DEF NoTwoBuddies
    <3> QED BY <3>1, <3>2
  <2> QED BY <2>4 DEF NoTwoBuddies
<1> QED BY <1>1, <1>2

\* When the memory PMM_Init leaves is coalesced and callers ask for whole
\* blocks, a wholly free block is always covered by one clear bit, so no
\* request fails because its frames are there but in two halves.
THEOREM CoalescesFully ==
  ASSUME Counts \subseteq BlockSizes, Coalesced(BootBitmaps)
  PROVE  Spec => []MaximallyCoalesced
<1> DEFINE CInv == IInv /\ NoTwoBuddies(bitmaps)
<1>1. Init => CInv
  BY IInvInit, CoalescedHasNoBuddies, BootAssumption DEF Init
<1>2. ASSUME CInv, [Next]_vars PROVE CInv'
  <2>1. IsBitmaps(bitmaps) /\ FrameZeroUsed(bitmaps)
    <3>1. \A l \in Levels : BitOf(l, 0) = 0
      BY DEF Levels, BitOf, Size
    <3>2. 0 \in Frames \/ \A l \in Levels : Bits(l) = {}
      BY FrameCountAssumption DEF Frames, Levels, Bits, Size
    <3> QED BY <1>2, <3>1, <3>2, FrameZeroNotFree
            DEF IInv, TypeOK, IsBitmaps, FreeFrames, FreeFramesOf, FrameZeroUsed
  <2>2. ASSUME NEW count \in Counts, PMM_GetFrames(count) PROVE NoTwoBuddies(bitmaps')
    BY <1>2, <2>1, <2>2, GetKeepsNoBuddies DEF PMM_GetFrames
  <2>3. ASSUME NEW g \in grants, NEW count \in BlockSizes, g.base % count = 0,
               FreeEffect(g.base, count)
        PROVE  NoTwoBuddies(bitmaps')
    BY <1>2, <2>1, <2>3, GrantInMemory, FreeKeepsNoBuddies DEF FreeEffect
  <2>4. ASSUME NEW g \in grants, PMM_FreeFrames(g) PROVE NoTwoBuddies(bitmaps')
    <3>1. g.count \in BlockSizes /\ FreeEffect(g.base, g.count)
      BY <2>4 DEF PMM_FreeFrames
    <3>2. \A c \in BlockSizes : Size(LevelFor(c)) = c
      BY DEF BlockSizes, LevelFor, Size
    <3> QED BY <2>3, <2>4, <3>1, <3>2 DEF PMM_FreeFrames
  <2>5. ASSUME NEW g \in grants, PMM_FreeFirstFrame(g) PROVE NoTwoBuddies(bitmaps')
    <3>1. 1 \in BlockSizes /\ g.base % 1 = 0
      BY <1>2, GrantInMemory DEF BlockSizes, Frames
    <3> QED BY <2>3, <2>5, <3>1 DEF PMM_FreeFirstFrame
  <2>6. ASSUME UNCHANGED vars PROVE NoTwoBuddies(bitmaps')
    <3>1. bitmaps' = bitmaps
      BY <2>6 DEF vars
    <3> QED BY <1>2, <3>1
  <2>7. NoTwoBuddies(bitmaps')
    BY <1>2, <2>2, <2>4, <2>5, <2>6 DEF Next
  <2> QED BY <1>2, <2>7, IInvNext
<1>3. CInv => MaximallyCoalesced
  BY NoBuddiesIsCoalesced DEF IInv, TypeOK, MaximallyCoalesced
<1> QED BY <1>1, <1>2, <1>3, PTL DEF Spec

-----------------------------------------------------------------------------
(***************************************************************************)
(* The page tables: module VMM.  What `|' makes of two frame numbers.      *)
(***************************************************************************)

\* The sizes, one by one.
LEMMA FrameNumberBits == FrameCount \in { 2^i : i \in 4..20 }
BY SizesAssumption, SMT

LEMMA SizeFacts ==
  /\ PageCount \in Nat /\ TableSize \in Nat /\ TableSize > 0 /\ FirstPage \in Nat
  /\ 1 <= FirstPage /\ FirstPage < PageCount /\ PageCount <= 2 * FirstPage
  /\ PageCount % TableSize = 0
  /\ FrameCount \in Nat /\ 16 <= FrameCount /\ PageCount <= FrameCount
<1>1. FrameCount \in Nat /\ 16 <= FrameCount
  BY FrameNumberBits, SMT
<1> QED BY <1>1, SizesAssumption, SMT

\* The sizes of numbers of up to four, and of up to eight, bits.
FourBits == {1, 2, 4, 8}
EightBits == {1, 2, 4, 8, 16, 32, 64, 128}

\* Of four bits, and of fewer when both numbers have fewer.
LEMMA OrOfFour ==
  ASSUME NEW a \in Nat, NEW b \in Nat, a < 16, b < 16
  PROVE  /\ Or4(a, b) \in Nat /\ Or4(a, b) < 16 /\ Or4(0, b) = b
         /\ \A w \in FourBits : a < w /\ b < w => Or4(a, b) < w
<1>1. ASSUME NEW x \in 0..3, NEW y \in 0..3
      PROVE  /\ Or2(x, y) \in 0..3 /\ Or2(0, y) = y
             /\ \A w \in {1, 2} : x < w /\ y < w => Or2(x, y) < w
  BY DEF Or2, OrBit
<1>2. /\ a \div 4 \in 0..3 /\ a % 4 \in 0..3 /\ a = 4 * (a \div 4) + (a % 4)
      /\ b \div 4 \in 0..3 /\ b % 4 \in 0..3 /\ b = 4 * (b \div 4) + (b % 4)
  OBVIOUS
<1>3. Or4(0, b) = b
  BY <1>1, <1>2 DEF Or4
<1>4. Or4(a, b) \in Nat /\ Or4(a, b) < 16
  BY <1>1, <1>2 DEF Or4
<1>5. ASSUME NEW w \in FourBits, a < w, b < w PROVE Or4(a, b) < w
  <2>1. CASE w \in {1, 2, 4}
    <3>1. a \div 4 = 0 /\ b \div 4 = 0 /\ a % 4 = a /\ b % 4 = b
      BY <1>5, <2>1
    <3>2. Or2(0, 0) = 0
      BY <1>1
    <3> QED BY <1>1, <1>2, <1>5, <2>1, <3>1, <3>2 DEF Or4
  <2>2. CASE w = 8
    <3>1. a \div 4 < 2 /\ b \div 4 < 2
      BY <1>5, <2>2
    <3>2. Or2(a \div 4, b \div 4) < 2 /\ Or2(a % 4, b % 4) <= 3 /\ Or2(a \div 4, b \div 4) \in 0..3 /\ Or2(a % 4, b % 4) \in 0..3
      BY <1>1, <1>2, <3>1
    <3> QED BY <2>2, <3>2 DEF Or4
  <2> QED BY <2>1, <2>2 DEF FourBits
<1> QED BY <1>3, <1>4, <1>5

\* Of eight bits, and fewer.
LEMMA OrOfEight ==
  ASSUME NEW a \in Nat, NEW b \in Nat, a < 256, b < 256
  PROVE  /\ Or8(a, b) \in Nat /\ Or8(a, b) < 256 /\ Or8(0, b) = b
         /\ \A w \in EightBits : a < w /\ b < w => Or8(a, b) < w
<1> DEFINE H == Or4(a \div 16, b \div 16)
           L == Or4(a % 16, b % 16)
<1>1. /\ a \div 16 \in Nat /\ a \div 16 < 16 /\ a % 16 \in Nat /\ a % 16 < 16
      /\ b \div 16 \in Nat /\ b \div 16 < 16 /\ b % 16 \in Nat /\ b % 16 < 16
      /\ a = 16 * (a \div 16) + (a % 16) /\ b = 16 * (b \div 16) + (b % 16)
      /\ 0 \in Nat /\ 0 < 16
  OBVIOUS
<1>2. /\ H \in Nat /\ H < 16 /\ L \in Nat /\ L < 16
      /\ \A w \in FourBits : a \div 16 < w /\ b \div 16 < w => H < w
      /\ \A w \in FourBits : a % 16 < w /\ b % 16 < w => L < w
      /\ Or4(0, b \div 16) = b \div 16 /\ Or4(0, b % 16) = b % 16 /\ Or4(0, 0) = 0
  <2>1. /\ H \in Nat /\ H < 16
        /\ \A w \in FourBits : a \div 16 < w /\ b \div 16 < w => H < w
    BY <1>1, OrOfFour, SMT
  <2>2. /\ L \in Nat /\ L < 16
        /\ \A w \in FourBits : a % 16 < w /\ b % 16 < w => L < w
    BY <1>1, OrOfFour, SMT
  <2>3. \A x \in Nat : x < 16 => Or4(0, x) = x
    BY OrOfFour, SMT
  <2> QED BY <1>1, <2>1, <2>2, <2>3, SMT
<1>3. Or8(a, b) = 16 * H + L
  BY DEF Or8
<1>4. Or8(0, b) = 16 * Or4(0, b \div 16) + Or4(0, b % 16)
  BY DEF Or8
<1> HIDE DEF H, L
<1>5. ASSUME NEW w \in FourBits
      PROVE  /\ a < w /\ b < w => Or8(a, b) < w
             /\ a < 16 * w /\ b < 16 * w => Or8(a, b) < 16 * w
  <2>1. CASE a < w /\ b < w
    <3>1. a \div 16 = 0 /\ b \div 16 = 0 /\ a % 16 = a /\ b % 16 = b
      BY <2>1 DEF FourBits
    <3>2. H = 0
      BY <1>2, <3>1 DEF H
    <3> QED BY <1>2, <1>3, <2>1, <3>1, <3>2 DEF FourBits
  <2>2. CASE a < 16 * w /\ b < 16 * w
    <3>1. a \div 16 < w /\ b \div 16 < w
      BY <2>2 DEF FourBits
    <3>2. H < w
      BY <1>2, <3>1
    <3> QED BY <1>2, <1>3, <2>2, <3>2 DEF FourBits
  <2> QED BY <2>1, <2>2
<1> QED BY <1>1, <1>2, <1>3, <1>4, <1>5 DEF FourBits, EightBits
\* Of sixteen bits, and fewer.
LEMMA OrOfSixteen ==
  ASSUME NEW a \in Nat, NEW b \in Nat, a < 256 * 256, b < 256 * 256
  PROVE  /\ Or16(a, b) \in Nat /\ Or16(a, b) < 256 * 256 /\ Or16(0, b) = b
         /\ \A w \in EightBits :
              /\ a < w /\ b < w => Or16(a, b) < w
              /\ a < 256 * w /\ b < 256 * w => Or16(a, b) < 256 * w
<1>1. /\ a \div 256 \in Nat /\ a \div 256 < 256 /\ a % 256 \in Nat /\ a % 256 < 256
      /\ b \div 256 \in Nat /\ b \div 256 < 256 /\ b % 256 \in Nat /\ b % 256 < 256
      /\ b = 256 * (b \div 256) + (b % 256)
  OBVIOUS
<1>2. PICK h, l : /\ h = Or8(a \div 256, b \div 256)
                  /\ l = Or8(a % 256, b % 256)
  OBVIOUS
<1>3. /\ h \in Nat /\ h < 256 /\ l \in Nat /\ l < 256
      /\ \A w \in EightBits :
           /\ a \div 256 < w /\ b \div 256 < w => h < w
           /\ a % 256 < w /\ b % 256 < w => l < w
      /\ Or8(0, b \div 256) = b \div 256 /\ Or8(0, b % 256) = b % 256 /\ Or8(0, 0) = 0
  <2>1. /\ h \in Nat /\ h < 256
        /\ \A w \in EightBits :
             a \div 256 < w /\ b \div 256 < w => h < w
    BY <1>1, <1>2, OrOfEight, SMT
  <2>2. /\ l \in Nat /\ l < 256
        /\ \A w \in EightBits :
             a % 256 < w /\ b % 256 < w => l < w
    BY <1>1, <1>2, OrOfEight, SMT
  <2>3. \A x \in Nat : x < 256 => Or8(0, x) = x
    BY OrOfEight, SMT
  <2> QED BY <1>1, <2>1, <2>2, <2>3, SMT
<1>4. /\ Or16(a, b) = 256 * h + l
      /\ Or16(0, b) = 256 * Or8(0, b \div 256) + Or8(0, b % 256)
  BY <1>2 DEF Or16
<1>5. ASSUME NEW w \in EightBits
      PROVE  /\ a < w /\ b < w => Or16(a, b) < w
             /\ a < 256 * w /\ b < 256 * w => Or16(a, b) < 256 * w
  <2>1. CASE a < w /\ b < w
    <3>1. a \div 256 = 0 /\ b \div 256 = 0 /\ a % 256 = a /\ b % 256 = b
      BY <2>1 DEF EightBits
    <3>2. h = 0
      BY <1>2, <1>3, <3>1
    <3> QED BY <1>3, <1>4, <2>1, <3>1, <3>2 DEF EightBits
  <2>2. CASE a < 256 * w /\ b < 256 * w
    <3>1. a \div 256 < w /\ b \div 256 < w
      BY <2>2 DEF EightBits
    <3>2. h < w
      BY <1>3, <3>1
    <3> QED BY <1>3, <1>4, <2>2, <3>2 DEF EightBits
  <2> QED BY <2>1, <2>2
<1> QED BY <1>1, <1>3, <1>4, <1>5

\* The result is the number of a frame, and a number or-ed over 0 is stored
\* as it is.
LEMMA OrOfFrames ==
  ASSUME NEW a \in Frames, NEW b \in Frames
  PROVE  BitOr(a, b) \in Frames /\ BitOr(0, b) = b
<1>1. \/ \E w \in EightBits : FrameCount = w \/ FrameCount = 256 * w
      \/ \E w \in {1, 2, 4, 8, 16} : FrameCount = 65536 * w
  BY FrameNumberBits, SMT DEF EightBits
<1>2. /\ a \in Nat /\ b \in Nat /\ a < FrameCount /\ b < FrameCount
      /\ FrameCount \in Nat /\ FrameCount <= 16 * 65536
  BY <1>1, SMT DEF Frames, EightBits
<1>3. /\ a \div 65536 \in Nat /\ a \div 65536 < 16 /\ a % 65536 \in Nat /\ a % 65536 < 256 * 256
      /\ b \div 65536 \in Nat /\ b \div 65536 < 16 /\ b % 65536 \in Nat /\ b % 65536 < 256 * 256
      /\ b = 65536 * (b \div 65536) + (b % 65536)
  BY <1>2, SMT
<1>4. PICK h, l : /\ h = Or4(a \div 65536, b \div 65536)
                  /\ l = Or16(a % 65536, b % 65536)
  BY SMT
<1>5. /\ h \in Nat /\ h < 16 /\ l \in Nat /\ l < 256 * 256 /\ Or4(0, 0) = 0
      /\ \A w \in FourBits : a \div 65536 < w /\ b \div 65536 < w => h < w
      /\ \A w \in EightBits :
           /\ a % 65536 < w /\ b % 65536 < w => l < w
           /\ a % 65536 < 256 * w /\ b % 65536 < 256 * w => l < 256 * w
      /\ Or4(0, b \div 65536) = b \div 65536 /\ Or16(0, b % 65536) = b % 65536
  <2>1. /\ h \in Nat /\ h < 16
        /\ \A w \in FourBits : a \div 65536 < w /\ b \div 65536 < w => h < w
    BY <1>3, <1>4, OrOfFour, SMT
  <2>2. \A x \in Nat : x < 16 => Or4(0, x) = x
    BY OrOfFour, SMT
  <2>3. /\ l \in Nat /\ l < 256 * 256
        /\ \A w \in EightBits :
             /\ a % 65536 < w /\ b % 65536 < w => l < w
             /\ a % 65536 < 256 * w /\ b % 65536 < 256 * w => l < 256 * w
    <3>1. PICK x, y : x = a % 65536 /\ y = b % 65536
      BY SMT
    <3>2. x \in Nat /\ x < 256 * 256 /\ y \in Nat /\ y < 256 * 256 /\ l = Or16(x, y)
      BY <1>3, <1>4, <3>1, SMT
    <3>3. /\ l \in Nat /\ l < 256 * 256
          /\ \A w \in EightBits : /\ x < w /\ y < w => l < w
                                  /\ x < 256 * w /\ y < 256 * w => l < 256 * w
      <4>1. Or16(x, y) \in Nat /\ Or16(x, y) < 256 * 256
        BY <3>2, OrOfSixteen, SMT
      <4>2. \A w \in EightBits : x < w /\ y < w => Or16(x, y) < w
        BY <3>2, OrOfSixteen, SMT
      <4>3. \A w \in EightBits :
              x < 256 * w /\ y < 256 * w => Or16(x, y) < 256 * w
        BY <3>2, OrOfSixteen, SMT
      <4> QED BY <3>2, <4>1, <4>2, <4>3, SMT
    <3> QED BY <3>1, <3>3, SMT
  <2>4. Or16(0, b % 65536) = b % 65536
    BY <1>3, OrOfSixteen, SMT
  <2> QED BY <1>3, <2>1, <2>2, <2>3, <2>4, SMT
<1>6. /\ BitOr(a, b) = 65536 * h + l
      /\ BitOr(0, b) = 65536 * Or4(0, b \div 65536) + Or16(0, b % 65536)
  BY <1>4, SMT DEF BitOr
<1>7. BitOr(a, b) < FrameCount
  <2>1. CASE \E w \in EightBits : FrameCount = w \/ FrameCount = 256 * w
    <3>1. a \div 65536 = 0 /\ b \div 65536 = 0 /\ a % 65536 = a /\ b % 65536 = b
      BY <1>2, <2>1, SMT DEF EightBits
    <3>2. h = 0 /\ l < FrameCount
      BY <1>2, <1>4, <1>5, <2>1, <3>1, SMT
    <3> QED BY <1>2, <1>5, <1>6, <3>2, SMT
  <2>2. CASE \E w \in {1, 2, 4, 8, 16} : FrameCount = 65536 * w
    <3>1. PICK w \in {1, 2, 4, 8, 16} : FrameCount = 65536 * w
      BY <2>2, SMT
    <3>2. a \div 65536 < w /\ b \div 65536 < w
      BY <1>2, <3>1, SMT
    <3>3. h < w
      BY <1>5, <3>1, <3>2, SMT DEF FourBits
    <3> QED BY <1>2, <1>5, <1>6, <3>1, <3>3, SMT
  <2> QED BY <1>1, <2>1, <2>2, SMT
<1> QED BY <1>2, <1>3, <1>5, <1>6, <1>7, SMT DEF Frames

\* Splitting a block leaves bitmaps, whatever they say.
LEMMA SplitTyped ==
  ASSUME NEW bm, IsBitmaps(bm), NEW level \in Levels
  PROVE  IsBitmaps(AfterSplit(bm, level))
<1>1. CASE ~HasFreeFrom(bm, level)
  BY <1>1 DEF AfterSplit
<1>2. CASE HasFreeFrom(bm, level)
  <2> DEFINE j == FoundLevel(bm, level)
             a == FoundAddress(bm, level)
             new == AfterSplit(bm, level)
  <2>1. /\ j \in level..4 /\ a \in Frames /\ a + Size(j) <= FrameCount
    BY <1>2, FoundBlock
  <2>2. \A k \in Levels :
          \/ new[k] \subseteq bm[k]
          \/ k < j /\ new[k] = (bm[k] \ {BitOf(k, a)}) \cup {BitOf(k, a + Size(k))}
    BY <1>2 DEF AfterSplit
  <2>3. new = [k \in Levels |-> new[k]]
    BY <1>2 DEF AfterSplit
  <2> HIDE DEF j, a, new
  <2>4. ASSUME NEW k \in Levels PROVE new[k] \subseteq Bits(k)
    <3>1. bm[k] \subseteq Bits(k)
      BY DEF IsBitmaps
    <3>2. k < j => a + Size(k) \in Frames
      BY <2>1, FrameCountAssumption DEF Levels, Size, Frames
    <3>3. k < j => BitOf(k, a + Size(k)) \in Bits(k)
      BY <3>2, BitInRange
    <3> QED BY <2>2, <3>1, <3>3
  <2> QED BY <2>3, <2>4, BitmapsAre DEF new
<1> QED BY <1>1, <1>2

\* A request leaves bitmaps, and what it returns are frames, or 0.
LEMMA GetTyped ==
  ASSUME NEW bm, IsBitmaps(bm), NEW count \in Nat \ {0}
  PROVE  /\ IsBitmaps(AfterGet(bm, count))
         /\ GetAddress(bm, count) \in Frames
         /\ GetAddress(bm, count) = 0 \/ GetAddress(bm, count) + count <= FrameCount
<1>1. 0 \in Frames
  BY SizeFacts DEF Frames
<1>2. CASE count > MaxCount
  BY <1>1, <1>2 DEF AfterGet, GetAddress
<1>3. CASE ~ (count > MaxCount)
  <2> DEFINE level == LevelFor(count)
             new == AfterSplit(bm, level)
             bits == GiveBack(count, GetAddress(bm, count))
  <2>1. level \in Levels /\ count <= Size(level)
    BY <1>3 DEF LevelFor, Size, Levels, MaxCount
  <2>2. GetAddress(bm, count) = FoundAddress(bm, level)
    BY <1>3 DEF GetAddress
  <2>3. AfterGet(bm, count) = ClearBits(new, bits)
    BY <1>3 DEF AfterGet
  <2> HIDE DEF level, bits
  <2>4. IsBitmaps(new)
    BY <2>1, SplitTyped
  <2> HIDE DEF new
  <2>5. IsBitmaps(ClearBits(new, bits))
    <3>1. ClearBits(new, bits) = [k \in Levels |-> ClearBits(new, bits)[k]]
      BY DEF ClearBits
    <3>2. \A k \in Levels : ClearBits(new, bits)[k] \subseteq Bits(k)
      BY <2>4 DEF ClearBits, IsBitmaps
    <3> QED BY <3>1, <3>2, BitmapsAre
  <2>6. CASE ~HasFreeFrom(bm, level)
    BY <1>1, <2>2, <2>3, <2>5, <2>6 DEF FoundAddress
  <2>7. CASE HasFreeFrom(bm, level)
    <3>1. /\ FoundLevel(bm, level) \in level..4 /\ FoundAddress(bm, level) \in Frames
          /\ FoundAddress(bm, level) + Size(FoundLevel(bm, level)) <= FrameCount
      BY <2>1, <2>7, FoundBlock
    <3>2. Size(level) <= Size(FoundLevel(bm, level))
      BY <2>1, <3>1 DEF Levels, Size
    <3>3. Size(level) \in Nat /\ Size(FoundLevel(bm, level)) \in Nat
      BY <2>1, <3>1 DEF Levels, Size
    <3>4. FoundAddress(bm, level) \in Nat
      BY <3>1 DEF Frames
    <3>5. FoundAddress(bm, level) + count <= FrameCount
      BY <2>1, <3>1, <3>2, <3>3, <3>4, FrameCountAssumption
    <3> QED BY <2>2, <2>3, <2>5, <3>1, <3>5
  <2> QED BY <2>6, <2>7
<1> QED BY <1>2, <1>3

\* Giving a frame back leaves bitmaps, whatever they say.
LEMMA FreeTyped ==
  ASSUME NEW bm, IsBitmaps(bm), NEW a \in Frames
  PROVE  IsBitmaps(AfterFree(bm, a, 1))
<1>1. PICK level \in 0..3 :
        /\ Size(level) = 1
        /\ AfterFree(bm, a, 1) = FreeAndCoalesce(bm, level, a)
  BY SmallBlock DEF BlockSizes
<1> DEFINE new == FreeAndCoalesce(bm, level, a)
<1>2. \A k \in Levels :
        new[k] \subseteq bm[k] \cup {BitOf(k, a)}
  BY DEF FreeAndCoalesce
<1>3. new = [k \in Levels |-> new[k]]
  BY DEF FreeAndCoalesce
<1> HIDE DEF new
<1>4. \A k \in Levels : new[k] \subseteq Bits(k)
  BY <1>2, BitInRange DEF IsBitmaps
<1> QED BY <1>1, <1>3, <1>4, BitmapsAre DEF new

-----------------------------------------------------------------------------
(***************************************************************************)
(* What each operation on the memory leaves, errors or not: well-typed     *)
(* entries, a `missed' that is never taken back, and the entries of other  *)
(* pages and tables as they were.                                          *)
(***************************************************************************)
Entries == [frame : Frames, reserved : BOOLEAN, present : BOOLEAN]

Memories == [bitmaps : { bm \in [Levels -> SUBSET Nat] : IsBitmaps(bm) },
             pages : [PageNumbers -> Entries],
             tables : [Directory -> Entries],
             missed : BOOLEAN]

\* The entry of a page is in a table of the directory.
LEMMA TableInDirectory ==
  ASSUME NEW page \in PageNumbers
  PROVE  TableOf(page) \in Directory
<1>1. PICK q : q = PageCount \div TableSize
  OBVIOUS
<1>2. PICK d : d = page \div TableSize
  OBVIOUS
<1>3. /\ q \in Nat /\ PageCount = q * TableSize
  BY <1>1, SizeFacts
<1>4. /\ page \in Nat /\ page < q * TableSize
  BY <1>3, SizeFacts DEF PageNumbers
<1>5. d \in Nat /\ d * TableSize <= page
  BY <1>2, <1>4, SizeFacts
<1>6. d < q
  <2>1. CASE q <= d
    <3>1. q * TableSize <= d * TableSize
      BY <1>3, <1>5, <2>1, SizeFacts
    <3>2. q * TableSize \in Nat /\ d * TableSize \in Nat
      BY <1>3, <1>5, SizeFacts
    <3> QED BY <1>4, <1>5, <3>1, <3>2
  <2> QED BY <1>3, <1>5, <2>1
<1> QED BY <1>1, <1>2, <1>3, <1>5, <1>6 DEF TableOf, Directory

\* The parts of a memory.
LEMMA MemoryParts ==
  ASSUME NEW m \in Memories
  PROVE  /\ m.bitmaps \in [Levels -> SUBSET Nat] /\ IsBitmaps(m.bitmaps)
         /\ m.pages \in [PageNumbers -> Entries]
         /\ m.tables \in [Directory -> Entries]
         /\ m.missed \in BOOLEAN
BY DEF Memories

\* PMM_GetFrames for a page: only the bitmaps change.
LEMMA TakeFramesLeaves ==
  ASSUME NEW m \in Memories, NEW count \in 1..PageCount
  PROVE  LET n == TakeFrames(m, count)
             f == FirstFrame(m, count)
         IN /\ n \in Memories
            /\ n.bitmaps = AfterGet(m.bitmaps, count)
            /\ n.pages = m.pages /\ n.tables = m.tables
            /\ n.missed <=> m.missed \/ f = 0
            /\ \A i \in 0..(count - 1) : f + i \in Frames
            /\ f \in Frames
<1> DEFINE n == TakeFrames(m, count)
           f == FirstFrame(m, count)
<1>1. /\ IsBitmaps(AfterGet(m.bitmaps, count)) /\ f \in Frames
      /\ f = 0 \/ f + count <= FrameCount
  BY GetTyped, MemoryParts DEF FirstFrame
<1>2. \A i \in 0..(count - 1) : f + i \in Frames
  BY <1>1, SizeFacts DEF Frames
<1>3. /\ n.bitmaps = AfterGet(m.bitmaps, count)
      /\ n.pages = m.pages /\ n.tables = m.tables
      /\ n.missed = (m.missed \/ f = 0)
  BY DEF TakeFrames, Memories
<1>4. n \in Memories
  <2>1. AfterGet(m.bitmaps, count) \in [Levels -> SUBSET Nat]
    BY <1>1 DEF IsBitmaps
  <2> QED BY <1>1, <2>1 DEF TakeFrames, Memories
<1> QED BY <1>1, <1>2, <1>3, <1>4

\* An access to an entry: its table is there afterwards, and pages are as they
\* were.
LEMMA WithTableLeaves ==
  ASSUME NEW m \in Memories, NEW page \in PageNumbers
  PROVE  LET n == WithTable(m, page)
         IN /\ n \in Memories
            /\ n.pages = m.pages
            /\ m.missed => n.missed
            /\ n.tables[TableOf(page)].present
            /\ \A d \in Directory : m.tables[d].present => n.tables[d].present
<1>1. TableOf(page) \in Directory
  BY TableInDirectory
<1>2. CASE m.tables[TableOf(page)].present
  BY <1>2 DEF WithTable
<1>3. CASE ~m.tables[TableOf(page)].present
  <2> DEFINE t == TakeFrames(m, 1)
             e == Fill(m.tables[TableOf(page)], FirstFrame(m, 1))
  <2>1. /\ t \in Memories /\ t.pages = m.pages /\ t.tables = m.tables
        /\ m.missed => t.missed
        /\ FirstFrame(m, 1) \in Frames
    BY TakeFramesLeaves, SizeFacts
  <2>2. WithTable(m, page) = [t EXCEPT !.tables[TableOf(page)] = Fill(@, FirstFrame(m, 1))]
    BY <1>3 DEF WithTable
  <2>3. m.tables[TableOf(page)].frame \in Frames
    BY <1>1, MemoryParts DEF Entries
  <2>4. e \in Entries /\ e.present
    BY <2>1, <2>3, OrOfFrames DEF Fill, Entry, Entries
  <2>5. WithTable(m, page) = [t EXCEPT !.tables[TableOf(page)] = e]
    BY <2>1, <2>2
  <2> HIDE DEF t, e
  <2> QED BY <1>1, <2>1, <2>4, <2>5 DEF Memories
<1> QED BY <1>2, <1>3

\* Mapping a page.
LEMMA MapPageLeaves ==
  ASSUME NEW m \in Memories, NEW page \in PageNumbers, NEW frame \in Frames
  PROVE  LET n == MapPage(m, page, frame)
             t == WithTable(m, page)
         IN /\ n \in Memories
            /\ n.bitmaps = t.bitmaps /\ n.tables = t.tables
            /\ \A p \in PageNumbers : p # page => n.pages[p] = m.pages[p]
            /\ n.pages[page].present
            /\ n.pages[page].reserved = m.pages[page].reserved
            /\ n.pages[page].frame = BitOr(m.pages[page].frame, frame)
            /\ n.missed <=> t.missed \/ m.pages[page].frame # 0
<1> DEFINE t == WithTable(m, page)
           e == Entry(BitOr(m.pages[page].frame, frame), m.pages[page].reserved, TRUE)
           n == MapPage(m, page, frame)
<1>1. t \in Memories /\ t.pages = m.pages
  BY WithTableLeaves
<1>2. m.pages[page] \in Entries
  BY MemoryParts
<1>3. m.pages[page].frame \in Frames
  BY <1>2 DEF Entries
<1>4. /\ e \in Entries /\ e.present
      /\ e.reserved = m.pages[page].reserved
      /\ e.frame = BitOr(m.pages[page].frame, frame)
  BY <1>2, <1>3, OrOfFrames DEF Entries, Entry
<1>5. n = [t EXCEPT !.pages[page] = e, !.missed = @ \/ m.pages[page].frame # 0]
  BY <1>1 DEF MapPage
<1> HIDE DEF t, e, n
<1>6. /\ n \in Memories
      /\ n.bitmaps = t.bitmaps /\ n.tables = t.tables
      /\ \A p \in PageNumbers : p # page => n.pages[p] = m.pages[p]
      /\ n.pages[page] = e
      /\ n.missed <=> t.missed \/ m.pages[page].frame # 0
  BY <1>1, <1>4, <1>5 DEF Memories
<1> QED BY <1>4, <1>6 DEF n, t

\* Marking a page reserved, as the loop of VMM_ReservePages does.
ReservePage(m, page) ==
  [WithTable(m, page) EXCEPT !.pages[page].reserved = TRUE,
                             !.missed = @ \/ m.pages[page].frame # 0]

LEMMA ReservePageLeaves ==
  ASSUME NEW m \in Memories, NEW page \in PageNumbers
  PROVE  LET n == ReservePage(m, page)
             t == WithTable(m, page)
         IN /\ n \in Memories
            /\ n.bitmaps = t.bitmaps /\ n.tables = t.tables
            /\ \A p \in PageNumbers : p # page => n.pages[p] = m.pages[p]
            /\ n.pages[page].present = m.pages[page].present
            /\ n.pages[page].reserved
            /\ n.pages[page].frame = m.pages[page].frame
            /\ n.missed <=> t.missed \/ m.pages[page].frame # 0
<1> DEFINE t == WithTable(m, page)
           e == [m.pages[page] EXCEPT !.reserved = TRUE]
           n == ReservePage(m, page)
<1>1. t \in Memories /\ t.pages = m.pages
  BY WithTableLeaves
<1>2. m.pages[page] \in Entries
  BY MemoryParts
<1>3. /\ e \in Entries /\ e.reserved
      /\ e.present = m.pages[page].present
      /\ e.frame = m.pages[page].frame
  BY <1>2 DEF Entries
<1>4. n = [t EXCEPT !.pages[page] = e, !.missed = @ \/ m.pages[page].frame # 0]
  BY <1>1 DEF ReservePage
<1> HIDE DEF t, e, n
<1>5. /\ n \in Memories
      /\ n.bitmaps = t.bitmaps /\ n.tables = t.tables
      /\ \A p \in PageNumbers : p # page => n.pages[p] = m.pages[p]
      /\ n.pages[page] = e
      /\ n.missed <=> t.missed \/ m.pages[page].frame # 0
  BY <1>1, <1>3, <1>4 DEF Memories
<1> QED BY <1>3, <1>5 DEF n, t

\* Unmapping a page.
LEMMA UnmapPageLeaves ==
  ASSUME NEW m \in Memories, NEW page \in PageNumbers
  PROVE  LET n == UnmapPage(m, page)
             t == WithTable(m, page)
             f == m.pages[page].frame
         IN /\ n \in Memories
            /\ n.bitmaps = AfterFree(t.bitmaps, f, 1) /\ n.tables = t.tables
            /\ \A p \in PageNumbers : p # page => n.pages[p] = m.pages[p]
            /\ ~n.pages[page].present
            /\ n.pages[page].reserved = m.pages[page].reserved
            /\ n.pages[page].frame = f
            /\ n.missed <=> \/ t.missed \/ ~m.pages[page].present
                            \/ RunsPastArray(t.bitmaps, f, 1)
<1> DEFINE t == WithTable(m, page)
           f == m.pages[page].frame
           e == [m.pages[page] EXCEPT !.present = FALSE]
           b == AfterFree(t.bitmaps, f, 1)
           n == UnmapPage(m, page)
<1>1. t \in Memories /\ t.pages = m.pages
  BY WithTableLeaves
<1>2. m.pages[page] \in Entries
  BY MemoryParts
<1>3. /\ e \in Entries /\ ~e.present
      /\ e.reserved = m.pages[page].reserved
      /\ e.frame = f /\ f \in Frames
  BY <1>2 DEF Entries
<1>4. IsBitmaps(b) /\ b \in [Levels -> SUBSET Nat]
  <2>1. IsBitmaps(t.bitmaps)
    BY <1>1, MemoryParts
  <2>2. IsBitmaps(b)
    BY <1>3, <2>1, FreeTyped
  <2> QED BY <2>2 DEF IsBitmaps
<1>5. n = [t EXCEPT !.pages[page] = e, !.bitmaps = b,
                    !.missed = @ \/ ~m.pages[page].present \/ RunsPastArray(t.bitmaps, f, 1)]
  BY <1>1 DEF UnmapPage
<1>6. RunsPastArray(t.bitmaps, f, 1) \in BOOLEAN
  BY DEF RunsPastArray
<1>7. m.pages[page].present \in BOOLEAN
  BY <1>2 DEF Entries
<1> HIDE DEF t, e, n, b, f
<1>8. /\ n \in Memories
      /\ n.bitmaps = b /\ n.tables = t.tables
      /\ \A p \in PageNumbers : p # page => n.pages[p] = m.pages[p]
      /\ n.pages[page] = e
      /\ n.missed <=> \/ t.missed \/ ~m.pages[page].present
                      \/ RunsPastArray(t.bitmaps, f, 1)
  BY <1>1, <1>3, <1>4, <1>5, <1>6, <1>7 DEF Memories
<1> QED BY <1>3, <1>8 DEF n, t, b, f

-----------------------------------------------------------------------------
(***************************************************************************)
(* The loops.  A function that is defined by what the loop does to the     *)
(* memory before exists, and says of every turn what the loop does.        *)
(***************************************************************************)

\* Counting up from 0 reaches every number.
LEMMA CountUp ==
  ASSUME NEW n \in Nat, NEW S, 0 \in S, \A i \in 1..n : i - 1 \in S => i \in S
  PROVE  \A i \in 0..n : i \in S
<1> DEFINE Rest == { i \in 0..n : i \notin S }
<1> SUFFICES ASSUME Rest # {} PROVE FALSE
  OBVIOUS
<1>1. Rest \in SUBSET Nat
  OBVIOUS
<1>2. PICK b \in Rest : \A c \in Rest : <<c, b>> \notin OpToRel(<, Nat)
  BY <1>1, NatLessThanWellFounded, WFMin, Zenon
<1>3. \A c \in Rest : ~ (c < b)
  BY <1>1, <1>2, Zenon DEF OpToRel
<1>4. b \in 1..n /\ b - 1 \in 0..n
  <2>1. b \in 0..n /\ b \notin S
    BY <1>2, Zenon
  <2>2. b # 0
    BY <2>1
  <2> QED BY <2>1, <2>2
<1>5. b - 1 \notin Rest
  BY <1>3, <1>4
<1> QED BY <1>2, <1>4, <1>5

\* A loop of n turns over memories has a state after each turn.
LEMMA LoopRuns ==
  ASSUME NEW m \in Memories, NEW n \in Nat,
         NEW step \in [1..n -> [Memories -> Memories]]
  PROVE  \E g \in [0..n -> Memories] :
           g[0] = m /\ \A i \in 1..n : g[i] = step[i][g[i - 1]]
<1> DEFINE Good(k) == \E g \in [0..k -> Memories] :
                        g[0] = m /\ \A i \in 1..k : g[i] = step[i][g[i - 1]]
           S == { k \in 0..n : Good(k) }
<1>1. 0 \in S
  <2>1. [i \in 0..0 |-> m] \in [0..0 -> Memories] /\ [i \in 0..0 |-> m][0] = m
    OBVIOUS
  <2>2. \A i \in 1..0 : FALSE
    OBVIOUS
  <2>3. Good(0)
    BY <2>1, <2>2
  <2> HIDE DEF Good
  <2> QED BY <2>3
<1>2. ASSUME NEW k \in 1..n, k - 1 \in S PROVE k \in S
  <2>1. PICK g \in [0..(k - 1) -> Memories] :
          g[0] = m /\ \A i \in 1..(k - 1) : g[i] = step[i][g[i - 1]]
    BY <1>2
  <2> DEFINE h == [i \in 0..k |-> IF i = k THEN step[k][g[k - 1]] ELSE g[i]]
  <2>2. g[k - 1] \in Memories /\ step[k][g[k - 1]] \in Memories
    BY <2>1
  <2>3. h \in [0..k -> Memories]
    BY <2>1, <2>2
  <2>4. h[0] = m
    BY <2>1
  <2>5. ASSUME NEW i \in 1..k PROVE h[i] = step[i][h[i - 1]]
    <3>1. h[i - 1] = g[i - 1]
      OBVIOUS
    <3> QED BY <2>1, <3>1
  <2> HIDE DEF h
  <2>6. Good(k)
    BY <2>3, <2>4, <2>5
  <2> HIDE DEF Good
  <2> QED BY <2>6
<1> HIDE DEF S
<1>3. n \in S
  <2>1. \A i \in 0..n : i \in S
    BY <1>1, <1>2, CountUp, Zenon
  <2> QED BY <2>1
<1> QED BY <1>3, Zenon DEF S

\* The loop of VMM_AllocatePages.
IsMapRun(after, m, base, count, contiguous) ==
  /\ after[0] = IF contiguous THEN TakeFrames(m, count) ELSE m
  /\ \A i \in 1..count :
       after[i] = IF contiguous
                  THEN MapPage(after[i - 1], base + i - 1, FirstFrame(m, count) + i - 1)
                  ELSE MapPage(TakeFrames(after[i - 1], 1), base + i - 1,
                               FirstFrame(after[i - 1], 1))
  /\ MapRun(m, base, count, contiguous) = after[count]

LEMMA MapRunTurns ==
  ASSUME NEW m \in Memories, NEW base \in Nat, NEW count \in 1..PageCount,
         base + count <= PageCount, NEW contiguous \in BOOLEAN
  PROVE  \E after \in [0..count -> Memories] :
           IsMapRun(after, m, base, count, contiguous)
<1> DEFINE first == IF contiguous THEN TakeFrames(m, count) ELSE m
           f == FirstFrame(m, count)
           Turn(i, a) == IF contiguous THEN MapPage(a, base + i - 1, f + i - 1)
                         ELSE MapPage(TakeFrames(a, 1), base + i - 1, FirstFrame(a, 1))
           Loop(g) == g = [i \in 0..count |-> IF i = 0 THEN first ELSE Turn(i, g[i - 1])]
           step == [i \in 1..count |-> [a \in Memories |-> Turn(i, a)]]
<1>1. first \in Memories
  BY TakeFramesLeaves
<1>2. ASSUME NEW i \in 1..count, NEW a \in Memories PROVE Turn(i, a) \in Memories
  <2>1. base + i - 1 \in PageNumbers
    BY SizeFacts DEF PageNumbers
  <2>2. f + i - 1 \in Frames
    <3>1. i - 1 \in 0..(count - 1) /\ f \in Nat
      BY TakeFramesLeaves DEF Frames
    <3>2. f + (i - 1) \in Frames
      BY <3>1, TakeFramesLeaves
    <3> QED BY <3>1, <3>2
  <2>3. TakeFrames(a, 1) \in Memories /\ FirstFrame(a, 1) \in Frames
    BY TakeFramesLeaves, SizeFacts
  <2> QED BY <2>1, <2>2, <2>3, MapPageLeaves
<1>3. MapRun(m, base, count, contiguous) = (CHOOSE g : Loop(g))[count]
  BY DEF MapRun
<1> HIDE DEF first, Turn
<1>0. count \in Nat
  BY SizeFacts
<1>4. step \in [1..count -> [Memories -> Memories]]
  BY <1>2
<1>5. PICK g \in [0..count -> Memories] :
        g[0] = first /\ \A i \in 1..count : g[i] = step[i][g[i - 1]]
  <2> HIDE DEF step
  <2> QED BY <1>0, <1>1, <1>4, LoopRuns, SMT
<1>6. Loop(g)
  <2>1. \A i \in 1..count : g[i] = Turn(i, g[i - 1])
    <3> SUFFICES ASSUME NEW i \in 1..count PROVE g[i] = Turn(i, g[i - 1])
      OBVIOUS
    <3>1. i - 1 \in 0..count
      BY <1>0
    <3>2. g[i - 1] \in Memories
      BY <1>5, <3>1
    <3>3. step[i][g[i - 1]] = Turn(i, g[i - 1])
      BY <3>2
    <3> QED BY <1>5, <3>3, Zenon
  <2> QED BY <1>5, <2>1
<1> DEFINE after == CHOOSE h : Loop(h)
<1>7. Loop(after)
  BY <1>6
<1> HIDE DEF after
<1>8. after[0] = first /\ \A i \in 1..count : after[i] = Turn(i, after[i - 1])
  BY <1>7
<1>9. \A i \in 0..count : after[i] \in Memories
  <2> DEFINE S == { i \in 0..count : after[i] \in Memories }
  <2>1. 0 \in S
    BY <1>1, <1>8
  <2>2. \A i \in 1..count : i - 1 \in S => i \in S
    BY <1>2, <1>8
  <2> HIDE DEF S
  <2>3. \A i \in 0..count : i \in S
    BY <1>0, <2>1, <2>2, CountUp, Zenon
  <2> QED BY <2>3 DEF S
<1>10. after \in [0..count -> Memories]
  BY <1>7, <1>9
<1>11. MapRun(m, base, count, contiguous) = after[count]
  BY <1>3, Zenon DEF after
<1> QED BY <1>8, <1>10, <1>11 DEF first, Turn, IsMapRun

\* The powers the loops divide by.
LEMMA PowersOfTwo == \A i \in 1..19 : 2^i \in Nat /\ 2^i >= 2
<1> DEFINE Good(w) == w \in Nat /\ w >= 2
<1>1. /\ Good(2^1) /\ Good(2^2) /\ Good(2^3) /\ Good(2^4) /\ Good(2^5) /\ Good(2^6) /\ Good(2^7)
      /\ Good(2^8) /\ Good(2^9) /\ Good(2^10) /\ Good(2^11) /\ Good(2^12) /\ Good(2^13) /\ Good(2^14)
      /\ Good(2^15) /\ Good(2^16) /\ Good(2^17) /\ Good(2^18) /\ Good(2^19)
  BY SMT
<1>2. ASSUME NEW i \in 1..19
      PROVE  \/ i = 1 \/ i = 2 \/ i = 3 \/ i = 4 \/ i = 5 \/ i = 6 \/ i = 7
             \/ i = 8 \/ i = 9 \/ i = 10 \/ i = 11 \/ i = 12 \/ i = 13 \/ i = 14
             \/ i = 15 \/ i = 16 \/ i = 17 \/ i = 18 \/ i = 19
  BY SMT
<1> HIDE DEF Good
<1>3. \A i \in 1..19 : Good(2^i)
  BY <1>1, <1>2, Zenon
<1> QED BY <1>3 DEF Good

\* The first turn is that of the page itself, all others are about pages in the
\* lower half of the address space, where no page of a caller is.
LEMMA ShiftedPages ==
  ASSUME NEW base \in PageNumbers
  PROVE  /\ ShiftedPage(base, 0) = base
         /\ \A i \in 0..19 : ShiftedPage(base, i) \in PageNumbers
         /\ \A i \in 1..19 : ShiftedPage(base, i) \notin Heap
<1>1. base \in Nat /\ base < PageCount
  BY SizeFacts DEF PageNumbers
<1>2. ShiftedPage(base, 0) = base
  <2>1. 2^0 = 1
    BY SMT
  <2> QED BY <1>1, <2>1 DEF ShiftedPage
<1>3. ASSUME NEW i \in 1..19
      PROVE  ShiftedPage(base, i) \in Nat /\ 2 * ShiftedPage(base, i) <= base
  <2>1. PICK w : w = 2^i
    OBVIOUS
  <2>2. w \in Nat /\ w >= 2
    BY <2>1, PowersOfTwo
  <2>3. PICK q : q = base \div w
    OBVIOUS
  <2>4. q \in Nat /\ w * q <= base
    BY <1>1, <2>2, <2>3
  <2>5. 2 * q <= w * q
    BY <2>2, <2>4
  <2>6. w * q \in Nat
    BY <2>2, <2>4
  <2> QED BY <1>1, <2>1, <2>3, <2>4, <2>5, <2>6 DEF ShiftedPage
<1>4. \A i \in 1..19 : ShiftedPage(base, i) \in PageNumbers /\ ShiftedPage(base, i) \notin Heap
  BY <1>1, <1>3, SizeFacts DEF PageNumbers, Heap
<1> QED BY <1>1, <1>2, <1>4

\* The loop of VMM_ReservePages.
IsReserveRun(after, m, base, count) ==
  /\ after[0] = m
  /\ \A i \in 1..count : after[i] = ReservePage(after[i - 1], ShiftedPage(base, i - 1))
  /\ ReserveRun(m, base, count) = after[count]

LEMMA ReserveRunTurns ==
  ASSUME NEW m \in Memories, NEW base \in PageNumbers, NEW count \in 1..20
  PROVE  \E after \in [0..count -> Memories] :
           IsReserveRun(after, m, base, count)
<1> DEFINE Turn(i, a) == ReservePage(a, ShiftedPage(base, i - 1))
           Loop(g) == g = [i \in 0..count |-> IF i = 0 THEN m ELSE Turn(i, g[i - 1])]
           step == [i \in 1..count |-> [a \in Memories |-> Turn(i, a)]]
<1>2. ASSUME NEW i \in 1..count, NEW a \in Memories PROVE Turn(i, a) \in Memories
  <2>1. ShiftedPage(base, i - 1) \in PageNumbers
    BY ShiftedPages
  <2> QED BY <2>1, ReservePageLeaves
<1>3. ReserveRun(m, base, count) = (CHOOSE g : Loop(g))[count]
  BY DEF ReserveRun, ReservePage
<1> HIDE DEF Turn
<1>0. count \in Nat
  BY SMT
<1>4. step \in [1..count -> [Memories -> Memories]]
  BY <1>2
<1>5. PICK g \in [0..count -> Memories] :
        g[0] = m /\ \A i \in 1..count : g[i] = step[i][g[i - 1]]
  <2> HIDE DEF step
  <2>1. m \in Memories
    OBVIOUS
  <2> QED BY <1>0, <1>4, <2>1, LoopRuns, Zenon
<1>6. Loop(g)
  <2>1. \A i \in 1..count : g[i] = Turn(i, g[i - 1])
    <3> SUFFICES ASSUME NEW i \in 1..count PROVE g[i] = Turn(i, g[i - 1])
      OBVIOUS
    <3>1. i - 1 \in 0..count
      BY <1>0
    <3>2. g[i - 1] \in Memories
      BY <1>5, <3>1
    <3>3. step[i][g[i - 1]] = Turn(i, g[i - 1])
      BY <3>2
    <3> QED BY <1>5, <3>3, Zenon
  <2> QED BY <1>5, <2>1
<1> DEFINE after == CHOOSE h : Loop(h)
<1>7. Loop(after)
  BY <1>6
<1> HIDE DEF after
<1>8. after[0] = m /\ \A i \in 1..count : after[i] = Turn(i, after[i - 1])
  BY <1>7
<1>9. \A i \in 0..count : after[i] \in Memories
  <2> DEFINE S == { i \in 0..count : after[i] \in Memories }
  <2>1. 0 \in S
    BY <1>8
  <2>2. \A i \in 1..count : i - 1 \in S => i \in S
    BY <1>2, <1>8
  <2> HIDE DEF S
  <2>3. \A i \in 0..count : i \in S
    BY <1>0, <2>1, <2>2, CountUp, Zenon
  <2> QED BY <2>3 DEF S
<1>10. after \in [0..count -> Memories]
  BY <1>7, <1>9
<1>11. ReserveRun(m, base, count) = after[count]
  BY <1>3, Zenon DEF after
<1> QED BY <1>8, <1>10, <1>11 DEF Turn, IsReserveRun

\* The loop of VMM_FreePages.
IsUnmapRun(after, m, base, count) ==
  /\ after[0] = m
  /\ \A i \in 1..count : after[i] = UnmapPage(after[i - 1], ShiftedPage(base, i - 1))
  /\ UnmapRun(m, base, count) = after[count]

LEMMA UnmapRunTurns ==
  ASSUME NEW m \in Memories, NEW base \in PageNumbers, NEW count \in 1..20
  PROVE  \E after \in [0..count -> Memories] :
           IsUnmapRun(after, m, base, count)
<1> DEFINE Turn(i, a) == UnmapPage(a, ShiftedPage(base, i - 1))
           Loop(g) == g = [i \in 0..count |-> IF i = 0 THEN m ELSE Turn(i, g[i - 1])]
           step == [i \in 1..count |-> [a \in Memories |-> Turn(i, a)]]
<1>2. ASSUME NEW i \in 1..count, NEW a \in Memories PROVE Turn(i, a) \in Memories
  <2>1. ShiftedPage(base, i - 1) \in PageNumbers
    BY ShiftedPages
  <2> QED BY <2>1, UnmapPageLeaves
<1>3. UnmapRun(m, base, count) = (CHOOSE g : Loop(g))[count]
  BY DEF UnmapRun
<1> HIDE DEF Turn
<1>0. count \in Nat
  BY SMT
<1>4. step \in [1..count -> [Memories -> Memories]]
  BY <1>2
<1>5. PICK g \in [0..count -> Memories] :
        g[0] = m /\ \A i \in 1..count : g[i] = step[i][g[i - 1]]
  <2> HIDE DEF step
  <2>1. m \in Memories
    OBVIOUS
  <2> QED BY <1>0, <1>4, <2>1, LoopRuns, Zenon
<1>6. Loop(g)
  <2>1. \A i \in 1..count : g[i] = Turn(i, g[i - 1])
    <3> SUFFICES ASSUME NEW i \in 1..count PROVE g[i] = Turn(i, g[i - 1])
      OBVIOUS
    <3>1. i - 1 \in 0..count
      BY <1>0
    <3>2. g[i - 1] \in Memories
      BY <1>5, <3>1
    <3>3. step[i][g[i - 1]] = Turn(i, g[i - 1])
      BY <3>2
    <3> QED BY <1>5, <3>3, Zenon
  <2> QED BY <1>5, <2>1
<1> DEFINE after == CHOOSE h : Loop(h)
<1>7. Loop(after)
  BY <1>6
<1> HIDE DEF after
<1>8. after[0] = m /\ \A i \in 1..count : after[i] = Turn(i, after[i - 1])
  BY <1>7
<1>9. \A i \in 0..count : after[i] \in Memories
  <2> DEFINE S == { i \in 0..count : after[i] \in Memories }
  <2>1. 0 \in S
    BY <1>8
  <2>2. \A i \in 1..count : i - 1 \in S => i \in S
    BY <1>2, <1>8
  <2> HIDE DEF S
  <2>3. \A i \in 0..count : i \in S
    BY <1>0, <2>1, <2>2, CountUp, Zenon
  <2> QED BY <2>3 DEF S
<1>10. after \in [0..count -> Memories]
  BY <1>7, <1>9
<1>11. UnmapRun(m, base, count) = after[count]
  BY <1>3, Zenon DEF after
<1> QED BY <1>8, <1>10, <1>11 DEF Turn, IsUnmapRun

\* A page fault that gives a reserved page a frame.
FaultIn(m, page) == [TakeFrames(m, 1) EXCEPT !.pages[page] = Fill(@, FirstFrame(m, 1))]

LEMMA FaultInLeaves ==
  ASSUME NEW m \in Memories, NEW page \in PageNumbers
  PROVE  LET n == FaultIn(m, page)
             t == TakeFrames(m, 1)
         IN /\ n \in Memories
            /\ n.bitmaps = t.bitmaps /\ n.tables = m.tables /\ n.missed = t.missed
            /\ \A p \in PageNumbers : p # page => n.pages[p] = m.pages[p]
            /\ n.pages[page].present /\ ~n.pages[page].reserved
            /\ n.pages[page].frame = BitOr(m.pages[page].frame, FirstFrame(m, 1))
<1> DEFINE t == TakeFrames(m, 1)
           f == FirstFrame(m, 1)
           e == Entry(BitOr(m.pages[page].frame, f), FALSE, TRUE)
           n == FaultIn(m, page)
<1>1. /\ t \in Memories /\ t.pages = m.pages /\ t.tables = m.tables /\ f \in Frames
  BY TakeFramesLeaves, SizeFacts
<1>2. m.pages[page].frame \in Frames
  BY MemoryParts DEF Entries
<1>3. /\ e \in Entries /\ e.present /\ ~e.reserved
      /\ e.frame = BitOr(m.pages[page].frame, f)
  BY <1>1, <1>2, OrOfFrames DEF Entries, Entry
<1>4. n = [t EXCEPT !.pages[page] = e]
  BY <1>1 DEF FaultIn, Fill
<1> HIDE DEF t, e, f, n
<1>5. /\ n \in Memories
      /\ n.bitmaps = t.bitmaps /\ n.tables = t.tables /\ n.missed = t.missed
      /\ \A p \in PageNumbers : p # page => n.pages[p] = m.pages[p]
      /\ n.pages[page] = e
  BY <1>1, <1>3, <1>4 DEF Memories
<1> QED BY <1>1, <1>3, <1>5 DEF n, t, f

-----------------------------------------------------------------------------
(***************************************************************************)
(* The types.                                                              *)
(***************************************************************************)
TablesInv == /\ mem \in Memories
             /\ used \subseteq Heap /\ answer \in Heap \cup {0}
             /\ stopped \in BOOLEAN

\* What a caller asks for.
LEMMA CountFacts ==
  /\ \A c \in AllocateCounts \cup ReserveCounts \cup FreeCounts :
       c \in Nat /\ 1 <= c /\ c <= PageCount
  /\ \A c \in ReserveCounts \cup FreeCounts : c \in 1..20
BY CallsAssumption, SizeFacts

\* The pages of the heap.
LEMMA HeapFacts ==
  /\ \A p \in Heap : p \in PageNumbers /\ p # 0
  /\ 0 \in PageNumbers
BY SizeFacts DEF Heap, PageNumbers

\* A block of pages is in the heap and was nobody's; the failure value is the
\* number of a page all the same.
LEMMA BlockOfPages ==
  ASSUME used \subseteq Heap, answer \in Heap \cup {0},
         NEW base \in Heap \cup {0}, NEW count \in AllocateCounts \cup ReserveCounts,
         AllocateBlock(base, count)
  PROVE  /\ base \in Nat /\ base \in PageNumbers /\ base + count <= PageCount
         /\ used' \subseteq Heap /\ answer' \in Heap \cup {0}
         /\ base # 0 => /\ Run(base, count) \subseteq Heap \ used
                        /\ used' = used \cup Run(base, count)
<1>1. count \in Nat /\ 1 <= count /\ count <= PageCount
  BY CountFacts
<1>2. base \in Nat /\ base \in PageNumbers
  BY HeapFacts DEF PageNumbers
<1>3. CASE Blocks!Allocate(base, count)
  <2>1. /\ Run(base, count) \subseteq Heap \ used
        /\ used' = used \cup Run(base, count) /\ answer' = base
    BY <1>3 DEF Blocks!Allocate, Blocks!IsFree, Blocks!Run, Run
  <2>2. base \in Run(base, count) /\ base + count - 1 \in Run(base, count)
    BY <1>1, <1>2 DEF Run
  <2>3. base + count - 1 \in Heap
    BY <2>1, <2>2
  <2>4. base + count <= PageCount
    BY <1>1, <1>2, <2>3, SizeFacts DEF Heap
  <2> QED BY <1>2, <2>1, <2>4
<1>4. CASE base = 0 /\ Blocks!Fail(count)
  BY <1>1, <1>2, <1>4, SizeFacts DEF Blocks!Fail
<1> QED BY <1>3, <1>4 DEF AllocateBlock

\* The failure of VMM_AllocateBlock is the only thing that is added.
LEMMA NotingLeaves ==
  ASSUME NEW m \in Memories, NEW base \in Nat
  PROVE  LET n == Noting(m, base)
         IN /\ n \in Memories
            /\ n.bitmaps = m.bitmaps /\ n.pages = m.pages /\ n.tables = m.tables
            /\ n.missed <=> m.missed \/ base = 0
BY DEF Noting, Memories

\* The pages after VMM_AllocatePages.
LEMMA MapRunTyped ==
  ASSUME NEW m \in Memories, NEW base \in Nat, NEW count \in 1..PageCount,
         base + count <= PageCount, NEW contiguous \in BOOLEAN
  PROVE  MapRun(m, base, count, contiguous) \in Memories
<1>1. count \in 0..count
  BY SizeFacts
<1> QED BY <1>1, MapRunTurns DEF IsMapRun

\* The pages after VMM_ReservePages.
LEMMA ReserveRunTyped ==
  ASSUME NEW m \in Memories, NEW base \in PageNumbers, NEW count \in 1..20
  PROVE  ReserveRun(m, base, count) \in Memories
<1>1. count \in 0..count
  OBVIOUS
<1>2. PICK after \in [0..count -> Memories] : IsReserveRun(after, m, base, count)
  BY ReserveRunTurns
<1> QED BY <1>1, <1>2 DEF IsReserveRun

\* The pages after VMM_FreePages.
LEMMA UnmapRunTyped ==
  ASSUME NEW m \in Memories, NEW base \in PageNumbers, NEW count \in 1..20
  PROVE  UnmapRun(m, base, count) \in Memories
<1>1. count \in 0..count
  OBVIOUS
<1>2. PICK after \in [0..count -> Memories] : IsUnmapRun(after, m, base, count)
  BY UnmapRunTurns
<1> QED BY <1>1, <1>2 DEF IsUnmapRun

LEMMA TablesInvInit == TablesInit => TablesInv
<1> SUFFICES ASSUME TablesInit PROVE TablesInv
  OBVIOUS
<1>1. 0 \in Frames
  BY SizeFacts DEF Frames
<1>2. BootBitmaps \in [Levels -> SUBSET Nat] /\ IsBitmaps(BootBitmaps)
  BY BootAssumption DEF IsBitmaps
<1>3. \A frame \in Frames, r, q \in BOOLEAN : Entry(frame, r, q) \in Entries
  BY DEF Entry, Entries
<1>4. [p \in PageNumbers |-> Entry(0, FALSE, FALSE)] \in [PageNumbers -> Entries]
  BY <1>1, <1>3
<1>5. [d \in Directory |-> IF d \in DOMAIN KernelTables
                           THEN Entry(KernelTables[d], FALSE, TRUE)
                           ELSE Entry(0, TRUE, FALSE)] \in [Directory -> Entries]
  BY <1>1, <1>3, KernelAssumption
<1>6. mem \in Memories
  BY <1>2, <1>4, <1>5 DEF TablesInit, Memories
<1> QED BY <1>6 DEF TablesInit, TablesInv

\* After each call and each fault.
LEMMA TablesInvNext == TablesInv /\ [TablesNext]_tableVars => TablesInv'
<1> SUFFICES ASSUME TablesInv, [TablesNext]_tableVars PROVE TablesInv'
  OBVIOUS
<1>1. /\ mem \in Memories /\ used \subseteq Heap /\ answer \in Heap \cup {0}
      /\ stopped \in BOOLEAN
  BY DEF TablesInv
<1>2. ASSUME NEW count \in AllocateCounts, NEW contiguous \in BOOLEAN,
             VMM_AllocatePages(count, contiguous)
      PROVE  TablesInv'
  <2>1. PICK base \in Heap \cup {0} :
          /\ AllocateBlock(base, count)
          /\ mem' = Noting(MapRun(mem, base, count, contiguous), base)
    BY <1>2 DEF VMM_AllocatePages
  <2>2. /\ base \in Nat /\ base + count <= PageCount
        /\ used' \subseteq Heap /\ answer' \in Heap \cup {0}
    BY <1>1, <2>1, BlockOfPages
  <2>3. MapRun(mem, base, count, contiguous) \in Memories
    BY <1>1, <2>2, CountFacts, MapRunTyped
  <2>5. mem' \in Memories
    BY <2>1, <2>2, <2>3, NotingLeaves
  <2> QED BY <1>1, <1>2, <2>2, <2>5 DEF TablesInv, VMM_AllocatePages
<1>3. ASSUME NEW count \in ReserveCounts, VMM_ReservePages(count)
      PROVE  TablesInv'
  <2>1. PICK base \in Heap \cup {0} :
          /\ AllocateBlock(base, count)
          /\ mem' = Noting(ReserveRun(mem, base, count), base)
    BY <1>3 DEF VMM_ReservePages
  <2>2. /\ base \in Nat /\ base \in PageNumbers
        /\ used' \subseteq Heap /\ answer' \in Heap \cup {0}
    BY <1>1, <2>1, BlockOfPages
  <2>3. count \in 1..20
    BY CountFacts
  <2>4. ReserveRun(mem, base, count) \in Memories
    BY <1>1, <2>2, <2>3, ReserveRunTyped
  <2>5. mem' \in Memories
    BY <2>1, <2>2, <2>4, NotingLeaves
  <2> QED BY <1>1, <1>3, <2>2, <2>5 DEF TablesInv, VMM_ReservePages
<1>4. ASSUME NEW count \in FreeCounts, NEW address \in Heap,
             VMM_FreePages(address, count)
      PROVE  TablesInv'
  <2>1. /\ mem' = UnmapRun(mem, address, count) /\ stopped' = stopped
        /\ used' \subseteq used /\ answer' = answer
    BY <1>4 DEF VMM_FreePages, Blocks!Release
  <2>2. address \in PageNumbers
    BY HeapFacts
  <2>3. count \in 1..20
    BY CountFacts
  <2>4. UnmapRun(mem, address, count) \in Memories
    BY <1>1, <2>2, <2>3, UnmapRunTyped
  <2> QED BY <1>1, <2>1, <2>4 DEF TablesInv
<1>5. ASSUME NEW page \in Heap, VMM_PageFaultHandler(page)
      PROVE  TablesInv'
  <2>1. page \in PageNumbers
    BY HeapFacts
  <2>2. \/ mem' = FaultIn(mem, page) /\ UNCHANGED stopped
        \/ stopped' = TRUE /\ UNCHANGED mem
    BY <1>5 DEF VMM_PageFaultHandler, FaultIn
  <2>3. mem' \in Memories
    BY <1>1, <2>1, <2>2, FaultInLeaves
  <2> QED BY <1>1, <1>5, <2>2, <2>3 DEF TablesInv, VMM_PageFaultHandler
<1>6. CASE UNCHANGED tableVars
  BY <1>1, <1>6 DEF TablesInv, tableVars
<1> QED BY <1>2, <1>3, <1>4, <1>5, <1>6 DEF TablesNext

\* The types of the page tables hold in every reachable state, errors or not:
\* whatever was missed, every entry holds the number of a frame.
THEOREM TablesTypeCorrect == TablesSpec => []TablesTypeOK
<1>1. TablesInv => TablesTypeOK
  BY DEF TablesInv, TablesTypeOK, Memories, Entries
<1> QED BY <1>1, TablesInvInit, TablesInvNext, PTL DEF TablesSpec

-----------------------------------------------------------------------------
(***************************************************************************)
(* Who has which frame.  As long as nothing was missed the usable frames   *)
(* are divided: some are free, some are on their way from the allocator to *)
(* the entries, some have pages and some have the page tables that the     *)
(* faults made.                                                            *)
(***************************************************************************)
FramesIn(entries, S) == { entries[p].frame : p \in { q \in S : entries[q].present } }

\* No two entries that are there show the same frame.
Apart(entries, S) ==
  \A p, q \in S :
    entries[p].present /\ entries[q].present /\ entries[p].frame = entries[q].frame
      => p = q

Divided(free, moving, pages, tables) ==
  /\ free \cap moving = {} /\ pages \cap tables = {}
  /\ (free \cup moving) \cap (pages \cup tables) = {}
  /\ free \cup moving \cup pages \cup tables = Usable

\* The tables that faults make; the boot code has made the others.
FaultTables == Directory \ DOMAIN KernelTables

Owned(m, moving) ==
  /\ FreeOnce(m.bitmaps)
  /\ Apart(m.pages, PageNumbers) /\ Apart(m.tables, FaultTables)
  /\ Divided(FreeFramesOf(m.bitmaps), moving,
             FramesIn(m.pages, PageNumbers), FramesIn(m.tables, FaultTables))
  /\ \A d \in Directory : ~m.tables[d].present => m.tables[d].frame = 0
  /\ \A d \in DOMAIN KernelTables : m.tables[d].present

\* Frame 0, whose number means failure, is not usable.
LEMMA ZeroNotUsable == 0 \notin Usable
BY BootAssumption DEF Usable, FreeFramesOf, FrameZeroUsed, BitOf, Levels, Size

LEMMA ZeroHasNoOwner ==
  ASSUME NEW m, NEW moving, Owned(m, moving)
  PROVE  /\ 0 \notin FreeFramesOf(m.bitmaps) /\ 0 \notin moving
         /\ \A p \in PageNumbers : m.pages[p].present => m.pages[p].frame # 0
BY ZeroNotUsable DEF Owned, Divided, FramesIn

\* An entry that comes into use adds its frame to those in use.
LEMMA EntryAdded ==
  ASSUME NEW old, NEW new, NEW S, NEW page \in S, Apart(old, S),
         \A p \in S : p # page => new[p] = old[p],
         ~old[page].present, new[page].present,
         new[page].frame \notin FramesIn(old, S)
  PROVE  /\ Apart(new, S)
         /\ FramesIn(new, S) = FramesIn(old, S) \cup {new[page].frame}
<1>1. \A p \in S : new[p].present <=> p = page \/ old[p].present
  OBVIOUS
<1>2. \A p \in S : p # page => new[p].frame = old[p].frame
  OBVIOUS
<1>3. \A p \in S : old[p].present => p # page /\ new[page].frame # old[p].frame
  BY DEF FramesIn
<1>4. Apart(new, S)
  <2> SUFFICES ASSUME NEW p \in S, NEW q \in S, new[p].present, new[q].present,
                      new[p].frame = new[q].frame
               PROVE  p = q
    BY DEF Apart
  <2>1. CASE p = page
    BY <1>1, <1>2, <1>3, <2>1
  <2>2. CASE p # page
    BY <1>1, <1>2, <1>3, <2>2 DEF Apart
  <2> QED BY <2>1, <2>2
<1>5. FramesIn(new, S) \subseteq FramesIn(old, S) \cup {new[page].frame}
  BY <1>1, <1>2 DEF FramesIn
<1>6. FramesIn(old, S) \subseteq FramesIn(new, S)
  <2> SUFFICES ASSUME NEW p \in S, old[p].present
               PROVE  old[p].frame \in FramesIn(new, S)
    BY DEF FramesIn
  <2>1. new[p].present /\ new[p].frame = old[p].frame
    BY <1>1, <1>2, <1>3
  <2> QED BY <2>1 DEF FramesIn
<1>7. new[page].frame \in FramesIn(new, S)
  BY DEF FramesIn
<1> QED BY <1>4, <1>5, <1>6, <1>7

\* An entry that goes out of use takes its frame with it.
LEMMA EntryRemoved ==
  ASSUME NEW old, NEW new, NEW S, NEW page \in S, Apart(old, S),
         \A p \in S : p # page => new[p] = old[p],
         old[page].present, ~new[page].present
  PROVE  /\ Apart(new, S)
         /\ FramesIn(new, S) = FramesIn(old, S) \ {old[page].frame}
         /\ old[page].frame \in FramesIn(old, S)
<1>1. \A p \in S : new[p].present <=> p # page /\ old[p].present
  OBVIOUS
<1>2. \A p \in S : p # page => new[p].frame = old[p].frame
  OBVIOUS
<1>3. \A p \in S : old[p].present /\ p # page => old[p].frame # old[page].frame
  BY DEF Apart
<1>4. Apart(new, S)
  <2> SUFFICES ASSUME NEW p \in S, NEW q \in S, new[p].present, new[q].present,
                      new[p].frame = new[q].frame
               PROVE  p = q
    BY DEF Apart
  <2>1. /\ old[p].present /\ old[q].present
        /\ new[p].frame = old[p].frame /\ new[q].frame = old[q].frame
    BY <1>1, <1>2
  <2> QED BY <2>1 DEF Apart
<1>5. FramesIn(new, S) \subseteq FramesIn(old, S) \ {old[page].frame}
  BY <1>1, <1>2, <1>3 DEF FramesIn
<1>6. FramesIn(old, S) \ {old[page].frame} \subseteq FramesIn(new, S)
  <2> SUFFICES ASSUME NEW p \in S, old[p].present, old[p].frame # old[page].frame
               PROVE  old[p].frame \in FramesIn(new, S)
    BY DEF FramesIn
  <2>1. new[p].present /\ new[p].frame = old[p].frame
    BY <1>1, <1>2
  <2> QED BY <2>1 DEF FramesIn
<1>7. old[page].frame \in FramesIn(old, S)
  BY DEF FramesIn
<1> QED BY <1>4, <1>5, <1>6, <1>7

\* Entries that stay as they are.
LEMMA EntriesKept ==
  ASSUME NEW old, NEW new, NEW S,
         \A p \in S : new[p].present = old[p].present /\ new[p].frame = old[p].frame
  PROVE  FramesIn(new, S) = FramesIn(old, S) /\ (Apart(old, S) => Apart(new, S))
<1>1. FramesIn(new, S) = FramesIn(old, S)
  BY DEF FramesIn
<1>2. Apart(old, S) => Apart(new, S)
  BY DEF Apart
<1> QED BY <1>1, <1>2

\* A request for pages a contiguous run of which is asked for: of a block, or
\* of more than there are in any block, which fails.
BlockOrTooMany == BlockSizes \cup { c \in Nat : c > MaxCount }

\* The frames a request has taken are on their way.
LEMMA TakeOwned ==
  ASSUME NEW m \in Memories, NEW moving, Owned(m, moving),
         NEW count \in 1..PageCount, count \in BlockOrTooMany
  PROVE  LET n == TakeFrames(m, count)
             f == FirstFrame(m, count)
             block == f..(f + count - 1)
         IN ~n.missed => Owned(n, moving \cup block) /\ block \cap moving = {}
<1> DEFINE n == TakeFrames(m, count)
           f == FirstFrame(m, count)
           block == f..(f + count - 1)
<1>1. /\ n \in Memories /\ n.bitmaps = AfterGet(m.bitmaps, count)
      /\ n.pages = m.pages /\ n.tables = m.tables
      /\ n.missed <=> m.missed \/ f = 0
  BY TakeFramesLeaves
<1>2. f = GetAddress(m.bitmaps, count)
  BY DEF FirstFrame
<1> SUFFICES ASSUME ~n.missed PROVE Owned(n, moving \cup block) /\ block \cap moving = {}
  OBVIOUS
<1>3. f # 0
  BY <1>1
<1>4. count \in BlockSizes
  BY <1>2, <1>3 DEF GetAddress, BlockOrTooMany
<1>5. IsBitmaps(m.bitmaps) /\ FreeOnce(m.bitmaps) /\ 0 \notin FreeFramesOf(m.bitmaps)
  BY MemoryParts, ZeroHasNoOwner DEF Owned
<1> HIDE DEF n, f
<1>6. /\ block \subseteq FreeFramesOf(m.bitmaps)
      /\ FreeOnce(n.bitmaps)
      /\ FreeFramesOf(n.bitmaps) = FreeFramesOf(m.bitmaps) \ block
  BY <1>1, <1>2, <1>3, <1>4, <1>5, GetBlock
<1> HIDE DEF block
<1>7. Divided(FreeFramesOf(n.bitmaps), moving \cup block,
              FramesIn(n.pages, PageNumbers), FramesIn(n.tables, FaultTables))
      /\ block \cap moving = {}
  <2>1. Divided(FreeFramesOf(m.bitmaps), moving,
                FramesIn(m.pages, PageNumbers), FramesIn(m.tables, FaultTables))
    BY DEF Owned
  <2> QED BY <1>1, <1>6, <2>1 DEF Divided
<1>8. Owned(n, moving \cup block)
  BY <1>1, <1>6, <1>7 DEF Owned
<1> QED BY <1>7, <1>8 DEF n, f, block

\* A request for one frame.
LEMMA TakeOneOwned ==
  ASSUME NEW m \in Memories, NEW moving, Owned(m, moving)
  PROVE  LET n == TakeFrames(m, 1)
             f == FirstFrame(m, 1)
         IN ~n.missed => Owned(n, moving \cup {f}) /\ f \notin moving
<1>1. 1 \in 1..PageCount /\ 1 \in BlockOrTooMany
  BY SizeFacts DEF BlockOrTooMany, BlockSizes
<1>2. FirstFrame(m, 1) \in Nat
  BY <1>1, TakeFramesLeaves DEF Frames
<1>3. FirstFrame(m, 1)..(FirstFrame(m, 1) + 1 - 1) = {FirstFrame(m, 1)}
  BY <1>2
<1> QED BY <1>1, <1>3, TakeOwned

\* The page table a fault makes has the frame that was taken for it.
LEMMA WithTableOwned ==
  ASSUME NEW m \in Memories, NEW moving, Owned(m, moving), NEW page \in PageNumbers
  PROVE  ~WithTable(m, page).missed => Owned(WithTable(m, page), moving)
<1> DEFINE d == TableOf(page)
           n == WithTable(m, page)
<1>1. d \in Directory
  BY TableInDirectory
<1>2. CASE m.tables[d].present
  BY <1>2 DEF WithTable
<1>3. CASE ~m.tables[d].present
  <2> DEFINE t == TakeFrames(m, 1)
             f == FirstFrame(m, 1)
             e == Fill(m.tables[d], f)
  <2>1. /\ t \in Memories /\ t.pages = m.pages /\ t.tables = m.tables /\ f \in Frames
    BY TakeFramesLeaves, SizeFacts
  <2>2. n = [t EXCEPT !.tables[d] = e]
    BY <1>3, <2>1 DEF WithTable
  <2>3. m.tables[d].frame = 0
    BY <1>1, <1>3 DEF Owned
  <2>4. e.present /\ e.frame = f /\ e \in Entries
    BY <2>1, <2>3, OrOfFrames DEF Fill, Entry, Entries
  <2> HIDE DEF t, e
  <2>5. /\ n.bitmaps = t.bitmaps /\ n.pages = m.pages /\ n.missed = t.missed
        /\ \A c \in Directory : c # d => n.tables[c] = m.tables[c]
        /\ n.tables[d] = e
    BY <1>1, <2>1, <2>2 DEF Memories
  <2> SUFFICES ASSUME ~n.missed PROVE Owned(n, moving)
    BY DEF n
  <2>6. Owned(t, moving \cup {f}) /\ f \notin moving
    BY <2>5, TakeOneOwned DEF t
  <2> HIDE DEF n, f
  <2>7. /\ Divided(FreeFramesOf(t.bitmaps), moving \cup {f},
                   FramesIn(m.pages, PageNumbers), FramesIn(m.tables, FaultTables))
        /\ Apart(m.tables, FaultTables)
    BY <2>1, <2>6 DEF Owned
  <2>8. f \notin FramesIn(m.tables, FaultTables)
    BY <2>7 DEF Divided
  <2>9. d \in FaultTables
    BY <1>1, <1>3 DEF Owned, FaultTables
  <2>10. /\ Apart(n.tables, FaultTables)
         /\ FramesIn(n.tables, FaultTables) = FramesIn(m.tables, FaultTables) \cup {f}
    <3>1. \A c \in FaultTables : c # d => n.tables[c] = m.tables[c]
      BY <2>5 DEF FaultTables
    <3>2. n.tables[d].frame = f /\ n.tables[d].present
      BY <2>4, <2>5
    <3>3. n.tables[d].frame \notin FramesIn(m.tables, FaultTables)
      BY <2>8, <3>2
    <3> HIDE DEF d
    <3>4. /\ Apart(n.tables, FaultTables)
          /\ FramesIn(n.tables, FaultTables)
               = FramesIn(m.tables, FaultTables) \cup {n.tables[d].frame}
      BY <1>3, <2>7, <2>9, <3>1, <3>2, <3>3, EntryAdded
    <3> QED BY <3>2, <3>4
  <2>11. Divided(FreeFramesOf(n.bitmaps), moving,
                 FramesIn(n.pages, PageNumbers), FramesIn(n.tables, FaultTables))
    BY <2>5, <2>6, <2>7, <2>10 DEF Divided
  <2>12. /\ \A c \in Directory : ~n.tables[c].present => n.tables[c].frame = 0
         /\ \A c \in DOMAIN KernelTables : n.tables[c].present
    BY <2>4, <2>5, KernelAssumption DEF Owned
  <2>13. FreeOnce(n.bitmaps) /\ Apart(n.pages, PageNumbers)
    BY <2>1, <2>5, <2>6 DEF Owned
  <2> QED BY <2>10, <2>11, <2>12, <2>13 DEF Owned
<1> QED BY <1>2, <1>3

\* A page that is mapped has the frame that was on its way to it, and had none.
LEMMA MapOwned ==
  ASSUME NEW m \in Memories, NEW moving, Owned(m, moving),
         NEW page \in PageNumbers, NEW frame \in Frames, frame \in moving
  PROVE  LET n == MapPage(m, page, frame)
         IN ~n.missed => /\ Owned(n, moving \ {frame})
                         /\ m.pages[page].frame = 0 /\ n.pages[page].frame = frame
<1> DEFINE n == MapPage(m, page, frame)
           t == WithTable(m, page)
<1>1. /\ t \in Memories /\ t.pages = m.pages
  BY WithTableLeaves
<1>2. /\ n.bitmaps = t.bitmaps /\ n.tables = t.tables
      /\ \A p \in PageNumbers : p # page => n.pages[p] = m.pages[p]
      /\ n.pages[page].present
      /\ n.pages[page].frame = BitOr(m.pages[page].frame, frame)
      /\ n.missed <=> t.missed \/ m.pages[page].frame # 0
  BY MapPageLeaves
<1> SUFFICES ASSUME ~n.missed
             PROVE  /\ Owned(n, moving \ {frame})
                    /\ m.pages[page].frame = 0 /\ n.pages[page].frame = frame
  OBVIOUS
<1>3. m.pages[page].frame = 0 /\ ~t.missed
  BY <1>2
<1>4. n.pages[page].frame = frame
  BY <1>2, <1>3, OrOfFrames
<1>5. Owned(t, moving)
  BY <1>3, WithTableOwned
<1>6. ~m.pages[page].present
  BY <1>3, ZeroHasNoOwner
<1> HIDE DEF n, t
<1>7. /\ Divided(FreeFramesOf(t.bitmaps), moving,
                 FramesIn(m.pages, PageNumbers), FramesIn(t.tables, FaultTables))
      /\ Apart(m.pages, PageNumbers)
  BY <1>1, <1>5 DEF Owned
<1>8. n.pages[page].frame \notin FramesIn(m.pages, PageNumbers)
  BY <1>4, <1>7 DEF Divided
<1>9. /\ Apart(n.pages, PageNumbers)
      /\ FramesIn(n.pages, PageNumbers) = FramesIn(m.pages, PageNumbers) \cup {frame}
  <2>1. /\ Apart(n.pages, PageNumbers)
        /\ FramesIn(n.pages, PageNumbers)
             = FramesIn(m.pages, PageNumbers) \cup {n.pages[page].frame}
    BY <1>2, <1>6, <1>7, <1>8, EntryAdded
  <2> QED BY <1>4, <2>1
<1>10. Divided(FreeFramesOf(n.bitmaps), moving \ {frame},
               FramesIn(n.pages, PageNumbers), FramesIn(n.tables, FaultTables))
  BY <1>2, <1>7, <1>9 DEF Divided
<1>11. Owned(n, moving \ {frame})
  BY <1>2, <1>5, <1>9, <1>10 DEF Owned
<1> QED BY <1>3, <1>4, <1>11

\* A page that is marked reserved has no frame.
LEMMA ReserveOwned ==
  ASSUME NEW m \in Memories, NEW moving, Owned(m, moving), NEW page \in PageNumbers
  PROVE  LET n == ReservePage(m, page)
         IN ~n.missed => /\ Owned(n, moving)
                         /\ m.pages[page].frame = 0 /\ ~m.pages[page].present
<1> DEFINE n == ReservePage(m, page)
           t == WithTable(m, page)
<1>1. /\ t \in Memories /\ t.pages = m.pages
  BY WithTableLeaves
<1>2. /\ n.bitmaps = t.bitmaps /\ n.tables = t.tables
      /\ \A p \in PageNumbers : p # page => n.pages[p] = m.pages[p]
      /\ n.pages[page].present = m.pages[page].present
      /\ n.pages[page].frame = m.pages[page].frame
      /\ n.missed <=> t.missed \/ m.pages[page].frame # 0
  BY ReservePageLeaves
<1> SUFFICES ASSUME ~n.missed
             PROVE  Owned(n, moving) /\ m.pages[page].frame = 0 /\ ~m.pages[page].present
  OBVIOUS
<1>3. m.pages[page].frame = 0 /\ ~t.missed
  BY <1>2
<1>4. Owned(t, moving)
  BY <1>3, WithTableOwned
<1>5. ~m.pages[page].present
  BY <1>3, ZeroHasNoOwner
<1> HIDE DEF n, t
<1>6. \A p \in PageNumbers : /\ n.pages[p].present = t.pages[p].present
                             /\ n.pages[p].frame = t.pages[p].frame
  BY <1>1, <1>2
<1>7. /\ Apart(n.pages, PageNumbers)
      /\ FramesIn(n.pages, PageNumbers) = FramesIn(t.pages, PageNumbers)
  BY <1>4, <1>6, EntriesKept DEF Owned
<1>8. Owned(n, moving)
  BY <1>2, <1>4, <1>7 DEF Owned
<1> QED BY <1>3, <1>5, <1>8

\* A page that is unmapped gives its frame back.
LEMMA UnmapOwned ==
  ASSUME NEW m \in Memories, Owned(m, {}), NEW page \in PageNumbers
  PROVE  LET n == UnmapPage(m, page)
         IN ~n.missed => Owned(n, {}) /\ m.pages[page].present
<1> DEFINE n == UnmapPage(m, page)
           t == WithTable(m, page)
           f == m.pages[page].frame
<1>1. /\ t \in Memories /\ t.pages = m.pages
  BY WithTableLeaves
<1>2. /\ n.bitmaps = AfterFree(t.bitmaps, f, 1) /\ n.tables = t.tables
      /\ \A p \in PageNumbers : p # page => n.pages[p] = m.pages[p]
      /\ ~n.pages[page].present
      /\ n.missed <=> t.missed \/ ~m.pages[page].present \/ RunsPastArray(t.bitmaps, f, 1)
  BY UnmapPageLeaves
<1> SUFFICES ASSUME ~n.missed PROVE Owned(n, {}) /\ m.pages[page].present
  OBVIOUS
<1>3. ~t.missed /\ m.pages[page].present /\ ~RunsPastArray(t.bitmaps, f, 1)
  BY <1>2
<1>4. Owned(t, {})
  BY <1>3, WithTableOwned
<1>5. f \in Frames
  BY MemoryParts DEF Entries
<1> HIDE DEF n, t
<1>6. /\ Apart(n.pages, PageNumbers)
      /\ FramesIn(n.pages, PageNumbers) = FramesIn(m.pages, PageNumbers) \ {f}
      /\ f \in FramesIn(m.pages, PageNumbers)
  <2>1. Apart(m.pages, PageNumbers)
    BY <1>1, <1>4 DEF Owned
  <2> QED BY <1>2, <1>3, <2>1, EntryRemoved
<1> HIDE DEF f
<1>7. Divided(FreeFramesOf(t.bitmaps), {},
              FramesIn(m.pages, PageNumbers), FramesIn(t.tables, FaultTables))
  BY <1>1, <1>4 DEF Owned
<1>8. /\ FreeOnce(n.bitmaps)
      /\ FreeFramesOf(n.bitmaps) = FreeFramesOf(t.bitmaps) \cup {f}
  <2>1. IsBitmaps(t.bitmaps) /\ FreeOnce(t.bitmaps)
    BY <1>1, <1>4, MemoryParts DEF Owned
  <2>2. f \in Nat /\ f..(f + 1 - 1) = {f} /\ f % 1 = 0 /\ 1 \in BlockSizes
    BY <1>5 DEF Frames, BlockSizes
  <2>3. f \notin FreeFramesOf(t.bitmaps)
    BY <1>6, <1>7 DEF Divided
  <2>4. \A g \in f..(f + 1 - 1) : g \notin FreeFramesOf(t.bitmaps)
    BY <2>2, <2>3
  <2>5. LET new == AfterFree(t.bitmaps, f, 1)
            block == f..(f + 1 - 1)
        IN /\ IsBitmaps(new) /\ FreeOnce(new)
           /\ FreeFramesOf(new) \subseteq FreeFramesOf(t.bitmaps) \cup block
           /\ ~RunsPastArray(t.bitmaps, f, 1) =>
                FreeFramesOf(t.bitmaps) \cup (block \cap Frames) \subseteq FreeFramesOf(new)
    BY <1>5, <2>1, <2>2, <2>4, FreeBlock
  <2> QED BY <1>2, <1>3, <1>5, <2>2, <2>5 DEF f
<1>9. Divided(FreeFramesOf(n.bitmaps), {},
              FramesIn(n.pages, PageNumbers), FramesIn(n.tables, FaultTables))
  BY <1>2, <1>6, <1>7, <1>8 DEF Divided
<1>10. Owned(n, {})
  BY <1>2, <1>4, <1>6, <1>8, <1>9 DEF Owned
<1> QED BY <1>3, <1>10

\* The page of a fault has the frame that was taken for it.
LEMMA FaultOwned ==
  ASSUME NEW m \in Memories, Owned(m, {}), NEW page \in PageNumbers,
         ~m.pages[page].present, m.pages[page].frame = 0
  PROVE  ~FaultIn(m, page).missed => Owned(FaultIn(m, page), {})
<1> DEFINE n == FaultIn(m, page)
           t == TakeFrames(m, 1)
           f == FirstFrame(m, 1)
<1>1. t.pages = m.pages /\ t.tables = m.tables /\ f \in Frames
  BY TakeFramesLeaves, SizeFacts
<1>2. /\ n.bitmaps = t.bitmaps /\ n.tables = m.tables /\ n.missed = t.missed
      /\ \A p \in PageNumbers : p # page => n.pages[p] = m.pages[p]
      /\ n.pages[page].present
      /\ n.pages[page].frame = BitOr(m.pages[page].frame, f)
  BY FaultInLeaves
<1> SUFFICES ASSUME ~n.missed PROVE Owned(n, {})
  OBVIOUS
<1>3. Owned(t, {f})
  BY <1>2, TakeOneOwned
<1>4. n.pages[page].frame = f
  BY <1>1, <1>2, OrOfFrames
<1> HIDE DEF n, t, f
<1>5. /\ Divided(FreeFramesOf(t.bitmaps), {f},
                 FramesIn(m.pages, PageNumbers), FramesIn(m.tables, FaultTables))
      /\ Apart(m.pages, PageNumbers)
  BY <1>1, <1>3 DEF Owned
<1>6. n.pages[page].frame \notin FramesIn(m.pages, PageNumbers)
  BY <1>4, <1>5 DEF Divided
<1>7. /\ Apart(n.pages, PageNumbers)
      /\ FramesIn(n.pages, PageNumbers) = FramesIn(m.pages, PageNumbers) \cup {f}
  <2>1. /\ Apart(n.pages, PageNumbers)
        /\ FramesIn(n.pages, PageNumbers)
             = FramesIn(m.pages, PageNumbers) \cup {n.pages[page].frame}
    BY <1>2, <1>5, <1>6, EntryAdded
  <2> QED BY <1>4, <2>1
<1>8. Divided(FreeFramesOf(n.bitmaps), {},
              FramesIn(n.pages, PageNumbers), FramesIn(n.tables, FaultTables))
  BY <1>2, <1>5, <1>7 DEF Divided
<1> QED BY <1>1, <1>2, <1>3, <1>7, <1>8 DEF Owned

-----------------------------------------------------------------------------
(***************************************************************************)
(* The loops, as long as nothing was missed.                               *)
(***************************************************************************)

\* What is missed stays missed.
LEMMA MissedStays ==
  ASSUME NEW a \in Memories, NEW page \in PageNumbers, a.missed
  PROVE  /\ \A frame \in Frames : MapPage(a, page, frame).missed
         /\ MapPage(TakeFrames(a, 1), page, FirstFrame(a, 1)).missed
         /\ ReservePage(a, page).missed /\ UnmapPage(a, page).missed
<1>1. ASSUME NEW m \in Memories, m.missed
      PROVE  /\ WithTable(m, page).missed
             /\ \A frame \in Frames : MapPage(m, page, frame).missed
  <2>1. WithTable(m, page).missed
    BY <1>1, WithTableLeaves
  <2> QED BY <2>1, MapPageLeaves
<1>2. TakeFrames(a, 1) \in Memories /\ TakeFrames(a, 1).missed /\ FirstFrame(a, 1) \in Frames
  BY TakeFramesLeaves, SizeFacts
<1>3. ReservePage(a, page).missed
  BY <1>1, ReservePageLeaves
<1>4. UnmapPage(a, page).missed
  BY <1>1, UnmapPageLeaves
<1> QED BY <1>1, <1>2, <1>3, <1>4

\* What one turn of the loop of VMM_AllocatePages does to the entries.
PageMapped(a, b, page) ==
  /\ \A p \in PageNumbers : p # page => b.pages[p] = a.pages[p]
  /\ b.pages[page].present /\ b.pages[page].reserved = a.pages[page].reserved
  /\ a.pages[page].frame = 0
  /\ b.tables[TableOf(page)].present
  /\ \A d \in Directory : a.tables[d].present => b.tables[d].present

LEMMA MapTurn ==
  ASSUME NEW a \in Memories, NEW moving, Owned(a, moving),
         NEW page \in PageNumbers, NEW frame \in Frames, frame \in moving,
         ~MapPage(a, page, frame).missed
  PROVE  /\ Owned(MapPage(a, page, frame), moving \ {frame})
         /\ PageMapped(a, MapPage(a, page, frame), page)
         /\ MapPage(a, page, frame).pages[page].frame = frame
<1> DEFINE n == MapPage(a, page, frame)
           t == WithTable(a, page)
<1>1. /\ Owned(n, moving \ {frame})
      /\ a.pages[page].frame = 0 /\ n.pages[page].frame = frame
  BY MapOwned
<1>2. /\ n.tables = t.tables
      /\ \A p \in PageNumbers : p # page => n.pages[p] = a.pages[p]
      /\ n.pages[page].present
      /\ n.pages[page].reserved = a.pages[page].reserved
  BY MapPageLeaves
<1>3. /\ t.tables[TableOf(page)].present
      /\ \A d \in Directory : a.tables[d].present => t.tables[d].present
  BY WithTableLeaves
<1> HIDE DEF n, t
<1>4. PageMapped(a, n, page)
  BY <1>1, <1>2, <1>3 DEF PageMapped
<1> QED BY <1>1, <1>4 DEF n

LEMMA TakeAndMapTurn ==
  ASSUME NEW a \in Memories, Owned(a, {}), NEW page \in PageNumbers,
         ~MapPage(TakeFrames(a, 1), page, FirstFrame(a, 1)).missed
  PROVE  /\ Owned(MapPage(TakeFrames(a, 1), page, FirstFrame(a, 1)), {})
         /\ PageMapped(a, MapPage(TakeFrames(a, 1), page, FirstFrame(a, 1)), page)
<1>1. PICK t : t = TakeFrames(a, 1)
  OBVIOUS
<1>2. PICK f : f = FirstFrame(a, 1)
  OBVIOUS
<1>3. t \in Memories /\ t.pages = a.pages /\ t.tables = a.tables /\ f \in Frames
  BY <1>1, <1>2, TakeFramesLeaves, SizeFacts
<1>4. ~t.missed
  BY <1>1, <1>2, <1>3, MissedStays
<1>5. Owned(t, {f})
  BY <1>1, <1>2, <1>4, TakeOneOwned
<1>6. f \in {f} /\ {f} \ {f} = {}
  OBVIOUS
<1>7. /\ Owned(MapPage(t, page, f), {f} \ {f})
      /\ PageMapped(t, MapPage(t, page, f), page)
  BY <1>1, <1>2, <1>3, <1>5, <1>6, MapTurn
<1>8. PageMapped(a, MapPage(t, page, f), page)
  BY <1>3, <1>7 DEF PageMapped
<1> QED BY <1>1, <1>2, <1>6, <1>7, <1>8

\* What its first k turns have done.
PagesMapped(m, a, base, k) ==
  /\ \A p \in PageNumbers \ Run(base, k) : a.pages[p] = m.pages[p]
  /\ \A p \in Run(base, k) :
       /\ a.pages[p].present /\ a.pages[p].reserved = m.pages[p].reserved
       /\ m.pages[p].frame = 0
       /\ a.tables[TableOf(p)].present
  /\ \A d \in Directory : m.tables[d].present => a.tables[d].present

LEMMA RunGrows ==
  ASSUME NEW m \in Memories, NEW a \in Memories, NEW b \in Memories,
         NEW base \in Nat, NEW k \in Nat \ {0}, base + k <= PageCount,
         PagesMapped(m, a, base, k - 1), PageMapped(a, b, base + k - 1)
  PROVE  PagesMapped(m, b, base, k)
<1> DEFINE page == base + k - 1
<1>1. /\ Run(base, k) = Run(base, k - 1) \cup {page}
      /\ page \in PageNumbers /\ page \notin Run(base, k - 1)
      /\ Run(base, k - 1) \subseteq PageNumbers
  BY SizeFacts DEF Run, PageNumbers
<1>2. \A p \in PageNumbers : TableOf(p) \in Directory
  BY TableInDirectory
<1> HIDE DEF page
<1>3. PageMapped(a, b, page)
  BY DEF page
<1>4. \A p \in PageNumbers \ Run(base, k) : b.pages[p] = m.pages[p]
  BY <1>1, <1>3 DEF PagesMapped, PageMapped
<1>5. ASSUME NEW p \in Run(base, k)
      PROVE  /\ b.pages[p].present /\ b.pages[p].reserved = m.pages[p].reserved
             /\ m.pages[p].frame = 0
             /\ b.tables[TableOf(p)].present
  <2>1. CASE p = page
    <3>1. a.pages[p] = m.pages[p]
      BY <1>1, <2>1 DEF PagesMapped
    <3> QED BY <1>3, <2>1, <3>1 DEF PageMapped
  <2>2. CASE p # page
    <3>1. p \in Run(base, k - 1) /\ p \in PageNumbers
      BY <1>1, <2>2
    <3>2. b.pages[p] = a.pages[p]
      BY <1>3, <2>2, <3>1 DEF PageMapped
    <3>3. b.tables[TableOf(p)].present
      BY <1>2, <1>3, <3>1 DEF PageMapped, PagesMapped
    <3> QED BY <3>1, <3>2, <3>3 DEF PagesMapped
  <2> QED BY <2>1, <2>2
<1>6. \A d \in Directory : m.tables[d].present => b.tables[d].present
  BY <1>3 DEF PagesMapped, PageMapped
<1> QED BY <1>4, <1>5, <1>6 DEF PagesMapped

\* The loop of VMM_AllocatePages, when frames are taken one at a time.
LEMMA MapRunScattered ==
  ASSUME NEW m \in Memories, Owned(m, {}), NEW base \in Nat, NEW count \in 1..PageCount,
         base + count <= PageCount, ~MapRun(m, base, count, FALSE).missed
  PROVE  /\ Owned(MapRun(m, base, count, FALSE), {})
         /\ PagesMapped(m, MapRun(m, base, count, FALSE), base, count)
<1>1. PICK after \in [0..count -> Memories] :
        /\ after[0] = m
        /\ \A i \in 1..count :
             after[i] = MapPage(TakeFrames(after[i - 1], 1), base + i - 1,
                                FirstFrame(after[i - 1], 1))
        /\ MapRun(m, base, count, FALSE) = after[count]
  <2>1. PICK after \in [0..count -> Memories] : IsMapRun(after, m, base, count, FALSE)
    BY MapRunTurns
  <2> QED BY <2>1 DEF IsMapRun
<1> DEFINE S == { i \in 0..count :
                    after[i].missed \/ (Owned(after[i], {}) /\ PagesMapped(m, after[i], base, i)) }
<1>2. count \in Nat /\ \A i \in 1..count : i - 1 \in 0..count /\ base + i - 1 \in PageNumbers
  BY SizeFacts DEF PageNumbers
<1>3. 0 \in S
  <2>1. Run(base, 0) = {}
    BY DEF Run
  <2>2. PagesMapped(m, m, base, 0)
    BY <2>1 DEF PagesMapped
  <2>3. 0 \in 0..count
    BY <1>2
  <2> QED BY <1>1, <2>2, <2>3
<1>4. ASSUME NEW i \in 1..count, i - 1 \in S PROVE i \in S
  <2>1. PICK a \in Memories : a = after[i - 1]
    BY <1>1, <1>2
  <2>2. PICK b \in Memories : b = after[i]
    BY <1>1, <1>2
  <2>3. PICK page \in PageNumbers : page = base + i - 1
    BY <1>2
  <2>4. b = MapPage(TakeFrames(a, 1), page, FirstFrame(a, 1))
    BY <1>1, <2>1, <2>2, <2>3
  <2> SUFFICES ASSUME ~b.missed PROVE Owned(b, {}) /\ PagesMapped(m, b, base, i)
    BY <2>2
  <2>5. ~a.missed
    BY <2>4, MissedStays
  <2>6. Owned(a, {}) /\ PagesMapped(m, a, base, i - 1)
    BY <1>4, <2>1, <2>5
  <2>7. Owned(b, {}) /\ PageMapped(a, b, page)
    BY <2>4, <2>6, TakeAndMapTurn
  <2>8. i \in Nat \ {0} /\ base + i <= PageCount
    BY <1>2, SizeFacts
  <2>9. PagesMapped(m, b, base, i)
    BY <2>3, <2>6, <2>7, <2>8, RunGrows
  <2> QED BY <2>7, <2>9
<1>5. count \in S
  <2> HIDE DEF S
  <2>1. \A i \in 0..count : i \in S
    BY <1>2, <1>3, <1>4, CountUp, Zenon
  <2> QED BY <1>2, <2>1
<1> QED BY <1>1, <1>5

\* The loop of VMM_AllocatePages, when a run of frames has been taken: they
\* stay on their way until their turn comes, so the tables that are made in
\* between get others.
LEMMA MapRunContiguous ==
  ASSUME NEW m \in Memories, Owned(m, {}), NEW base \in Nat, NEW count \in 1..PageCount,
         count \in BlockOrTooMany, base + count <= PageCount,
         ~MapRun(m, base, count, TRUE).missed
  PROVE  /\ Owned(MapRun(m, base, count, TRUE), {})
         /\ PagesMapped(m, MapRun(m, base, count, TRUE), base, count)
         /\ \A p \in Run(base, count) :
              MapRun(m, base, count, TRUE).pages[p].frame
                = FirstFrame(m, count) + (p - base)
<1>1. PICK f \in Frames : /\ f = FirstFrame(m, count)
                          /\ \A i \in 0..(count - 1) : f + i \in Frames
  BY TakeFramesLeaves
<1>2. PICK first \in Memories : /\ first = TakeFrames(m, count)
                                /\ first.pages = m.pages /\ first.tables = m.tables
  BY TakeFramesLeaves
<1>3. PICK after \in [0..count -> Memories] :
        /\ after[0] = first
        /\ \A i \in 1..count : after[i] = MapPage(after[i - 1], base + i - 1, f + i - 1)
        /\ MapRun(m, base, count, TRUE) = after[count]
  <2>1. PICK after \in [0..count -> Memories] : IsMapRun(after, m, base, count, TRUE)
    BY MapRunTurns
  <2> QED BY <1>1, <1>2, <2>1 DEF IsMapRun
<1> DEFINE Left(i) == (f + i)..(f + count - 1)
           Good(i) == /\ Owned(after[i], Left(i)) /\ PagesMapped(m, after[i], base, i)
                      /\ \A p \in Run(base, i) : after[i].pages[p].frame = f + (p - base)
           S == { i \in 0..count : after[i].missed \/ Good(i) }
<1>4. /\ count \in Nat /\ f \in Nat
      /\ \A i \in 1..count : /\ i - 1 \in 0..count /\ base + i - 1 \in PageNumbers
                             /\ f + i - 1 \in Frames
  <2>1. count \in Nat /\ f \in Nat
    BY <1>1, SizeFacts DEF Frames
  <2>2. ASSUME NEW i \in 1..count PROVE f + i - 1 \in Frames
    <3>1. i - 1 \in 0..(count - 1) /\ f + (i - 1) = f + i - 1
      BY <2>1
    <3> QED BY <1>1, <3>1
  <2>3. \A i \in 1..count : i - 1 \in 0..count /\ base + i - 1 \in PageNumbers
    BY <2>1, SizeFacts DEF PageNumbers
  <2> QED BY <2>1, <2>2, <2>3
<1>5. 0 \in S
  <2>1. Run(base, 0) = {}
    BY DEF Run
  <2>2. PagesMapped(m, first, base, 0)
    BY <1>2, <2>1 DEF PagesMapped
  <2>3. 0 \in 0..count /\ Left(0) = f..(f + count - 1)
    BY <1>4
  <2>4. first.missed \/ Owned(first, f..(f + count - 1))
    <3>1. first.missed \/ Owned(first, {} \cup (f..(f + count - 1)))
      BY <1>1, <1>2, TakeOwned
    <3>2. {} \cup (f..(f + count - 1)) = f..(f + count - 1)
      OBVIOUS
    <3> QED BY <3>1, <3>2
  <2>5. first.missed \/ Good(0)
    BY <1>3, <2>1, <2>2, <2>3, <2>4
  <2> HIDE DEF Good
  <2> QED BY <1>3, <2>3, <2>5
<1>6. ASSUME NEW i \in 1..count, i - 1 \in S PROVE i \in S
  <2>1. PICK a \in Memories : a = after[i - 1]
    BY <1>3, <1>4
  <2>2. PICK b \in Memories : b = after[i]
    BY <1>3, <1>4
  <2>3. PICK page \in PageNumbers : page = base + i - 1
    BY <1>4
  <2>4. PICK frame \in Frames : frame = f + i - 1
    BY <1>4
  <2>5. b = MapPage(a, page, frame)
    BY <1>3, <2>1, <2>2, <2>3, <2>4
  <2> SUFFICES ASSUME ~b.missed PROVE Good(i)
    BY <2>2
  <2>6. ~a.missed
    BY <2>5, MissedStays
  <2>7. /\ Owned(a, Left(i - 1)) /\ PagesMapped(m, a, base, i - 1)
        /\ \A p \in Run(base, i - 1) : a.pages[p].frame = f + (p - base)
    BY <1>6, <2>1, <2>6
  <2>8. frame \in Left(i - 1) /\ Left(i - 1) \ {frame} = Left(i)
    BY <1>4, <2>4
  <2>9. /\ Owned(b, Left(i)) /\ PageMapped(a, b, page)
        /\ b.pages[page].frame = frame
    <3> HIDE DEF Left
    <3> QED BY <2>5, <2>7, <2>8, MapTurn
  <2>10. i \in Nat \ {0} /\ base + i <= PageCount
    BY <1>4, SizeFacts
  <2>11. PagesMapped(m, b, base, i)
    BY <2>3, <2>7, <2>9, <2>10, RunGrows
  <2>12. ASSUME NEW p \in Run(base, i) PROVE b.pages[p].frame = f + (p - base)
    <3>1. p \in Nat /\ p \in PageNumbers /\ (p = page \/ p \in Run(base, i - 1))
      BY <2>3, <2>10, SizeFacts DEF Run, PageNumbers
    <3>2. CASE p = page
      BY <1>4, <2>3, <2>4, <2>9, <2>10, <3>2
    <3>3. CASE p # page
      <4>1. b.pages[p] = a.pages[p]
        BY <2>9, <3>1, <3>3 DEF PageMapped
      <4> QED BY <2>7, <3>1, <3>3, <4>1
    <3> QED BY <3>2, <3>3
  <2> QED BY <2>2, <2>9, <2>11, <2>12
<1>7. count \in S
  <2> HIDE DEF S
  <2>1. \A i \in 0..count : i \in S
    BY <1>4, <1>5, <1>6, CountUp, Zenon
  <2> QED BY <1>4, <2>1
<1>8. Left(count) = {}
  BY <1>4
<1> HIDE DEF Left
<1> QED BY <1>1, <1>3, <1>7, <1>8

\* Every page that is there is a caller's, and the page of an entry that is
\* marked reserved is a caller's too, with no frame yet.
PagesHeld(m, held) ==
  /\ \A p \in PageNumbers : m.pages[p].present => p \in held
  /\ \A p \in Heap : m.pages[p].reserved =>
       p \in held /\ ~m.pages[p].present /\ m.pages[p].frame = 0

\* What a call of VMM_ReservePages does to the entries of the heap.
PageReserved(m, n, base) ==
  /\ \A p \in PageNumbers : /\ n.pages[p].present = m.pages[p].present
                            /\ n.pages[p].frame = m.pages[p].frame
  /\ \A p \in Heap \ {base} : n.pages[p] = m.pages[p]
  /\ n.pages[base].reserved
  /\ ~m.pages[base].present /\ m.pages[base].frame = 0
  /\ n.tables[TableOf(base)].present
  /\ \A d \in Directory : m.tables[d].present => n.tables[d].present

\* The loop of VMM_ReservePages: only its first turn is about a page of the
\* heap.
LEMMA ReserveRunOwned ==
  ASSUME NEW m \in Memories, Owned(m, {}), NEW base \in Heap, NEW count \in 1..20,
         ~ReserveRun(m, base, count).missed
  PROVE  /\ Owned(ReserveRun(m, base, count), {})
         /\ PageReserved(m, ReserveRun(m, base, count), base)
<1>0. base \in PageNumbers /\ TableOf(base) \in Directory
  BY HeapFacts, TableInDirectory
<1>1. PICK after \in [0..count -> Memories] :
        /\ after[0] = m
        /\ \A i \in 1..count : after[i] = ReservePage(after[i - 1], ShiftedPage(base, i - 1))
        /\ ReserveRun(m, base, count) = after[count]
  <2>1. PICK after \in [0..count -> Memories] : IsReserveRun(after, m, base, count)
    BY <1>0, ReserveRunTurns
  <2> QED BY <2>1 DEF IsReserveRun
<1> DEFINE Same(a) ==
             /\ Owned(a, {})
             /\ \A p \in PageNumbers : /\ a.pages[p].present = m.pages[p].present
                                       /\ a.pages[p].frame = m.pages[p].frame
             /\ \A p \in Heap \ {base} : a.pages[p] = m.pages[p]
             /\ \A d \in Directory : m.tables[d].present => a.tables[d].present
           First(a) ==
             /\ a.pages[base].reserved
             /\ ~m.pages[base].present /\ m.pages[base].frame = 0
             /\ a.tables[TableOf(base)].present
           S == { i \in 0..count :
                    after[i].missed \/ (Same(after[i]) /\ (i # 0 => First(after[i]))) }
<1>2. count \in Nat /\ count # 0 /\ count \in 0..count
  BY SMT
<1>3. \A i \in 1..count : i - 1 \in 0..count /\ i - 1 \in 0..19
  BY <1>2
<1>4. 0 \in S
  <2>1. 0 \in 0..count
    BY <1>2
  <2>2. Same(m)
    OBVIOUS
  <2> HIDE DEF Same, First
  <2> QED BY <1>1, <2>1, <2>2
<1>5. ASSUME NEW i \in 1..count, i - 1 \in S PROVE i \in S
  <2>1. PICK a \in Memories : a = after[i - 1]
    BY <1>1, <1>3
  <2>2. PICK b \in Memories : b = after[i]
    BY <1>1
  <2>3. PICK page \in PageNumbers : page = ShiftedPage(base, i - 1)
    BY <1>0, <1>3, ShiftedPages
  <2>4. b = ReservePage(a, page)
    BY <1>1, <2>1, <2>2, <2>3
  <2> SUFFICES ASSUME ~b.missed PROVE Same(b) /\ First(b)
    BY <2>2
  <2>5. ~a.missed
    BY <2>4, MissedStays
  <2>6. Same(a) /\ (i - 1 # 0 => First(a))
    BY <1>5, <2>1, <2>5
  <2>7. /\ Owned(b, {})
        /\ a.pages[page].frame = 0 /\ ~a.pages[page].present
    BY <2>4, <2>6, ReserveOwned
  <2>8. PICK t \in Memories :
          /\ t = WithTable(a, page)
          /\ t.tables[TableOf(page)].present
          /\ \A d \in Directory : a.tables[d].present => t.tables[d].present
    BY WithTableLeaves
  <2>9. /\ b.tables = t.tables
        /\ \A p \in PageNumbers : p # page => b.pages[p] = a.pages[p]
        /\ b.pages[page].present = a.pages[page].present
        /\ b.pages[page].reserved
        /\ b.pages[page].frame = a.pages[page].frame
    BY <2>4, <2>8, ReservePageLeaves
  <2>10. page = base \/ page \notin Heap
    <3>1. CASE i - 1 = 0
      BY <1>0, <2>3, <3>1, ShiftedPages
    <3>2. CASE i - 1 # 0
      <4>1. i - 1 \in 1..19
        BY <1>3, <3>2
      <4> QED BY <1>0, <2>3, <4>1, ShiftedPages
    <3> QED BY <3>1, <3>2
  <2>11. Same(b)
    BY <2>6, <2>7, <2>8, <2>9, <2>10, HeapFacts
  <2>12. First(b)
    <3>1. CASE i - 1 = 0
      <4>1. page = base
        BY <1>0, <2>3, <3>1, ShiftedPages
      <4> QED BY <2>6, <2>7, <2>8, <2>9, <4>1
    <3>2. CASE i - 1 # 0
      BY <1>0, <2>6, <2>8, <2>9, <3>2
    <3> QED BY <3>1, <3>2
  <2> QED BY <2>11, <2>12
<1>6. count \in S
  <2> HIDE DEF S
  <2>1. \A i \in 0..count : i \in S
    BY <1>2, <1>4, <1>5, CountUp, Zenon
  <2> QED BY <1>2, <2>1
<1>7. Same(after[count]) /\ First(after[count])
  <2> HIDE DEF Same, First
  <2> QED BY <1>1, <1>2, <1>6
<1> QED BY <1>1, <1>7 DEF PageReserved

\* The loop of VMM_FreePages: its second turn is about a page that is not there.
LEMMA UnmapRunOwned ==
  ASSUME NEW m \in Memories, NEW held \in SUBSET Heap, Owned(m, {}), PagesHeld(m, held),
         NEW base \in Heap, NEW count \in 1..20,
         ~UnmapRun(m, base, count).missed
  PROVE  LET n == UnmapRun(m, base, count)
         IN /\ count = 1 /\ Owned(n, {})
            /\ \A p \in PageNumbers : p # base => n.pages[p] = m.pages[p]
            /\ m.pages[base].present /\ ~n.pages[base].present
            /\ n.pages[base].reserved = m.pages[base].reserved
            /\ \A d \in Directory : m.tables[d].present => n.tables[d].present
<1>0. base \in PageNumbers
  BY HeapFacts
<1>1. PICK after \in [0..count -> Memories] :
        /\ after[0] = m
        /\ \A i \in 1..count : after[i] = UnmapPage(after[i - 1], ShiftedPage(base, i - 1))
        /\ UnmapRun(m, base, count) = after[count]
  <2>1. PICK after \in [0..count -> Memories] : IsUnmapRun(after, m, base, count)
    BY <1>0, UnmapRunTurns
  <2> QED BY <2>1 DEF IsUnmapRun
<1>2. count \in Nat /\ count # 0 /\ 1 \in 0..count /\ 1 \in 1..count /\ 1 - 1 = 0
  BY SMT
<1>3. after[1] = UnmapPage(m, base)
  <2>1. ShiftedPage(base, 0) = base
    BY <1>0, ShiftedPages
  <2> QED BY <1>1, <1>2, <2>1
<1>4. PICK t \in Memories :
        /\ t = WithTable(m, base)
        /\ \A d \in Directory : m.tables[d].present => t.tables[d].present
  BY <1>0, WithTableLeaves
<1>5. PICK b \in Memories : b = after[1]
  BY <1>1, <1>2
<1>6. /\ b.tables = t.tables
      /\ \A p \in PageNumbers : p # base => b.pages[p] = m.pages[p]
      /\ ~b.pages[base].present
      /\ b.pages[base].reserved = m.pages[base].reserved
  <2> DEFINE n == UnmapPage(m, base)
  <2>1. /\ n.tables = WithTable(m, base).tables
        /\ \A p \in PageNumbers : p # base => n.pages[p] = m.pages[p]
        /\ ~n.pages[base].present
        /\ n.pages[base].reserved = m.pages[base].reserved
    BY <1>0, UnmapPageLeaves
  <2>2. n = b /\ WithTable(m, base) = t
    BY <1>3, <1>4, <1>5
  <2> HIDE DEF n
  <2> QED BY <2>1, <2>2
<1>7. CASE count = 1
  <2>1. ~b.missed
    BY <1>1, <1>5, <1>7
  <2>2. Owned(b, {}) /\ m.pages[base].present
    BY <1>0, <1>3, <1>5, <2>1, UnmapOwned
  <2> QED BY <1>1, <1>4, <1>5, <1>6, <1>7, <2>2
<1>8. CASE count # 1
  <2> DEFINE S == { i \in 0..count : i \in {0, 1} \/ after[i].missed }
  <2>1. 0 \in S
    BY <1>2
  <2>2. ASSUME NEW i \in 1..count, i - 1 \in S PROVE i \in S
    <3>1. i \in 0..count /\ i - 1 \in 0..19 /\ i - 1 \in 0..count
      BY <1>2
    <3>2. PICK page \in PageNumbers : page = ShiftedPage(base, i - 1)
      BY <1>0, <3>1, ShiftedPages
    <3>3. PICK a \in Memories : a = after[i - 1]
      BY <1>1, <3>1
    <3>4. after[i] = UnmapPage(a, page)
      BY <1>1, <3>2, <3>3
    <3>5. CASE i = 1
      BY <3>1, <3>5
    <3>6. CASE i = 2
      <4>1. page \notin Heap
        BY <1>0, <3>2, <3>6, ShiftedPages
      <4>2. ~m.pages[page].present
        BY <4>1 DEF PagesHeld
      <4>3. a = b
        BY <1>5, <3>3, <3>6
      <4>4. ~a.pages[page].present
        BY <1>6, <4>2, <4>3
      <4>5. UnmapPage(a, page).missed
        BY <4>4, UnmapPageLeaves
      <4> QED BY <3>1, <3>4, <4>5
    <3>7. CASE i # 1 /\ i # 2
      <4>1. a.missed
        BY <2>2, <3>1, <3>3, <3>7
      <4> QED BY <3>1, <3>4, <4>1, MissedStays
    <3> QED BY <3>5, <3>6, <3>7
  <2>3. count \in S
    <3> HIDE DEF S
    <3>1. \A i \in 0..count : i \in S
      BY <1>2, <2>1, <2>2, CountUp, Zenon
    <3> QED BY <1>2, <3>1
  <2> QED BY <1>1, <1>2, <1>8, <2>3
<1> QED BY <1>7, <1>8

-----------------------------------------------------------------------------
(***************************************************************************)
(* The inductive invariant of the page tables.  A page can be mapped       *)
(* because nobody holds it, so its entry is not there; its frame is nobody *)
(* else's because it was free or on its way; and the runs callers hold     *)
(* keep their frames because their pages stay theirs.                      *)
(***************************************************************************)

\* The contiguous runs callers hold are pages of theirs, with consecutive frames.
RunsKept(m, held, runs) ==
  \A r \in runs :
    /\ r.base \in Heap /\ r.base \in Run(r.base, r.count) /\ Run(r.base, r.count) \subseteq held
    /\ \A p \in Run(r.base, r.count) :
         m.pages[p].present /\ m.pages[p].frame = m.pages[r.base].frame + (p - r.base)

OwnedInv == ~mem.missed => /\ Owned(mem, {}) /\ PagesHeld(mem, used)
                           /\ RunsKept(mem, used, dma)

\* Callers ask for blocks, or for more than there are in any.
BlockRequests == AllocateCounts \subseteq BlockOrTooMany

\* Runs keep their frames when their entries do.
LEMMA RunsStay ==
  ASSUME NEW m, NEW n, NEW held, NEW left, NEW runs, NEW kept \in SUBSET runs,
         held \subseteq Heap, RunsKept(m, held, runs),
         \A r \in kept : \A p \in Run(r.base, r.count) :
           /\ p \in held => p \in left
           /\ p \in held /\ m.pages[p].present =>
                n.pages[p].present /\ n.pages[p].frame = m.pages[p].frame
  PROVE  RunsKept(n, left, kept)
<1> SUFFICES ASSUME NEW r \in kept
             PROVE  /\ r.base \in Heap /\ r.base \in Run(r.base, r.count)
                    /\ Run(r.base, r.count) \subseteq left
                    /\ \A p \in Run(r.base, r.count) :
                         /\ n.pages[p].present
                         /\ n.pages[p].frame = n.pages[r.base].frame + (p - r.base)
  BY DEF RunsKept
<1>1. /\ r.base \in Heap /\ r.base \in Run(r.base, r.count) /\ Run(r.base, r.count) \subseteq held
      /\ \A p \in Run(r.base, r.count) :
           m.pages[p].present /\ m.pages[p].frame = m.pages[r.base].frame + (p - r.base)
  BY DEF RunsKept
<1>2. \A p \in Run(r.base, r.count) :
        n.pages[p].present /\ n.pages[p].frame = m.pages[p].frame
  BY <1>1
<1>3. Run(r.base, r.count) \subseteq left
  BY <1>1
<1> QED BY <1>1, <1>2, <1>3

LEMMA OwnedInit == TablesInit => OwnedInv
<1> SUFFICES ASSUME TablesInit PROVE Owned(mem, {}) /\ PagesHeld(mem, used) /\ RunsKept(mem, used, dma)
  BY DEF OwnedInv
<1>1. /\ mem.bitmaps = BootBitmaps /\ used = {} /\ dma = {}
      /\ mem.pages = [p \in PageNumbers |-> Entry(0, FALSE, FALSE)]
      /\ mem.tables = [d \in Directory |-> IF d \in DOMAIN KernelTables
                                            THEN Entry(KernelTables[d], FALSE, TRUE)
                                            ELSE Entry(0, TRUE, FALSE)]
  BY DEF TablesInit
<1>2. \A p \in PageNumbers : ~mem.pages[p].present /\ ~mem.pages[p].reserved
  BY <1>1 DEF Entry
<1>3. \A d \in Directory :
        /\ d \in DOMAIN KernelTables => mem.tables[d].present
        /\ d \notin DOMAIN KernelTables => ~mem.tables[d].present /\ mem.tables[d].frame = 0
  BY <1>1 DEF Entry
<1>4. FramesIn(mem.pages, PageNumbers) = {} /\ Apart(mem.pages, PageNumbers)
  BY <1>2 DEF FramesIn, Apart
<1>5. \A d \in FaultTables : ~mem.tables[d].present
  BY <1>3 DEF FaultTables
<1>6. FramesIn(mem.tables, FaultTables) = {} /\ Apart(mem.tables, FaultTables)
  BY <1>5 DEF FramesIn, Apart
<1>7. FreeOnce(mem.bitmaps) /\ FreeFramesOf(mem.bitmaps) = Usable
  BY <1>1, BootAssumption DEF Usable
<1>8. Divided(FreeFramesOf(mem.bitmaps), {}, {}, {})
  BY <1>7 DEF Divided
<1>9. Owned(mem, {})
  BY <1>3, <1>4, <1>6, <1>7, <1>8, KernelAssumption DEF Owned
<1>10. PagesHeld(mem, used)
  BY <1>2, HeapFacts DEF PagesHeld
<1>11. RunsKept(mem, used, dma)
  BY <1>1 DEF RunsKept
<1> QED BY <1>9, <1>10, <1>11

\* A call of VMM_AllocatePages.
LEMMA OwnedAllocate ==
  ASSUME TablesInv, OwnedInv, BlockRequests,
         NEW count \in AllocateCounts, NEW contiguous \in BOOLEAN,
         VMM_AllocatePages(count, contiguous), ~mem'.missed
  PROVE  /\ Owned(mem', {}) /\ PagesHeld(mem', used') /\ RunsKept(mem', used', dma')
         /\ \A p \in used' : \/ mem'.pages[p].present /\ mem'.tables[TableOf(p)].present
                             \/ p \in used /\ mem'.pages[p] = mem.pages[p]
         /\ \A d \in Directory : mem.tables[d].present => mem'.tables[d].present
<1>1. /\ mem \in Memories /\ used \subseteq Heap /\ answer \in Heap \cup {0}
  BY DEF TablesInv
<1>2. PICK base \in Heap \cup {0} :
        /\ AllocateBlock(base, count)
        /\ mem' = Noting(MapRun(mem, base, count, contiguous), base)
        /\ dma' = IF contiguous THEN dma \cup {[base |-> base, count |-> count]} ELSE dma
  BY DEF VMM_AllocatePages
<1>3. ~mem.missed /\ Owned(mem, {}) /\ PagesHeld(mem, used) /\ RunsKept(mem, used, dma)
  BY DEF VMM_AllocatePages, Runs, OwnedInv
<1>4. /\ base \in Nat /\ base \in PageNumbers /\ base + count <= PageCount
      /\ base # 0 => /\ Run(base, count) \subseteq Heap \ used
                     /\ used' = used \cup Run(base, count)
  BY <1>1, <1>2, BlockOfPages
<1>5. count \in 1..PageCount /\ count \in Nat /\ count \in BlockOrTooMany
  BY CountFacts DEF BlockRequests
<1>6. PICK n \in Memories : n = MapRun(mem, base, count, contiguous)
  BY <1>1, <1>4, <1>5, MapRunTyped
<1>7. /\ mem'.bitmaps = n.bitmaps /\ mem'.pages = n.pages /\ mem'.tables = n.tables
      /\ ~n.missed /\ base # 0
  BY <1>2, <1>4, <1>6, NotingLeaves
<1>8. Owned(n, {}) /\ PagesMapped(mem, n, base, count)
  <2>1. CASE contiguous
    <3>1. contiguous = TRUE
      BY <2>1
    <3> QED BY <1>1, <1>3, <1>4, <1>5, <1>6, <1>7, <3>1, MapRunContiguous
  <2>2. CASE ~contiguous
    <3>1. contiguous = FALSE
      BY <2>2
    <3> QED BY <1>1, <1>3, <1>4, <1>5, <1>6, <1>7, <3>1, MapRunScattered
  <2> QED BY <2>1, <2>2
<1>9. contiguous => \A p \in Run(base, count) :
        n.pages[p].frame = FirstFrame(mem, count) + (p - base)
  <2> SUFFICES ASSUME contiguous = TRUE
               PROVE  \A p \in Run(base, count) :
                        n.pages[p].frame = FirstFrame(mem, count) + (p - base)
    OBVIOUS
  <2> QED BY <1>1, <1>3, <1>4, <1>5, <1>6, <1>7, MapRunContiguous
<1>10. /\ Run(base, count) \subseteq Heap /\ Run(base, count) \cap used = {}
       /\ used' = used \cup Run(base, count)
       /\ \A p \in Heap : p \in PageNumbers
  BY <1>4, <1>7, HeapFacts
<1>11. Owned(mem', {})
  BY <1>7, <1>8 DEF Owned
<1>12. PagesHeld(mem', used')
  <2>1. ASSUME NEW p \in PageNumbers, n.pages[p].present PROVE p \in used'
    BY <1>3, <1>8, <1>10, <2>1 DEF PagesMapped, PagesHeld
  <2>2. ASSUME NEW p \in Heap, n.pages[p].reserved
        PROVE  p \in used' /\ ~n.pages[p].present /\ n.pages[p].frame = 0
    <3>1. CASE p \in Run(base, count)
      <4>1. mem.pages[p].reserved
        BY <1>8, <2>2, <3>1 DEF PagesMapped
      <4>2. p \in used
        BY <1>3, <4>1 DEF PagesHeld
      <4> QED BY <1>10, <3>1, <4>2
    <3>2. CASE p \notin Run(base, count)
      <4>1. n.pages[p] = mem.pages[p]
        BY <1>8, <1>10, <3>2 DEF PagesMapped
      <4> QED BY <1>3, <1>10, <2>2, <4>1 DEF PagesHeld
    <3> QED BY <3>1, <3>2
  <2> QED BY <1>7, <2>1, <2>2 DEF PagesHeld
<1>13. \A p \in used : mem'.pages[p] = mem.pages[p]
  BY <1>1, <1>7, <1>8, <1>10 DEF PagesMapped
<1>14. RunsKept(mem', used', dma)
  <2>1. \A r \in dma : \A p \in Run(r.base, r.count) :
          /\ p \in used => p \in used'
          /\ p \in used /\ mem.pages[p].present =>
               mem'.pages[p].present /\ mem'.pages[p].frame = mem.pages[p].frame
    BY <1>10, <1>13
  <2>2. dma \in SUBSET dma
    OBVIOUS
  <2> QED BY <1>1, <1>3, <2>1, <2>2, RunsStay
<1>15. RunsKept(mem', used', dma')
  <2>1. CASE ~contiguous
    BY <1>2, <1>14, <2>1
  <2>2. CASE contiguous
    <3> DEFINE r == [base |-> base, count |-> count]
    <3>1. base \in Run(base, count) /\ base \in Heap
      BY <1>2, <1>4, <1>5, <1>7 DEF Run
    <3>2. Run(base, count) \subseteq used'
      BY <1>10
    <3>3. \A p \in Run(base, count) : mem'.pages[p].present
      BY <1>7, <1>8 DEF PagesMapped
    <3>4. PICK f \in Frames : f = FirstFrame(mem, count)
      BY <1>1, <1>5, TakeFramesLeaves
    <3>5. \A p \in Run(base, count) : mem'.pages[p].frame = f + (p - base)
      BY <1>7, <1>9, <2>2, <3>4
    <3>6. mem'.pages[base].frame = f
      BY <1>4, <3>1, <3>4, <3>5 DEF Frames
    <3>7. RunsKept(mem', used', {r})
      BY <3>1, <3>2, <3>3, <3>5, <3>6 DEF RunsKept
    <3>8. dma' = dma \cup {r}
      BY <1>2, <2>2
    <3> QED BY <1>14, <3>7, <3>8 DEF RunsKept
  <2> QED BY <2>1, <2>2
<1>16. ASSUME NEW p \in used'
       PROVE  \/ mem'.pages[p].present /\ mem'.tables[TableOf(p)].present
              \/ p \in used /\ mem'.pages[p] = mem.pages[p]
  BY <1>7, <1>8, <1>10, <1>13 DEF PagesMapped
<1>17. \A d \in Directory : mem.tables[d].present => mem'.tables[d].present
  BY <1>7, <1>8 DEF PagesMapped
<1> QED BY <1>11, <1>12, <1>15, <1>16, <1>17

\* A call of VMM_ReservePages.
LEMMA OwnedReserve ==
  ASSUME TablesInv, OwnedInv, NEW count \in ReserveCounts,
         VMM_ReservePages(count), ~mem'.missed
  PROVE  /\ Owned(mem', {}) /\ PagesHeld(mem', used') /\ RunsKept(mem', used', dma')
         /\ \A d \in Directory : mem.tables[d].present => mem'.tables[d].present
         /\ count = 1 =>
              \A p \in used' : \/ mem'.pages[p].reserved /\ mem'.tables[TableOf(p)].present
                               \/ p \in used /\ mem'.pages[p] = mem.pages[p]
<1>1. /\ mem \in Memories /\ used \subseteq Heap /\ answer \in Heap \cup {0}
  BY DEF TablesInv
<1>2. PICK base \in Heap \cup {0} :
        /\ AllocateBlock(base, count)
        /\ mem' = Noting(ReserveRun(mem, base, count), base)
        /\ dma' = dma
  BY DEF VMM_ReservePages
<1>3. ~mem.missed /\ Owned(mem, {}) /\ PagesHeld(mem, used) /\ RunsKept(mem, used, dma)
  BY DEF VMM_ReservePages, Runs, OwnedInv
<1>4. /\ base \in Nat /\ base \in PageNumbers /\ base + count <= PageCount
      /\ base # 0 => /\ Run(base, count) \subseteq Heap \ used
                     /\ used' = used \cup Run(base, count)
  BY <1>1, <1>2, BlockOfPages
<1>5. count \in 1..20 /\ count \in Nat /\ 1 <= count
  BY CountFacts
<1>6. PICK n \in Memories : n = ReserveRun(mem, base, count)
  <2>1. PICK after \in [0..count -> Memories] : IsReserveRun(after, mem, base, count)
    BY <1>1, <1>4, <1>5, ReserveRunTurns
  <2>2. count \in 0..count
    BY <1>5
  <2> QED BY <2>1, <2>2 DEF IsReserveRun
<1>7. /\ mem'.bitmaps = n.bitmaps /\ mem'.pages = n.pages /\ mem'.tables = n.tables
      /\ ~n.missed /\ base # 0 /\ base \in Heap
  BY <1>2, <1>4, <1>6, NotingLeaves
<1>8. /\ Owned(n, {})
      /\ \A p \in PageNumbers : /\ n.pages[p].present = mem.pages[p].present
                                /\ n.pages[p].frame = mem.pages[p].frame
      /\ \A p \in Heap \ {base} : n.pages[p] = mem.pages[p]
      /\ n.pages[base].reserved
      /\ ~mem.pages[base].present /\ mem.pages[base].frame = 0
      /\ n.tables[TableOf(base)].present
      /\ \A d \in Directory : mem.tables[d].present => n.tables[d].present
  <2>1. ~ReserveRun(mem, base, count).missed /\ Owned(mem, {}) /\ mem \in Memories
    BY <1>1, <1>3, <1>6, <1>7
  <2>2. base \in Heap /\ count \in 1..20
    BY <1>5, <1>7
  <2>3. Owned(n, {}) /\ PageReserved(mem, n, base)
    BY <1>6, <2>1, <2>2, ReserveRunOwned
  <2> QED BY <2>3 DEF PageReserved
<1>9. /\ used' = used \cup Run(base, count) /\ base \in Run(base, count)
      /\ base \notin used /\ \A p \in Heap : p \in PageNumbers
  BY <1>4, <1>5, <1>7, HeapFacts DEF Run
<1>10. Owned(mem', {})
  BY <1>7, <1>8 DEF Owned
<1>11. PagesHeld(mem', used')
  <2>1. ASSUME NEW p \in PageNumbers, n.pages[p].present PROVE p \in used'
    BY <1>3, <1>8, <1>9, <2>1 DEF PagesHeld
  <2>2. ASSUME NEW p \in Heap, n.pages[p].reserved
        PROVE  p \in used' /\ ~n.pages[p].present /\ n.pages[p].frame = 0
    <3>1. CASE p = base
      BY <1>8, <1>9, <3>1
    <3>2. CASE p # base
      <4>1. n.pages[p] = mem.pages[p]
        BY <1>8, <3>2
      <4> QED BY <1>3, <1>9, <2>2, <4>1 DEF PagesHeld
    <3> QED BY <3>1, <3>2
  <2> QED BY <1>7, <2>1, <2>2 DEF PagesHeld
<1>12. RunsKept(mem', used', dma')
  <2>1. \A r \in dma : \A p \in Run(r.base, r.count) :
          /\ p \in used => p \in used'
          /\ p \in used /\ mem.pages[p].present =>
               mem'.pages[p].present /\ mem'.pages[p].frame = mem.pages[p].frame
    BY <1>1, <1>7, <1>8, <1>9
  <2>2. dma \in SUBSET dma
    OBVIOUS
  <2>3. RunsKept(mem', used', dma)
    BY <1>1, <1>3, <2>1, <2>2, RunsStay
  <2> QED BY <1>2, <2>3
<1>13. ASSUME count = 1, NEW p \in used'
       PROVE  \/ mem'.pages[p].reserved /\ mem'.tables[TableOf(p)].present
              \/ p \in used /\ mem'.pages[p] = mem.pages[p]
  <2>1. Run(base, count) = {base}
    BY <1>4, <1>13 DEF Run
  <2>2. CASE p = base
    BY <1>7, <1>8, <2>2
  <2>3. CASE p # base
    <3>1. p \in used /\ p \in Heap
      BY <1>1, <1>9, <2>1, <2>3
    <3> QED BY <1>7, <1>8, <2>3, <3>1
  <2> QED BY <2>2, <2>3
<1>14. \A d \in Directory : mem.tables[d].present => mem'.tables[d].present
  BY <1>7, <1>8
<1> QED BY <1>10, <1>11, <1>12, <1>13, <1>14

\* A call of VMM_FreePages.
LEMMA OwnedFree ==
  ASSUME TablesInv, OwnedInv, NEW count \in FreeCounts, NEW address \in Heap,
         VMM_FreePages(address, count), ~mem'.missed
  PROVE  /\ Owned(mem', {}) /\ PagesHeld(mem', used') /\ RunsKept(mem', used', dma')
         /\ \A p \in used' : p \in used /\ mem'.pages[p] = mem.pages[p]
         /\ \A d \in Directory : mem.tables[d].present => mem'.tables[d].present
<1>1. /\ mem \in Memories /\ used \subseteq Heap
  BY DEF TablesInv
<1>2. /\ mem' = UnmapRun(mem, address, count)
      /\ dma' = { r \in dma : Run(r.base, r.count) \cap Run(address, count) = {} }
      /\ used' = used \ Run(address, count)
  BY DEF VMM_FreePages, Blocks!Release, Blocks!Run, Run
<1>3. ~mem.missed /\ Owned(mem, {}) /\ PagesHeld(mem, used) /\ RunsKept(mem, used, dma)
  BY DEF VMM_FreePages, Runs, OwnedInv
<1>4. count \in 1..20
  BY CountFacts
<1>5. /\ count = 1 /\ Owned(mem', {})
      /\ \A p \in PageNumbers : p # address => mem'.pages[p] = mem.pages[p]
      /\ mem.pages[address].present /\ ~mem'.pages[address].present
      /\ mem'.pages[address].reserved = mem.pages[address].reserved
      /\ \A d \in Directory : mem.tables[d].present => mem'.tables[d].present
  BY <1>1, <1>2, <1>3, <1>4, UnmapRunOwned
<1>6. /\ Run(address, count) = {address} /\ used' = used \ {address}
      /\ \A p \in Heap : p \in PageNumbers
  <2>1. address \in Nat
    BY HeapFacts DEF PageNumbers
  <2>2. Run(address, count) = {address}
    BY <1>5, <2>1 DEF Run
  <2> QED BY <1>2, <2>2, HeapFacts
<1>7. PagesHeld(mem', used')
  <2>1. ASSUME NEW p \in PageNumbers, mem'.pages[p].present PROVE p \in used'
    <3>1. p # address /\ mem'.pages[p] = mem.pages[p]
      BY <1>5, <2>1
    <3> QED BY <1>3, <1>6, <2>1, <3>1 DEF PagesHeld
  <2>2. ASSUME NEW p \in Heap, mem'.pages[p].reserved
        PROVE  p \in used' /\ ~mem'.pages[p].present /\ mem'.pages[p].frame = 0
    <3>1. CASE p = address
      BY <1>3, <1>5, <2>2, <3>1 DEF PagesHeld
    <3>2. CASE p # address
      <4>1. mem'.pages[p] = mem.pages[p]
        BY <1>5, <1>6, <3>2
      <4> QED BY <1>3, <1>6, <2>2, <3>2, <4>1 DEF PagesHeld
    <3> QED BY <3>1, <3>2
  <2> QED BY <2>1, <2>2 DEF PagesHeld
<1>8. RunsKept(mem', used', dma')
  <2>1. dma' \in SUBSET dma
    BY <1>2
  <2>2. \A r \in dma' : \A p \in Run(r.base, r.count) :
          /\ p \in used => p \in used'
          /\ p \in used /\ mem.pages[p].present =>
               mem'.pages[p].present /\ mem'.pages[p].frame = mem.pages[p].frame
    <3> SUFFICES ASSUME NEW r \in dma', NEW p \in Run(r.base, r.count), p \in used
                 PROVE  p \in used' /\ mem'.pages[p] = mem.pages[p]
      OBVIOUS
    <3>1. p # address
      BY <1>2, <1>6
    <3> QED BY <1>1, <1>5, <1>6, <3>1
  <2> QED BY <1>1, <1>3, <2>1, <2>2, RunsStay
<1>9. \A p \in used' : p \in used /\ mem'.pages[p] = mem.pages[p]
  BY <1>1, <1>5, <1>6
<1> QED BY <1>5, <1>7, <1>8, <1>9

\* A page fault.
LEMMA OwnedFault ==
  ASSUME TablesInv, OwnedInv, NEW page \in Heap,
         VMM_PageFaultHandler(page), ~mem'.missed
  PROVE  /\ Owned(mem', {}) /\ PagesHeld(mem', used') /\ RunsKept(mem', used', dma')
         /\ mem'.tables = mem.tables
         /\ \A p \in used : mem'.pages[p] = mem.pages[p] \/ mem'.pages[p].present
<1>1. /\ mem \in Memories /\ used \subseteq Heap
  BY DEF TablesInv
<1>2. /\ used' = used /\ dma' = dma /\ page \in used /\ ~mem.pages[page].present
      /\ ~mem.missed
  BY DEF VMM_PageFaultHandler, Runs
<1>3. Owned(mem, {}) /\ PagesHeld(mem, used) /\ RunsKept(mem, used, dma)
  BY <1>2 DEF OwnedInv
<1>4. CASE mem' = mem
  BY <1>2, <1>3, <1>4
<1>5. CASE mem.pages[page].reserved /\ mem' = FaultIn(mem, page)
  <2>1. page \in PageNumbers /\ \A p \in Heap : p \in PageNumbers
    BY HeapFacts
  <2>2. mem.pages[page].frame = 0
    BY <1>3, <1>5 DEF PagesHeld
  <2>3. /\ mem'.tables = mem.tables
        /\ \A p \in PageNumbers : p # page => mem'.pages[p] = mem.pages[p]
        /\ mem'.pages[page].present /\ ~mem'.pages[page].reserved
    BY <1>1, <1>5, <2>1, FaultInLeaves
  <2>4. Owned(mem', {})
    BY <1>1, <1>2, <1>3, <1>5, <2>1, <2>2, FaultOwned
  <2>5. PagesHeld(mem', used)
    <3>1. ASSUME NEW p \in PageNumbers, mem'.pages[p].present PROVE p \in used
      BY <1>2, <1>3, <2>3, <3>1 DEF PagesHeld
    <3>2. ASSUME NEW p \in Heap, mem'.pages[p].reserved
          PROVE  p \in used /\ ~mem'.pages[p].present /\ mem'.pages[p].frame = 0
      <4>1. mem'.pages[p] = mem.pages[p]
        BY <2>1, <2>3, <3>2
      <4> QED BY <1>3, <3>2, <4>1 DEF PagesHeld
    <3> QED BY <3>1, <3>2 DEF PagesHeld
  <2>6. RunsKept(mem', used, dma)
    <3>1. \A r \in dma : \A p \in Run(r.base, r.count) :
            /\ p \in used => p \in used
            /\ p \in used /\ mem.pages[p].present =>
                 mem'.pages[p].present /\ mem'.pages[p].frame = mem.pages[p].frame
      BY <1>1, <1>2, <2>1, <2>3
    <3>2. dma \in SUBSET dma
      OBVIOUS
    <3> QED BY <1>1, <1>3, <3>1, <3>2, RunsStay
  <2> QED BY <1>1, <1>2, <2>1, <2>3, <2>4, <2>5, <2>6
<1> QED BY <1>4, <1>5 DEF VMM_PageFaultHandler, FaultIn

LEMMA OwnedNext ==
  ASSUME BlockRequests
  PROVE  TablesInv /\ OwnedInv /\ [TablesNext]_tableVars => OwnedInv'
<1> SUFFICES ASSUME TablesInv, OwnedInv, [TablesNext]_tableVars, ~mem'.missed
             PROVE  Owned(mem', {}) /\ PagesHeld(mem', used') /\ RunsKept(mem', used', dma')
  BY DEF OwnedInv
<1>1. ASSUME NEW count \in AllocateCounts, NEW contiguous \in BOOLEAN,
             VMM_AllocatePages(count, contiguous)
      PROVE  Owned(mem', {}) /\ PagesHeld(mem', used') /\ RunsKept(mem', used', dma')
  BY <1>1, OwnedAllocate
<1>2. ASSUME NEW count \in ReserveCounts, VMM_ReservePages(count)
      PROVE  Owned(mem', {}) /\ PagesHeld(mem', used') /\ RunsKept(mem', used', dma')
  BY <1>2, OwnedReserve
<1>3. ASSUME NEW count \in FreeCounts, NEW address \in Heap, VMM_FreePages(address, count)
      PROVE  Owned(mem', {}) /\ PagesHeld(mem', used') /\ RunsKept(mem', used', dma')
  BY <1>3, OwnedFree
<1>4. ASSUME NEW page \in Heap, VMM_PageFaultHandler(page)
      PROVE  Owned(mem', {}) /\ PagesHeld(mem', used') /\ RunsKept(mem', used', dma')
  BY <1>4, OwnedFault
<1>5. CASE UNCHANGED tableVars
  BY <1>5 DEF OwnedInv, tableVars
<1> QED BY <1>1, <1>2, <1>3, <1>4, <1>5 DEF TablesNext

\* As long as nothing was missed, every frame the machine gave is free, or has
\* one page of a caller, or has one page table: none is lost and none is shared,
\* whatever is allocated, reserved, freed and touched, in any order.
THEOREM FramesAlwaysOwned ==
  ASSUME BlockRequests
  PROVE  TablesSpec => []FramesOwned
<1>1. TablesInit => TablesInv /\ OwnedInv
  BY TablesInvInit, OwnedInit
<1>2. TablesInv /\ OwnedInv /\ [TablesNext]_tableVars => (TablesInv /\ OwnedInv)'
  BY TablesInvNext, OwnedNext
<1>3. OwnedInv => FramesOwned
  <2> SUFFICES ASSUME Owned(mem, {}), ~mem.missed PROVE FramesOwned
    BY DEF OwnedInv, FramesOwned
  <2>1. /\ PageFrames = FramesIn(mem.pages, PageNumbers)
        /\ TableFrames = FramesIn(mem.tables, FaultTables)
    BY DEF PageFrames, TableFrames, PresentPages, NewTables, FramesIn, FaultTables
  <2>2. Divided(FreeFramesOf(mem.bitmaps), {}, PageFrames, TableFrames)
    BY <2>1 DEF Owned
  <2>3. /\ PageFrames \cap TableFrames = {}
        /\ FreeFramesOf(mem.bitmaps) \cap (PageFrames \cup TableFrames) = {}
        /\ FreeFramesOf(mem.bitmaps) \cup PageFrames \cup TableFrames = Usable
    BY <2>2 DEF Divided
  <2>4. \A p, q \in PresentPages : p # q => mem.pages[p].frame # mem.pages[q].frame
    BY DEF Owned, Apart, PresentPages
  <2>5. \A d, e \in NewTables : d # e => mem.tables[d].frame # mem.tables[e].frame
    BY DEF Owned, Apart, NewTables, FaultTables
  <2> QED BY <2>3, <2>4, <2>5 DEF FramesOwned
<1> QED BY <1>1, <1>2, <1>3, PTL DEF TablesSpec

\* As long as nothing was missed, a contiguous run keeps consecutive frames,
\* whatever tables were made while it was mapped and whatever was done to other
\* pages since.
THEOREM RunsStayContiguous ==
  ASSUME BlockRequests
  PROVE  TablesSpec => []RunsContiguous
<1>1. TablesInit => TablesInv /\ OwnedInv
  BY TablesInvInit, OwnedInit
<1>2. TablesInv /\ OwnedInv /\ [TablesNext]_tableVars => (TablesInv /\ OwnedInv)'
  BY TablesInvNext, OwnedNext
<1>3. OwnedInv => RunsContiguous
  BY DEF OwnedInv, RunsKept, RunsContiguous
<1> QED BY <1>1, <1>2, <1>3, PTL DEF TablesSpec

\* A page a caller holds is there, or is marked reserved in a table that is.
TouchInv ==
  /\ ~stopped
  /\ ~mem.missed =>
       \A p \in used : /\ mem.tables[TableOf(p)].present
                       /\ mem.pages[p].present \/ mem.pages[p].reserved

LEMMA TouchNext ==
  ASSUME BlockRequests, ReserveCounts \subseteq {1}
  PROVE  TablesInv /\ OwnedInv /\ TouchInv /\ [TablesNext]_tableVars => TouchInv'
<1> DEFINE Safe(p) == /\ mem.tables[TableOf(p)].present
                      /\ mem.pages[p].present \/ mem.pages[p].reserved
           Ready == ~mem'.missed =>
                      \A p \in used' :
                        /\ mem'.tables[TableOf(p)].present
                        /\ mem'.pages[p].present \/ mem'.pages[p].reserved
<1> SUFFICES ASSUME TablesInv, OwnedInv, TouchInv, [TablesNext]_tableVars
             PROVE  TouchInv'
  OBVIOUS
<1>1. ~stopped /\ (~mem.missed => \A p \in used : Safe(p))
  BY DEF TouchInv
<1>2. \A p \in used : TableOf(p) \in Directory
  BY HeapFacts, TableInDirectory DEF TablesInv
<1>3. ASSUME NEW count \in AllocateCounts, NEW contiguous \in BOOLEAN,
             VMM_AllocatePages(count, contiguous)
      PROVE  Ready /\ ~stopped'
  <2>1. ~stopped' /\ ~mem.missed
    BY <1>1, <1>3 DEF VMM_AllocatePages, Runs
  <2>2. ASSUME ~mem'.missed, NEW p \in used'
        PROVE  /\ mem'.tables[TableOf(p)].present
               /\ mem'.pages[p].present \/ mem'.pages[p].reserved
    <3>1. /\ \/ mem'.pages[p].present /\ mem'.tables[TableOf(p)].present
             \/ p \in used /\ mem'.pages[p] = mem.pages[p]
          /\ \A d \in Directory : mem.tables[d].present => mem'.tables[d].present
      BY <1>3, <2>2, OwnedAllocate
    <3> QED BY <1>1, <1>2, <2>1, <3>1
  <2> QED BY <2>1, <2>2
<1>4. ASSUME NEW count \in ReserveCounts, VMM_ReservePages(count)
      PROVE  Ready /\ ~stopped'
  <2>1. ~stopped' /\ ~mem.missed /\ count = 1
    BY <1>1, <1>4 DEF VMM_ReservePages, Runs
  <2>2. ASSUME ~mem'.missed, NEW p \in used'
        PROVE  /\ mem'.tables[TableOf(p)].present
               /\ mem'.pages[p].present \/ mem'.pages[p].reserved
    <3>1. /\ \/ mem'.pages[p].reserved /\ mem'.tables[TableOf(p)].present
             \/ p \in used /\ mem'.pages[p] = mem.pages[p]
          /\ \A d \in Directory : mem.tables[d].present => mem'.tables[d].present
      BY <1>4, <2>1, <2>2, OwnedReserve
    <3> QED BY <1>1, <1>2, <2>1, <3>1
  <2> QED BY <2>1, <2>2
<1>5. ASSUME NEW count \in FreeCounts, NEW address \in Heap, VMM_FreePages(address, count)
      PROVE  Ready /\ ~stopped'
  <2>1. ~stopped' /\ ~mem.missed
    BY <1>1, <1>5 DEF VMM_FreePages, Runs
  <2>2. ASSUME ~mem'.missed, NEW p \in used'
        PROVE  /\ mem'.tables[TableOf(p)].present
               /\ mem'.pages[p].present \/ mem'.pages[p].reserved
    <3>1. /\ p \in used /\ mem'.pages[p] = mem.pages[p]
          /\ \A d \in Directory : mem.tables[d].present => mem'.tables[d].present
      BY <1>5, <2>2, OwnedFree
    <3> QED BY <1>1, <1>2, <2>1, <3>1
  <2> QED BY <2>1, <2>2
<1>6. ASSUME NEW page \in Heap, VMM_PageFaultHandler(page)
      PROVE  Ready /\ ~stopped'
  <2>1. ~mem.missed /\ page \in used /\ ~mem.pages[page].present /\ used' = used
    BY <1>6 DEF VMM_PageFaultHandler, Runs
  <2>2. Safe(page)
    BY <1>1, <2>1
  <2>3. ~stopped'
    BY <1>1, <1>6, <2>1, <2>2 DEF VMM_PageFaultHandler
  <2>4. ASSUME ~mem'.missed, NEW p \in used'
        PROVE  /\ mem'.tables[TableOf(p)].present
               /\ mem'.pages[p].present \/ mem'.pages[p].reserved
    <3>1. /\ mem'.tables = mem.tables
          /\ \A q \in used : mem'.pages[q] = mem.pages[q] \/ mem'.pages[q].present
      BY <1>6, <2>4, OwnedFault
    <3> QED BY <1>1, <2>1, <3>1
  <2> QED BY <2>3, <2>4
<1>7. CASE UNCHANGED tableVars
  BY <1>1, <1>7 DEF tableVars, TouchInv
<1> QED BY <1>3, <1>4, <1>5, <1>6, <1>7 DEF TablesNext, TouchInv

\* When pages are reserved one at a time, no caller that touches a page it
\* holds halts the kernel: the page is there, or its fault brings it in.  (Of
\* more pages the code marks only the first.)
THEOREM TouchingAlwaysSafe ==
  ASSUME BlockRequests, ReserveCounts \subseteq {1}
  PROVE  TablesSpec => []TouchingIsSafe
<1> DEFINE All == TablesInv /\ OwnedInv /\ TouchInv
<1>1. TablesInit => All
  <2>1. TablesInit => TouchInv
    BY DEF TablesInit, TouchInv
  <2> QED BY <2>1, TablesInvInit, OwnedInit
<1>2. All /\ [TablesNext]_tableVars => All'
  BY TablesInvNext, OwnedNext, TouchNext
<1>3. All => TouchingIsSafe
  BY DEF TouchInv, TouchingIsSafe
<1> QED BY <1>1, <1>2, <1>3, PTL DEF TablesSpec

\* Pages that are given back one at a time are not mapped afterwards, whatever
\* was missed before or is missed then.  (Of more pages the code unmaps only the
\* first, which run vmm_free shows.)
THEOREM FreedPageUnmapped ==
  ASSUME FreeCounts \subseteq {1}
  PROVE  TablesSpec => FreedPagesUnmapped
<1> DEFINE Step == \A p \in used \ used' : ~mem'.pages[p].present
<1>1. TablesInv /\ [TablesNext]_tableVars => [Step]_tableVars
  <2> SUFFICES ASSUME TablesInv, TablesNext, NEW p \in used \ used'
               PROVE  ~mem'.pages[p].present
    BY DEF tableVars
  <2>1. mem \in Memories /\ used \subseteq Heap /\ answer \in Heap \cup {0}
    BY DEF TablesInv
  <2>2. \A count, contiguous : ~VMM_AllocatePages(count, contiguous)
    BY DEF VMM_AllocatePages, AllocateBlock, Blocks!Allocate, Blocks!Fail
  <2>3. \A count : ~VMM_ReservePages(count)
    BY DEF VMM_ReservePages, AllocateBlock, Blocks!Allocate, Blocks!Fail
  <2>4. \A page : ~VMM_PageFaultHandler(page)
    BY DEF VMM_PageFaultHandler
  <2>5. PICK address \in Heap : VMM_FreePages(address, 1)
    BY <2>2, <2>3, <2>4 DEF TablesNext
  <2>6. mem' = UnmapRun(mem, address, 1) /\ used' = used \ Run(address, 1)
    BY <2>5 DEF VMM_FreePages, Blocks!Release, Blocks!Run, Run
  <2>7. address \in PageNumbers /\ address \in Nat /\ 1 \in 1..20
    BY HeapFacts DEF PageNumbers
  <2>8. p = address
    BY <2>6, <2>7 DEF Run
  <2>9. PICK after \in [0..1 -> Memories] : IsUnmapRun(after, mem, address, 1)
    BY <2>1, <2>7, UnmapRunTurns
  <2>10. mem' = UnmapPage(mem, address)
    <3>1. ShiftedPage(address, 0) = address /\ 1 \in 1..1 /\ 1 - 1 = 0
      BY <2>7, ShiftedPages
    <3> QED BY <2>6, <2>9, <3>1 DEF IsUnmapRun
  <2> QED BY <2>1, <2>7, <2>8, <2>10, UnmapPageLeaves
<1> HIDE DEF Step
<1>2. TablesSpec => [][Step]_tableVars
  BY <1>1, TablesInvInit, TablesInvNext, PTL DEF TablesSpec
<1> QED BY <1>2 DEF Step, FreedPagesUnmapped
=============================================================================
