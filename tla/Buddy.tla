------------------------------- MODULE Buddy -------------------------------
(***************************************************************************)
(* What the functions of src/kernel/memory/pmm.c do to the bitmaps of      *)
(* module Bitmaps: PMM_GetFrames, with PMM_FindAndSplit, and               *)
(* PMM_FreeFrames, with PPM_FreeAndCoalesce.  Module PMM makes actions of  *)
(* them and module VMM calls them.                                         *)
(***************************************************************************)
EXTENDS Bitmaps

CONSTANT BootBitmaps  \* the bitmaps PMM_Init leaves

ASSUME BootAssumption == /\ IsBitmaps(BootBitmaps)
                         /\ FreeOnce(BootBitmaps)
                         /\ FrameZeroUsed(BootBitmaps)

\* The frames the machine gave to the allocator.
Usable == FreeFramesOf(BootBitmaps)

-----------------------------------------------------------------------------
(***************************************************************************)
(* PMM_FindAndSplit(level).  The recursion climbs to the first level that  *)
(* has a clear bit and, coming back, marks the lower half of each split    *)
(* block used and the upper half free.  Address 0 stops the marking: it is *)
(* the failure value, returned when level 5 is reached.  (The levels below *)
(* fall off the end of the function without a return statement; the build  *)
(* does not optimise, and leaves the callee's 0 in the return register.)   *)
(***************************************************************************)
HasFreeFrom(bm, level) == \E j \in Levels : j >= level /\ bm[j] # {}

FoundLevel(bm, level) ==
  CHOOSE j \in Levels : /\ j >= level /\ bm[j] # {}
                        /\ \A k \in Levels : level <= k /\ k < j => bm[k] = {}

FirstBit(S) == CHOOSE b \in S : \A c \in S : b <= c

FoundAddress(bm, level) ==
  IF HasFreeFrom(bm, level)
  THEN LET j == FoundLevel(bm, level) IN FirstBit(bm[j]) * Size(j)
  ELSE 0

\* Mutant: the upper half of a split block is not marked free.
AfterSplit_UpperHalfLost(bm, level) ==
  IF ~HasFreeFrom(bm, level) THEN bm
  ELSE LET j == FoundLevel(bm, level)
           a == FoundAddress(bm, level)
       IN [k \in Levels |-> IF k = j THEN bm[k] \ {BitOf(k, a)} ELSE bm[k]]

\* Mutant: the block after the upper half is marked free in its place.
AfterSplit_WrongHalf(bm, level) ==
  IF ~HasFreeFrom(bm, level) THEN bm
  ELSE LET j == FoundLevel(bm, level)
           a == FoundAddress(bm, level)
       IN [k \in Levels |->
             IF k = j THEN bm[k] \ {BitOf(k, a)}
             ELSE IF a # 0 /\ level <= k /\ k < j
                  THEN bm[k] \cup {BitOf(k, a + 2 * Size(k))}
                  ELSE bm[k]]

\* Mutant: the test `address != 0' is missing, so a failed search splits
\* block 0 on the way back.
AfterSplit_NoZeroTest(bm, level) ==
  LET found == HasFreeFrom(bm, level)
      j == IF found THEN FoundLevel(bm, level) ELSE 5
      a == FoundAddress(bm, level)
  IN [k \in Levels |->
        IF found /\ k = j THEN bm[k] \ {BitOf(k, a)}
        ELSE IF level <= k /\ k < j
             THEN (bm[k] \ {BitOf(k, a)}) \cup {BitOf(k, a + Size(k))}
             ELSE bm[k]]

AfterSplit(bm, level) ==
  IF ~HasFreeFrom(bm, level) THEN bm
  ELSE LET j == FoundLevel(bm, level)
           a == FoundAddress(bm, level)
       IN [k \in Levels |->
             IF k = j THEN bm[k] \ {BitOf(k, a)}
             ELSE IF a # 0 /\ level <= k /\ k < j
                  THEN (bm[k] \ {BitOf(k, a)}) \cup {BitOf(k, a + Size(k))}
                  ELSE bm[k]]

(***************************************************************************)
(* PMM_GetFrames(count).  A count that is not a power of two takes a whole *)
(* block and clears ONE bit for what is left over.                         *)
(***************************************************************************)
MaxCount == 16

\* Mutant: a block of up to 16 frames is taken from the 8-frame level.
LevelFor_TooSmall(count) == IF count = 1 THEN 0 ELSE IF count = 2 THEN 1
                            ELSE IF count <= 4 THEN 2 ELSE 3

LevelFor(count) == IF count = 1 THEN 0 ELSE IF count = 2 THEN 1
                   ELSE IF count <= 4 THEN 2 ELSE IF count <= 8 THEN 3 ELSE 4

\* The bits cleared after the block at address a has been taken, as pairs
\* <<level, bit>>.  The last one is cleared in bitmap1 with a level-2 index.
GiveBack(count, a) ==
  LET remaining == Size(LevelFor(count)) - count
  IN IF remaining % 2 = 1 THEN {<<0, a + count>>}
     ELSE IF remaining % 4 = 2 THEN {<<1, (a + count) \div 2>>}
     ELSE IF remaining % 8 = 4 /\ count > 8 THEN {<<1, (a + count) \div 4>>}
     ELSE {}

ClearBits(bm, bits) ==
  [l \in Levels |-> bm[l] \cup { b \in Bits(l) : <<l, b>> \in bits }]

\* What PMM_GetFrames(count) returns, and the bitmaps it leaves.
GetAddress(bm, count) ==
  IF count > MaxCount THEN 0 ELSE FoundAddress(bm, LevelFor(count))

AfterGet(bm, count) ==
  IF count > MaxCount THEN bm
  ELSE ClearBits(AfterSplit(bm, LevelFor(count)),
                 GiveBack(count, GetAddress(bm, count)))

-----------------------------------------------------------------------------
(***************************************************************************)
(* PPM_FreeAndCoalesce(level, address).  The recursion climbs as long as   *)
(* the buddy of the block is free, marking the buddy used.  On level 4 it  *)
(* clears the bit of the block first and does not return: when the buddy   *)
(* is free as well it marks the buddy used and goes on to level 5, where   *)
(* bitmaps[5] lies outside the array.                                      *)
(***************************************************************************)
BuddyOf(b) == IF b % 2 = 0 THEN b + 1 ELSE b - 1

\* Mutant: only the block after the freed one is looked at.
BuddyFree_OnlyAfter(bm, l, a) ==
  LET b == BitOf(l, a) IN b % 2 = 0 /\ b + 1 \in bm[l]

BuddyFree(bm, l, a) == BuddyOf(BitOf(l, a)) \in bm[l]

\* The level the recursion stops at, 5 when it runs past the array.
TopLevel(bm, level, a) ==
  CHOOSE t \in level..5 : /\ \A k \in level..(t - 1) : BuddyFree(bm, k, a)
                          /\ t = 5 \/ ~BuddyFree(bm, t, a)

FreeAndCoalesce(bm, level, a) ==
  LET top == TopLevel(bm, level, a)
  IN [k \in Levels |->
        IF k = 4 /\ top >= 4
        THEN (bm[k] \cup {BitOf(k, a)})
               \ (IF top = 5 THEN {BuddyOf(BitOf(k, a))} ELSE {})
        ELSE IF level <= k /\ k < top THEN bm[k] \ {BuddyOf(BitOf(k, a))}
        ELSE IF k = top THEN bm[k] \cup {BitOf(k, a)}
        ELSE bm[k]]

(***************************************************************************)
(* PMM_FreeFrames(address, count): one FreeAndCoalesce per bit set in      *)
(* count, from the largest block down; a block of 16 is just marked free.  *)
(***************************************************************************)
HasBit(count, l) == (count \div Size(l)) % 2 = 1

\* The block freed on level l starts after the larger ones.
PartAddress(a, count, l) == a + Size(l + 1) * ((count % 16) \div Size(l + 1))

FreePart(bm, a, count, l) ==
  IF HasBit(count, l) THEN FreeAndCoalesce(bm, l, PartAddress(a, count, l))
                      ELSE bm

PartRunsPastArray(bm, a, count, l) ==
  HasBit(count, l) /\ TopLevel(bm, l, PartAddress(a, count, l)) = 5

\* The bitmaps before the block of level l is freed, from level 3 down.
Before(bm, a, count, l) ==
  LET b3 == IF count = 16 THEN [bm EXCEPT ![4] = @ \cup {BitOf(4, a)}] ELSE bm
      b2 == FreePart(b3, a, count, 3)
      b1 == FreePart(b2, a, count, 2)
      b0 == FreePart(b1, a, count, 1)
  IN IF l = 3 THEN b3 ELSE IF l = 2 THEN b2 ELSE IF l = 1 THEN b1 ELSE b0

AfterFree(bm, a, count) == FreePart(Before(bm, a, count, 0), a, count, 0)

RunsPastArray(bm, a, count) ==
  \E l \in 0..3 : PartRunsPastArray(Before(bm, a, count, l), a, count, l)
=============================================================================
