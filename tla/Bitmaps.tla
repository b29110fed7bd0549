------------------------------ MODULE Bitmaps ------------------------------
(***************************************************************************)
(* The five bitmaps of src/kernel/memory/pmm.c, which PMM_Init fills and   *)
(* the allocator works on.  Bit b of level l stands for the block of       *)
(* Size(l) = 2^l frames that starts at frame b * Size(l); a bit is CLEAR   *)
(* when the block is free.  A value `bm' of this module gives for each     *)
(* level the set of the clear bits.                                        *)
(***************************************************************************)
EXTENDS Integers

CONSTANT FrameCount  \* PAGE_COUNT: the number of frames the bitmaps describe

Levels == 0..4

\* 1 << level
Size(l) == IF l = 0 THEN 1 ELSE IF l = 1 THEN 2 ELSE IF l = 2 THEN 4
           ELSE IF l = 3 THEN 8 ELSE 16

Frames == 0..(FrameCount - 1)

Bits(l) == 0..(FrameCount \div Size(l) - 1)

\* The bit that stands for frame f on level l.  The code writes it as word
\* (f / 32) / (1 << l), bit (f / (1 << l)) % 32.
BitOf(l, f) == f \div Size(l)

\* The frames that bit b of level l stands for.
Span(l, b) == (b * Size(l)) .. (b * Size(l) + Size(l) - 1)

FreeFramesOf(bm) == { f \in Frames : \E l \in Levels : BitOf(l, f) \in bm[l] }

(***************************************************************************)
(* What PMM_Init has to establish: frame 0, whose number means failure,    *)
(* and the frames of the kernel are not free, and no frame is free twice.  *)
(***************************************************************************)
IsBitmaps(bm) == /\ bm \in [Levels -> SUBSET Nat]
                 /\ \A l \in Levels : bm[l] \subseteq Bits(l)

FreeOnce(bm) ==
  \A f \in Frames : \A l \in Levels :
    BitOf(l, f) \in bm[l] => \A k \in Levels : BitOf(k, f) \in bm[k] => k = l

FrameZeroUsed(bm) == \A l \in Levels : 0 \notin bm[l]

\* Whenever an aligned block is wholly free, one clear bit of its level or of
\* a higher one covers it.
Coalesced(bm) ==
  LET free == FreeFramesOf(bm)
  IN \A l \in Levels : \A b \in Bits(l) :
       Span(l, b) \subseteq free =>
         \E k \in Levels : k >= l /\ BitOf(k, b * Size(l)) \in bm[k]

ASSUME FrameCountAssumption == FrameCount \in Nat /\ FrameCount % 16 = 0
=============================================================================
