------------------------------- MODULE MCPMM -------------------------------
(***************************************************************************)
(* PMM on 64 frames: two free blocks of 64 KiB that are buddies of each    *)
(* other and a free pair of frames below them; the rest holds the kernel.  *)
(***************************************************************************)
EXTENDS PMM

MCBootBitmaps == [l \in 0..4 |-> CASE l = 1 -> {3}
                                   [] l = 4 -> {2, 3}
                                   [] OTHER -> {}]
=============================================================================
