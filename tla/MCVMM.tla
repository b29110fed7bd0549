------------------------------- MODULE MCVMM -------------------------------
(***************************************************************************)
(* VMM with tables of two pages: the kernel's half is pages 6 to 11, and   *)
(* the heap begins at page 8, in a table that is there, and goes on in one *)
(* that is not.  A pair of frames and the last four frames are free.       *)
(***************************************************************************)
EXTENDS VMM, TLC

MCBootBitmaps == [l \in 0..4 |-> CASE l = 1 -> {5}
                                   [] l = 2 -> {7}
                                   [] OTHER -> {}]
MCKernelTables == (3 :> 3) @@ (4 :> 4)
=============================================================================
