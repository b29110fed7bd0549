-------------------------------- MODULE PMM --------------------------------
(***************************************************************************)
(* The physical memory manager of the kernel, src/kernel/memory/pmm.c: a   *)
(* buddy allocator, whose work on the bitmaps is that of module Buddy.     *)
(*                                                                         *)
(* The kernel is single threaded and no interrupt handler allocates        *)
(* frames, so PMM_GetFrames and PMM_FreeFrames are atomic.                 *)
(***************************************************************************)
EXTENDS Buddy, FiniteSets

CONSTANTS
  Counts,    \* the block sizes callers ask PMM_GetFrames for
  MaxGrants  \* bound: blocks callers hold at the same time

ASSUME CountsAssumption == Counts \subseteq Nat \ {0} /\ MaxGrants \in Nat

VARIABLES
  bitmaps,  \* static uint32_t* bitmaps[5]: per level, the set of clear bits
  grants,   \* ghost: the blocks callers hold, [base, count]
  wild,     \* ghost: bitmaps[5] has been indexed
  halted    \* the page-fault handler has halted the processor

vars == <<bitmaps, grants, wild, halted>>

FramesOf(g) == g.base .. (g.base + g.count - 1)

Held == UNION { FramesOf(g) : g \in grants }

Init == /\ bitmaps = BootBitmaps
        /\ grants = {}
        /\ wild = FALSE
        /\ halted = FALSE

-----------------------------------------------------------------------------
(***************************************************************************)
(* The calls.                                                              *)
(***************************************************************************)
PMM_GetFrames(count) ==
  LET a == GetAddress(bitmaps, count)
  IN /\ ~halted
     /\ Cardinality(grants) < MaxGrants
     /\ bitmaps' = AfterGet(bitmaps, count)
     /\ grants' = IF a = 0 THEN grants
                  ELSE grants \cup {[base |-> a, count |-> count]}
     /\ UNCHANGED <<wild, halted>>

\* The wild access reads and writes through whatever word follows the array.
\* Either it faults, and the page-fault handler halts the processor, or it
\* changes memory that is not the allocator's and the call goes on.
FreeEffect(a, count) ==
  /\ ~halted
  /\ bitmaps' = AfterFree(bitmaps, a, count)
  /\ IF RunsPastArray(bitmaps, a, count)
     THEN wild' = TRUE /\ halted' \in BOOLEAN
     ELSE UNCHANGED <<wild, halted>>

\* A caller returns the block it got.  PMM_FreeFrames splits the count by its
\* bits, so a block that lost its first frame is only returned this way when
\* it starts where a block of its size may start.
PMM_FreeFrames(g) ==
  /\ g.count \in Counts /\ g.base % Size(LevelFor(g.count)) = 0
  /\ FreeEffect(g.base, g.count)
  /\ grants' = grants \ {g}

\* A caller returns the first frame of its block and keeps the others:
\* VMM_FreePages gives a contiguous block back frame by frame.
PMM_FreeFirstFrame(g) ==
  /\ FreeEffect(g.base, 1)
  /\ grants' = (grants \ {g})
                 \cup (IF g.count = 1 THEN {}
                       ELSE {[base |-> g.base + 1, count |-> g.count - 1]})

Next == \/ \E count \in Counts : PMM_GetFrames(count)
        \/ \E g \in grants : PMM_FreeFrames(g)
        \/ \E g \in grants : PMM_FreeFirstFrame(g)

Spec == Init /\ [][Next]_vars

-----------------------------------------------------------------------------
(***************************************************************************)
(* Properties.                                                             *)
(***************************************************************************)
FreeFrames == FreeFramesOf(bitmaps)

\* Every set bit is a bit of its bitmap and every grant a run of frames.
TypeOK == /\ IsBitmaps(bitmaps)
          /\ grants \subseteq [base : Frames, count : 1..MaxCount]
          /\ wild \in BOOLEAN /\ halted \in BOOLEAN

\* PMM_GetFrames never hands out a frame somebody holds: the blocks callers
\* hold have no frame in common, and no frame of theirs is free on any level.
GrantsExclusive ==
  /\ FreeFrames \cap Held = {}
  /\ \A g, h \in grants : g # h => FramesOf(g) \cap FramesOf(h) = {}

\* However blocks are split and coalesced, a frame is free on one level at
\* most; two clear bits over one frame would hand it out twice.
FreeOnOneLevel == FreeOnce(bitmaps)

\* PMM_GetFrames hands out, and PMM_FreeFrames puts back, only memory that
\* PMM_Init had found usable; in particular never frame 0.
OnlyUsable == FreeFrames \cup Held \subseteq Usable

\* Splitting, giving back and coalescing lose no frame, as long as coalescing
\* has not run past level 4.
NoFrameLost == ~wild => FreeFrames \cup Held = Usable

\* What callers of PMM_GetFrames and PMM_FreeFrames rely on, whatever they call
\* in whatever order: frames are never shared, lost, or taken from elsewhere.
FramesSafe == GrantsExclusive /\ FreeOnOneLevel /\ OnlyUsable /\ NoFrameLost

\* PPM_FreeAndCoalesce coalesces as far as it can: whenever an aligned block
\* is wholly free, one clear bit of its level or a higher one covers it, so a
\* request fails only when no aligned block of its size is free.
MaximallyCoalesced == Coalesced(bitmaps)

\* A request PMM_GetFrames fails, so one that changes nobody's grants, has not
\* split, marked or cleared anything on the levels it climbed through.
FailureChangesNothing == [][grants' = grants => bitmaps' = bitmaps]_vars

\* The bitmaps implement the allocator callers see.
Abstract == INSTANCE FrameAllocator WITH held <- grants

\* Every step of the bitmap allocator is a step of the abstract one or fails
\* the request and changes no grant.
ImplementsFrameAllocator == Abstract!Spec
=============================================================================
