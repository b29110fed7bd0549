--------------------------- MODULE FrameAllocator ---------------------------
(***************************************************************************)
(* What the physical memory manager promises its callers, whatever bitmaps *)
(* it keeps: PMM_GetFrames hands out runs of usable frames that nobody     *)
(* else holds, or fails; a frame given back can be handed out again.       *)
(***************************************************************************)
EXTENDS Integers

CONSTANTS
  Usable,  \* the frames the machine gave to the allocator
  Counts   \* the sizes callers ask for

VARIABLE held  \* the blocks callers hold, [base, count]

Run(g) == g.base .. (g.base + g.count - 1)

Init == held = {}

\* PMM_GetFrames succeeds: the run is usable and nobody holds a frame of it.
Get(base, count) ==
  LET g == [base |-> base, count |-> count]
  IN /\ Run(g) \subseteq Usable
     /\ \A h \in held : Run(g) \cap Run(h) = {}
     /\ held' = held \cup {g}

\* PMM_FreeFrames gives back a whole block.
Free(g) == held' = held \ {g}

\* A block is given back frame by frame: the first one goes.
FreeFirst(g) ==
  held' = (held \ {g})
            \cup (IF g.count = 1 THEN {}
                  ELSE {[base |-> g.base + 1, count |-> g.count - 1]})

Next == \/ \E base \in Usable, count \in Counts : Get(base, count)
        \/ \E g \in held : Free(g) \/ FreeFirst(g)

Spec == Init /\ [][Next]_held
=============================================================================
