--------------------------- MODULE PageAllocator ---------------------------
(***************************************************************************)
(* What the virtual memory manager promises about the pages of the         *)
(* kernel's half, whatever list it keeps: a run of pages goes to one       *)
(* caller at a time, the lowest run that is free is taken, and a request   *)
(* fails only when no free run is long enough.                             *)
(***************************************************************************)
EXTENDS Integers

CONSTANTS
  Pages,  \* the pages that can be allocated
  Counts  \* the numbers of pages callers ask for and give back

VARIABLES
  used,   \* the pages callers hold
  answer  \* what the last request returned: the first page, or 0

Run(base, count) == base .. (base + count - 1)

IsFree(base, count) == Run(base, count) \subseteq Pages \ used

Init == used = {} /\ answer = 0

Allocate(base, count) ==
  /\ IsFree(base, count)
  /\ \A b \in Pages : b < base => ~IsFree(b, count)
  /\ used' = used \cup Run(base, count)
  /\ answer' = base

Fail(count) ==
  /\ \A base \in Pages : ~IsFree(base, count)
  /\ answer' = 0
  /\ UNCHANGED used

\* A caller may give back a part of what it holds.
Release(base, count) ==
  /\ Run(base, count) \subseteq used
  /\ used' = used \ Run(base, count)
  /\ UNCHANGED answer

Next == \E count \in Counts :
          \/ Fail(count)
          \/ \E base \in Pages : Allocate(base, count) \/ Release(base, count)

Spec == Init /\ [][Next]_<<used, answer>>
=============================================================================
