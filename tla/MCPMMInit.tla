----------------------------- MODULE MCPMMInit -----------------------------
(***************************************************************************)
(* PMMInit on 32 frames, with memory maps of three regions whose borders   *)
(* are drawn from a set that has page borders, borders inside a page and   *)
(* the end of the address space.  No border lies in the last page below    *)
(* that end: from a region that is not usable and ends there the walk      *)
(* wraps to address 0 and never returns.  The kernel ends at unit 5.       *)
(***************************************************************************)
EXTENDS PMMInit, FiniteSets

Borders == {3, 7, 10, 15, 16, 17, 32, 36, 49, 50, 59, 64}

\* Usable memory, and memory that is not.
Types == {Usable, 2}

Entry(from, to, type) == [base |-> from, length |-> to - from, type |-> type]

\* Three regions without a gap, from address 0 on.
AdjacentMaps ==
  { <<Entry(0, x, s), Entry(x, y, t), Entry(y, z, u)>> :
      x \in Borders, y \in Borders, z \in Borders,
      s \in Types, t \in Types, u \in Types }

\* The end of the address space is never usable memory: the firmware is there.
ContiguousMaps ==
  { m \in AdjacentMaps :
      /\ \A i \in 1..3 : m[i].length > 0
      /\ m[3].type = Usable => m[3].base + m[3].length < Word }

\* The maps are of the kind the theorems are about.
ASSUME OrdinaryMapsAssumption == OrdinaryMaps
=============================================================================
