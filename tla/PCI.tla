-------------------------------- MODULE PCI --------------------------------
(***************************************************************************)
(* The configuration space of the PCI bus as drivers/pci.c reads and       *)
(* searches it.  A slot is <<bus, device, function>>; a double word is the *)
(* pair of its words, the low one first, as drivers look at either.        *)
(***************************************************************************)
EXTENDS Integers

CONSTANTS
  Buses, Devices, Functions,  \* how many of each: 256, 32 and 8
  ConfigSpace                 \* per slot with a device, its double words by offset

Slots == (0..(Buses - 1)) \X (0..(Devices - 1)) \X (0..(Functions - 1))
AllOnes == 65535
Header == {0, 4, 8, 16, 20, 24, 28, 32, 60}

ASSUME SlotsAssumption == Buses \in 1..256 /\ Devices \in 1..32 /\ Functions \in 1..8
ASSUME SpaceAssumption ==
  /\ DOMAIN ConfigSpace \subseteq Slots
  /\ \A s \in DOMAIN ConfigSpace :
       /\ Header \subseteq DOMAIN ConfigSpace[s]
       /\ \A o \in Header : ConfigSpace[s][o] \in (0..AllOnes) \X (0..AllOnes)

\* Where there is no device every bit reads as one.
PCI_ConfigReadLong(slot, offset) ==
  IF slot \in DOMAIN ConfigSpace THEN ConfigSpace[slot][(offset \div 4) * 4]
  ELSE <<AllOnes, AllOnes>>

PCI_ConfigReadWord(slot, offset) ==
  PCI_ConfigReadLong(slot, offset)[1 + (offset % 4) \div 2]

\* The order of the three loops.
Before(s, t) == \/ s[1] < t[1]
                \/ s[1] = t[1] /\ s[2] < t[2]
                \/ s[1] = t[1] /\ s[2] = t[2] /\ s[3] <= t[3]
FirstOf(slots) == CHOOSE s \in slots : \A t \in slots : Before(s, t)

\* The slots PCI_FindDeviceByClass accepts; none is an error.
WithClass(class) ==
  { s \in Slots : /\ PCI_ConfigReadWord(s, 0) # AllOnes /\ PCI_ConfigReadWord(s, 2) # AllOnes
                  /\ PCI_ConfigReadWord(s, 10) = class }
=============================================================================
