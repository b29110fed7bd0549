------------------------------- MODULE MCIDE -------------------------------
(***************************************************************************)
(* A controller in the mode of the AT behind another device.  The drives:  *)
(* a large disk beside a CD drive and a small disk; one disk alone on the  *)
(* second place of its channel, which is addressed by cylinders because    *)
(* the capabilities are looked up elsewhere; a disk without LBA on the     *)
(* second channel only; the same disk, only read, behind one with LBA,     *)
(* whose capabilities are taken for its own.                               *)
(***************************************************************************)
EXTENDS IDE, TLC

MCConfigSpace ==
  <<0, 0, 0>> :> [o \in Header |-> IF o = 8 THEN <<0, 1536>> ELSE <<4663, 32902>>] @@
  <<0, 1, 1>> :> [o \in Header |-> CASE o = 0 -> <<28688, 32902>> [] o = 8 -> <<0, IDEClass>>
                                     [] OTHER -> <<0, 0>>]

Disk(lba, size) == [kind |-> "ata", lba |-> lba, size |-> size]
CD == [kind |-> "atapi", lba |-> TRUE, size |-> 0]
Transfers(device, lbas, counts) ==
  [device : {device}, direction : {"read", "write"}, lba : lbas, count : counts]

MCConfigurations ==
  { [drives |-> <<0, 0>> :> Disk(TRUE, LBA28Limit + 3) @@ <<1, 0>> :> CD @@ <<1, 1>> :> Disk(TRUE, 9),
     accesses |-> Transfers(0, {70, LBA28Limit - 2, LBA28Limit}, {2}) \union Transfers(1, {7}, {0, 1, 2})],
    [drives |-> <<0, 1>> :> Disk(TRUE, 40),
     accesses |-> Transfers(0, {0, 5, 30}, {1, 3}) \union Transfers(1, {0}, {1})],
    [drives |-> <<1, 0>> :> Disk(FALSE, 40),
     accesses |-> Transfers(0, {2, 38}, {1, 2})],
    [drives |-> <<0, 0>> :> Disk(TRUE, 5) @@ <<1, 0>> :> Disk(FALSE, 40),
     accesses |-> {[device |-> 1, direction |-> "read", lba |-> 2, count |-> 1],
                   [device |-> 0, direction |-> "write", lba |-> 3, count |-> 2]}] }

ASSUME TransfersFitAssumption == TransfersFit
=============================================================================
