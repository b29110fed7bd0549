------------------------------- MODULE MCFAT -------------------------------
(***************************************************************************)
(* A disk for FAT: the root directory fills two sectors of three entries.  *)
(* It holds the file a of two clusters, the directory sub, also of two,    *)
(* and, in the last place of its first sector, the file c.  In sub the     *)
(* file b, exactly one cluster long, is the last entry of the first        *)
(* sector, and the empty file e lies in the second cluster, which is where *)
(* a search of the root directory goes on.                                 *)
(***************************************************************************)
EXTENDS FAT, TLC

MCClusterTable == 0 :> 4088 @@ 1 :> 4095 @@ 2 :> 4 @@ 3 :> 5 @@ 4 :> 4095
                  @@ 5 :> 4088 @@ 6 :> 4095 @@ 7 :> 4088

Entry(name, isDirectory, startCluster, size) ==
  [name |-> name, isDirectory |-> isDirectory, startCluster |-> startCluster, size |-> size]

MCEntries == "A" :> Entry("a", FALSE, 3, 8) @@ "Sub" :> Entry("sub", TRUE, 2, 0)
             @@ "B" :> Entry("b", FALSE, 6, 6) @@ "C" :> Entry("c", FALSE, 7, 1)
             @@ "E" :> Entry("e", FALSE, 0, 0)

MCDirectoryUnits == <<3, 0>> :> "A" @@ <<3, 1>> :> "Sub" @@ <<3, 2>> :> "C"
                    @@ <<5, 2>> :> "B" @@ <<9, 0>> :> "E"

MCExtensionLength == [name \in {"a", "sub", "b", "c", "e", "x"} |-> 3]

\* No file e is in the root directory.
MCPaths == { <<"a">>, <<"c">>, <<"e">>,
             <<"sub">>, <<"sub", "b">>, <<"sub", "e">>, <<"sub", "x">> }

\* The theorems' assumptions hold of this disk, these paths and these callers.
ASSUME ReliedOnAssumption ==
  ChainsFit /\ PathsFit /\ EnoughHandles /\ "read" \notin MayFail
=============================================================================
