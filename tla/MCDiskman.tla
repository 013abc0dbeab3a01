----------------------------- MODULE MCDiskman -----------------------------
(* One drive with an ext2 partition of four sectors followed by a FAT32    *)
(* partition; the cache has fewer slots than the ext2 partition has        *)
(* sectors, as 128 slots have for any partition above 64 KB.               *)
EXTENDS Diskman

NoPart == [type |-> 0, start |-> 0, size |-> 0]
Plain == [sig |-> FALSE, parts |-> <<NoPart, NoPart>>, ext2 |-> FALSE, fat |-> FALSE]
MBR == [Plain EXCEPT !.sig = TRUE,
                     !.parts = <<[type |-> LINUX, start |-> 1, size |-> 4], [type |-> FAT, start |-> 5, size |-> 1]>>]
Ext2Super == [Plain EXCEPT !.ext2 = TRUE]
FatBoot == [Plain EXCEPT !.fat = TRUE]

MCSectors == {0} \X (0 .. 5)
MCContents == {Plain, MBR, Ext2Super, FatBoot}
MCDisks == {[x \in MCSectors |-> CASE x[2] = 0 -> MBR [] x[2] = 3 -> Ext2Super
                                   [] x[2] = 5 -> FatBoot [] OTHER -> Plain]}
=============================================================================
