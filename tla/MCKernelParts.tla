--------------------------- MODULE MCKernelParts ---------------------------
(***************************************************************************)
(* Parts of the kernel that share no state, checked side by side: a         *)
(* behaviour exercises one of them, and the others stay as they started, so *)
(* that the states add up instead of multiplying.  The parts are the buddy  *)
(* and the frame allocator, the signals of a process, the terminal feeding  *)
(* signals to its foreground process, the sector cache, the VFS over ramfs, *)
(* and the FAT32 and ext2 file systems.                                     *)
(***************************************************************************)
EXTENDS Buddy, Tty, BlockCache, Vfs, Fat32, Ext2, Pmm

VARIABLE part

\* Two drives with a sector of the same number.
MCSectors == {<<0, 1>>, <<0, 2>>, <<1, 1>>}

\* A path through "..", and a file system mounted on a directory.
MCPaths == {<<"a">>, <<"a", "..", "b">>, <<"a", "b">>}
MCMountPaths == {<<"a">>}

\* Two names that FAT stores as one.
MCUpper == [n \in FatNames |-> IF n = "a" THEN "A" ELSE n]

\* A long name needs a longer directory record.
MCNeed == [n \in ExtNames \cup {".", ".."} |-> IF n = "long" THEN 2 ELSE 1]

\* One range of memory, or two with a hole between them, neither aligned to frames.
MCRange(base, length, available) == [base |-> base, length |-> length, available |-> available]
MCMaps == {<<MCRange(0, 17, TRUE)>>,
           <<MCRange(0, 3, TRUE), MCRange(3, 2, FALSE), MCRange(5, 14, TRUE)>>}

\* Bounds: the whole tree with one process and one descriptor (part "vfs"), or several
\* descriptors, opened or made by dup, dup2 and fork, on one path (part "fds").
OnePath == \A b \in Blocks : node[b].name \in {NoNode.name, "/", "a"}

PartsInit ==
    /\ part \in {"buddy", "signal", "tty", "bcache", "vfs", "fds", "fat", "ext2", "pmm"}
    /\ BuddyInit /\ SignalInit /\ TtyInit /\ BlockCacheInit /\ FatInit
    /\ VfsInit /\ procs_up = {CHOOSE p \in FdProcs : TRUE}  \* the processes are alike
    /\ ExtInit /\ (part # "ext2" => img = EmptyImage)
    /\ PmmInit /\ (part # "pmm" => Len(map) = 1)

PartsNext ==
    /\ UNCHANGED part
    /\ \/ part = "buddy" /\ BuddyNext
       \/ part # "buddy" /\ UNCHANGED buddy_vars
    /\ \/ part = "signal" /\ SignalNext /\ UNCHANGED tty_vars
       \/ part = "tty" /\ TtyNext
       \/ part \notin {"signal", "tty"} /\ UNCHANGED <<signal_vars, tty_vars>>
    /\ \/ part = "bcache" /\ BlockCacheNext
       \/ part # "bcache" /\ UNCHANGED bcache_vars
    /\ \/ part = "vfs" /\ VfsNext /\ Cardinality(Used') <= 1 /\ UNCHANGED procs_up
       \/ part = "fds" /\ VfsNext /\ OnePath'
       \/ part \notin {"vfs", "fds"} /\ UNCHANGED vfs_vars
    /\ \/ part = "fat" /\ FatNext
       \/ part # "fat" /\ UNCHANGED fat_vars
    /\ \/ part = "ext2" /\ ExtNext
       \/ part # "ext2" /\ UNCHANGED ext_vars
    /\ \/ part = "pmm" /\ PmmNext
       \/ part # "pmm" /\ UNCHANGED pmmvars

PartsSpec ==
    PartsInit /\ [][PartsNext]_<<part, buddy_vars, signal_vars, tty_vars, bcache_vars,
                                 vfs_vars, fat_vars, ext_vars, pmmvars>>
=============================================================================
