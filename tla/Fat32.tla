------------------------------- MODULE Fat32 -------------------------------
(***************************************************************************)
(* The FAT32 driver (fs/fat32.c): the allocation table with its one-sector  *)
(* buffer, cluster chains, one directory and the files in it, the nodes     *)
(* that opening a file makes, and switching the machine off and on.         *)
(*                                                                          *)
(* A cluster holds one value or a few directory entries; offsets count      *)
(* clusters.  A switched-off machine has finished the calls it was in: what *)
(* is lost is memory, that is the sector buffer and the nodes.              *)
(***************************************************************************)
EXTENDS Integers, Sequences, FiniteSets, FiniteSetsExt, SequencesExt

CONSTANTS
    NClusters,     \* data clusters, numbered from 2
    PerSector,     \* table entries in a sector of the table (128)
    EPC,           \* directory entries in a cluster (bytes_per_cluster / 32)
    FatNames,      \* names programs use
    Upper,         \* name -> what fat32_str_to_83 makes of it
    HINT,          \* next_free of the FSInfo sector, which is never written back
    FatHandles,    \* nodes that can be in use at a time
    FatData,       \* values programs write
    MaxClusters,   \* bound: clusters of a file
    SharedOpen     \* whether a file may be opened twice, or unlinked while open

ASSUME FatConstants ==
    /\ NClusters \in Nat \ {0} /\ PerSector \in Nat \ {0} /\ EPC \in Nat \ {0}
    /\ Upper \in [FatNames -> FatNames]
    /\ HINT \in 2 .. NClusters + 2 /\ MaxClusters \in Nat /\ SharedOpen \in BOOLEAN

VARIABLES
    fat,       \* the mount: [view, disk: table as the driver and the disk have it,
               \*   sec: sector in sector_buf, hint: next_free_hint]
    cl,        \* cluster -> its contents on the disk
    nodes,     \* handle -> its vfs_node_t and fat32_node_ctx_t
    promised   \* ghost: entry index -> what the file holds

fat_vars == <<fat, cl, nodes, promised>>

Clusters == 2 .. NClusters + 1
TOP == 2                    \* the directory
FREE == 0
EOC == 1
ZERO == [d |-> 0, e |-> <<>>]   \* a zeroed cluster: a value, no entries
HOLLOW == -1                \* a cluster of a file that was never written to
NoHandle == [idx |-> -1, first |-> 0, size |-> 0]

\* Directory entries: the end mark, a deleted one, data read as an entry.
END == [name |-> "end", kind |-> "", first |-> 0, size |-> 0]
DELETED == [END EXCEPT !.name = "deleted"]
JUNK == [END EXCEPT !.name = "junk"]
NotFiles == {END, DELETED, JUNK}

(***************************************************************************)
(* The table.  The buffer differs from the disk only in the sector it       *)
(* holds, so loading another sector leaves the disk with the driver's view. *)
(***************************************************************************)
fat32_fat_lba(c) == c \div PerSector

fat32_load_sector(f, s) == IF f.sec = s THEN f ELSE [f EXCEPT !.disk = f.view, !.sec = s]

fat32_set_fat(f, c, val) == [fat32_load_sector(f, fat32_fat_lba(c)) EXCEPT !.view[c] = val]

\* Mutant of fat32_sync: it returns early.
fat32_sync_off(f) == f

fat32_sync(f) == [f EXCEPT !.disk = f.view]

\* Every sector from the one of a to the one of b is loaded on the way.
Scanned(f, a, b) == fat32_load_sector(fat32_load_sector(f, fat32_fat_lba(a)), fat32_fat_lba(b))


Marked(f, c, prev) ==
    LET g == fat32_set_fat(f, c, EOC)
    IN  [(IF prev = 0 THEN g ELSE fat32_set_fat(g, prev, c)) EXCEPT !.hint = c + 1]

\* fat32_alloc_cluster: from the hint up, the cluster is zeroed; the second round
\* from the bottom does not zero it.  c = 0 when the volume is full.
fat32_alloc_cluster(f, x, prev) ==
    LET up == {c \in Clusters : c >= f.hint /\ f.view[c] = FREE}
        low == {c \in Clusters : c < f.hint /\ f.view[c] = FREE}
        whole == Scanned(f, f.hint, NClusters + 1)
    IN  IF up # {} THEN LET c == Min(up)
                        IN  [f |-> Marked(Scanned(f, f.hint, c), c, prev), c |-> c,
                             x |-> [x EXCEPT ![c] = ZERO]]
        ELSE IF low # {} THEN LET c == Min(low)
                              IN  [f |-> Marked(Scanned(whole, 2, c), c, prev), c |-> c, x |-> x]
        ELSE [f |-> Scanned(whole, 2, f.hint), c |-> 0, x |-> x]

\* The clusters of a chain, in order.
RECURSIVE Chain(_, _, _)
Chain(view, c, sofar) ==
    IF c < 2 \/ Len(sofar) > NClusters THEN sofar ELSE Chain(view, view[c], Append(sofar, c))

fat32_free_chain(f, c) ==
    FoldLeft(LAMBDA g, d : fat32_set_fat(g, d, FREE), f, Chain(f.view, c, <<>>))

\* Walks to the n-th cluster of a file, adding what is missing; may come to a stop
\* earlier.
RECURSIVE Walked(_, _, _, _)
Walked(f, x, chain, n) ==
    LET c == f.view[Last(chain)]
        a == fat32_alloc_cluster(f, x, Last(chain))
    IN  IF Len(chain) >= n THEN [f |-> f, x |-> x, chain |-> chain]
        ELSE IF c >= 2 THEN Walked(fat32_load_sector(f, fat32_fat_lba(Last(chain))), x, Append(chain, c), n)
        ELSE IF a.c = 0 THEN [f |-> a.f, x |-> a.x, chain |-> chain]
        ELSE Walked(a.f, a.x, Append(chain, a.c), n)

(***************************************************************************)
(* The directory                                                            *)
(***************************************************************************)
\* What the entries of a cluster read as.
DirEntriesOf(x) ==
    IF x.e # <<>> THEN x.e ELSE [i \in 1 .. EPC |-> IF x.d = 0 THEN END ELSE JUNK]

DirSlots(view, x) ==
    LET chain == Chain(view, TOP, <<>>) IN FlattenSeq([i \in DOMAIN chain |-> DirEntriesOf(x[chain[i]])])

\* Index of an entry of that name, before the end mark; a set of at most one.
fat32_find(f, x, name) ==
    LET s == DirSlots(f.view, x)
        hit == {i \in DOMAIN s : s[i].name = name /\ \A j \in 1 .. i : s[j] # END}
    IN  {i \in hit : \A j \in hit : i <= j}

\* fat32_write_dirent_at, on a directory that has the slot.
fat32_write_dirent_at(f, x, idx, de) ==
    LET c == Chain(f.view, TOP, <<>>)[((idx - 1) \div EPC) + 1]
    IN  [x EXCEPT ![c] = [d |-> 0, e |-> [DirEntriesOf(@) EXCEPT ![((idx - 1) % EPC) + 1] = de]]]

\* fat32_find_free_dirent: idx = 0 when the directory is full and cannot grow.
fat32_find_free_dirent(f, x) ==
    LET s == DirSlots(f.view, x)
        open == {i \in DOMAIN s : s[i] \in {END, DELETED}}
        a == fat32_alloc_cluster(f, x, Last(Chain(f.view, TOP, <<>>)))
    IN  IF open # {} THEN [f |-> f, x |-> x, idx |-> Min(open)]
        ELSE [f |-> a.f, x |-> a.x, idx |-> IF a.c = 0 THEN 0 ELSE Len(s) + 1]

(***************************************************************************)
(* Operations                                                               *)
(***************************************************************************)
fat32_str_to_83(name) == Upper[name]

\* Nothing looks whether the name is there already.
_fat32_vfs_create(name) ==
    LET r == fat32_find_free_dirent(fat, cl)
    IN  /\ IF r.idx = 0 THEN fat' = r.f /\ UNCHANGED <<cl, promised>>
           ELSE /\ cl' = fat32_write_dirent_at(r.f, r.x, r.idx,
                           [name |-> fat32_str_to_83(name), kind |-> "file", first |-> 0, size |-> 0])
                /\ fat' = fat32_sync(r.f)
                /\ promised' = [promised EXCEPT ![r.idx] = <<>>]
        /\ UNCHANGED nodes

\* The new directory's cluster is taken first, and given back when its parent has
\* no slot for it.
_fat32_vfs_mkdir_op(name) ==
    LET a == fat32_alloc_cluster(fat, cl, 0)
        x == [a.x EXCEPT ![a.c] = [d |-> 0, e |-> [i \in 1 .. EPC |-> END]]]
        r == fat32_find_free_dirent(a.f, x)
    IN  /\ \/ a.c = 0 /\ fat' = a.f /\ UNCHANGED <<cl, promised>>
           \/ a.c # 0 /\ r.idx = 0 /\ fat' = fat32_free_chain(r.f, a.c) /\ cl' = r.x /\ UNCHANGED promised
           \/ /\ a.c # 0 /\ r.idx # 0
              /\ cl' = fat32_write_dirent_at(r.f, r.x, r.idx,
                         [name |-> fat32_str_to_83(name), kind |-> "dir", first |-> a.c, size |-> 0])
              /\ fat' = fat32_sync(r.f)
              /\ promised' = [promised EXCEPT ![r.idx] = <<>>]
        /\ UNCHANGED nodes

Opened(idx) == \E h \in FatHandles : nodes[h].idx = idx

Unlinked(f, de) == IF de.first >= 2 THEN fat32_free_chain(f, de.first) ELSE f

\* Files and directories alike.
_fat32_vfs_unlink(name) ==
    \E idx \in fat32_find(fat, cl, name) :
        /\ SharedOpen \/ ~Opened(idx)
        /\ fat' = fat32_sync(Unlinked(fat, DirSlots(fat.view, cl)[idx]))
        /\ cl' = fat32_write_dirent_at(fat, cl, idx, DELETED)
        /\ promised' = [promised EXCEPT ![idx] = <<>>]
        /\ UNCHANGED nodes

\* _fat32_vfs_finddir makes a node of its own for every open.
_fat32_vfs_finddir(h, name) ==
    /\ nodes[h] = NoHandle
    /\ \E idx \in fat32_find(fat, cl, name) :
         LET de == DirSlots(fat.view, cl)[idx]
         IN  /\ SharedOpen \/ ~Opened(idx)
             /\ de.kind = "file"
             /\ nodes' = [nodes EXCEPT ![h] = [idx |-> idx, first |-> de.first, size |-> de.size]]
    /\ UNCHANGED <<fat, cl, promised>>

fat_close(h) ==
    /\ nodes[h] # NoHandle
    /\ nodes' = [nodes EXCEPT ![h] = NoHandle]
    /\ UNCHANGED <<fat, cl, promised>>

PutAt(s, i, v) == [k \in 1 .. Max({Len(s), i}) |-> IF k = i THEN v ELSE IF k <= Len(s) THEN s[k] ELSE HOLLOW]

\* Writes len clusters of value v at offset off.  When the volume is full before
\* the offset is reached, the node keeps a first cluster the entry does not have;
\* when it fills up later, the size counts what was not written too.
_fat32_vfs_write(h, off, len, v) ==
    LET n == nodes[h]
        a == IF n.first >= 2 THEN [f |-> fat, x |-> cl, c |-> n.first] ELSE fat32_alloc_cluster(fat, cl, 0)
        w == Walked(a.f, a.x, <<a.c>>, off + len)
        done == (off + 1) .. Min({Len(w.chain), off + len})
        size == Max({n.size, off + len})
        x == [c \in Clusters |-> IF \E k \in done : w.chain[k] = c THEN [d |-> v, e |-> <<>>] ELSE w.x[c]]
        de == [DirSlots(w.f.view, w.x)[n.idx] EXCEPT !.first = a.c, !.size = size]
    IN  /\ n # NoHandle
        /\ \/ a.c = 0 /\ fat' = a.f /\ UNCHANGED <<cl, nodes, promised>>
           \/ /\ a.c # 0 /\ done = {}
              /\ fat' = w.f /\ cl' = w.x
              /\ nodes' = [nodes EXCEPT ![h].first = a.c]
              /\ UNCHANGED promised
           \/ /\ a.c # 0 /\ done # {}
              /\ fat' = fat32_sync(w.f)
              /\ cl' = fat32_write_dirent_at(w.f, x, n.idx, de)
              /\ nodes' = [nodes EXCEPT ![h].first = a.c, ![h].size = size]
              /\ promised' = [promised EXCEPT ![n.idx] =
                               FoldSet(LAMBDA k, s : PutAt(s, k, v), @, done)]

\* Power off, on, and fat32_init: the table is read afresh.
fat32_init ==
    /\ fat' = [view |-> fat.disk, disk |-> fat.disk, sec |-> -1, hint |-> HINT]
    /\ nodes' = [h \in FatHandles |-> NoHandle]
    /\ UNCHANGED <<cl, promised>>

FatInit ==
    /\ LET table == [c \in Clusters |-> IF c = TOP THEN EOC ELSE FREE]
       IN  fat = [view |-> table, disk |-> table, sec |-> -1, hint |-> HINT]
    /\ cl = [c \in Clusters |-> IF c = TOP THEN [d |-> 0, e |-> [i \in 1 .. EPC |-> END]] ELSE ZERO]
    /\ nodes = [h \in FatHandles |-> NoHandle]
    /\ promised = [i \in 1 .. EPC * NClusters |-> <<>>]

FatNext ==
    \/ \E name \in FatNames : \/ _fat32_vfs_create(name) \/ _fat32_vfs_mkdir_op(name)
                              \/ _fat32_vfs_unlink(name)
                              \/ \E h \in FatHandles : _fat32_vfs_finddir(h, name)
    \/ \E h \in FatHandles :
         \/ fat_close(h)
         \/ \E off \in 0 .. MaxClusters - 1, len \in 1 .. MaxClusters, v \in FatData :
              off + len <= MaxClusters /\ _fat32_vfs_write(h, off, len, v)
    \/ fat32_init

FatSpec == FatInit /\ [][FatNext]_fat_vars

(***************************************************************************)
(* Properties, all about what the disk alone holds: a power loss between    *)
(* two calls leaves just that.                                              *)
(***************************************************************************)
\* What reading the whole file of a directory entry returns after a restart:
\* no more than its size, and no further than its chain goes.
_fat32_vfs_read(e) ==
    LET chain == Chain(fat.disk, e.first, <<>>)
    IN  [k \in 1 .. Min({e.size, Len(chain)}) |-> cl[chain[k]].d]

OnDisk == DirSlots(fat.disk, cl)
Files == {i \in DOMAIN OnDisk : OnDisk[i] \notin NotFiles}


\* Everything a write has reported as done is found on the disk through the entry
\* ("so the changes survive a remount", fs/fat32.c).
WritesSurvive ==
    \A i \in Files :
        LET found == _fat32_vfs_read(OnDisk[i])
        IN  \A k \in DOMAIN promised[i] :
                promised[i][k] # HOLLOW => k \in DOMAIN found /\ found[k] = promised[i][k]
=============================================================================
