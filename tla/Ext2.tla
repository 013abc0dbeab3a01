-------------------------------- MODULE Ext2 --------------------------------
(***************************************************************************)
(* The ext2 driver (fs/ext2.c): an image of the volume in memory, with its  *)
(* bitmaps, inodes, direct, indirect and double indirect blocks, directory  *)
(* records, and the flag that decides whether the image is written back.    *)
(*                                                                          *)
(* A block is a few words, which data, tables and records share; offsets    *)
(* count blocks.  There is one block group.  Programs write to files only:  *)
(* the driver would let them write over a directory.                        *)
(***************************************************************************)
EXTENDS Integers, Sequences, FiniteSets, FiniteSetsExt, SequencesExt

CONSTANTS
    NBlocks,        \* data blocks; block 1 is the root directory's
    NInodes,        \* inode 1 is the root directory
    EXT2_NDIR_BLOCKS,   \* 12
    PTRS,           \* words in a block
    ExtNames,       \* names programs use
    Need,           \* name -> length of a record that holds it
    DIRLEN,         \* length of a directory block
    ExtData,        \* values programs write
    MaxBlocks       \* bound: blocks of a file

ASSUME ExtConstants ==
    /\ NBlocks \in Nat \ {0} /\ NInodes \in Nat \ {0}
    /\ EXT2_NDIR_BLOCKS \in Nat \ {0} /\ PTRS \in Nat \ {0}
    /\ Need \in [ExtNames \cup {".", ".."} -> 1 .. DIRLEN] /\ MaxBlocks \in Nat

VARIABLES
    img,       \* the image: [ibm, bbm: bits set, nb, ni: free counts, inode: number
               \*   -> inode, word: block -> words, recs: block -> records], and fs->dirty
    opened     \* inodes some node of a program stands for

ext_vars == <<img, opened>>

ExtBlocks == 1 .. NBlocks
Inodes == 1 .. NInodes
ROOTINO == 1
IND == EXT2_NDIR_BLOCKS + 1
DIND == EXT2_NDIR_BLOCKS + 2
NOINODE == [kind |-> "none", links |-> 0, size |-> 0, blk |-> [i \in 1 .. DIND |-> 0]]
Zeros == [i \in 1 .. PTRS |-> 0]

(***************************************************************************)
(* Bitmaps                                                                  *)
(***************************************************************************)
\* Mutant of ext2_alloc_block: the count is trusted, and not taken down.
ext2_alloc_block_uncounted(m) ==
    LET free == ExtBlocks \ m.bbm
    IN  IF m.nb = 0 \/ free = {} THEN [m |-> m, b |-> 0]
        ELSE [m |-> [m EXCEPT !.bbm = @ \cup {Min(free)}, !.word[Min(free)] = Zeros,
                              !.recs[Min(free)] = <<>>, !.dirty = TRUE],
              b |-> Min(free)]

\* The lowest clear bit, while the group's count is not zero; the block is zeroed.
ext2_alloc_block(m) ==
    LET free == ExtBlocks \ m.bbm
    IN  IF m.nb = 0 \/ free = {} THEN [m |-> m, b |-> 0]
        ELSE [m |-> [m EXCEPT !.bbm = @ \cup {Min(free)}, !.nb = @ - 1, !.word[Min(free)] = Zeros,
                              !.recs[Min(free)] = <<>>, !.dirty = TRUE],
              b |-> Min(free)]

ext2_alloc_inode(m) ==
    LET free == Inodes \ m.ibm
    IN  IF m.ni = 0 \/ free = {} THEN [m |-> m, i |-> 0]
        ELSE [m |-> [m EXCEPT !.ibm = @ \cup {Min(free)}, !.ni = @ - 1, !.dirty = TRUE], i |-> Min(free)]

\* The counts go up whether or not the bit was set.
ext2_free_block(m, b) == IF b = 0 THEN m ELSE [m EXCEPT !.bbm = @ \ {b}, !.nb = @ + 1]
ext2_free_inode(m, i) == [m EXCEPT !.ibm = @ \ {i}, !.ni = @ + 1]

(***************************************************************************)
(* Block maps: lb counts from 0                                             *)
(***************************************************************************)
Entry(m, b, i) == IF b = 0 THEN 0 ELSE m.word[b][i + 1]

file_block_to_phys(m, ino, lb) ==
    LET n == m.inode[ino]
        s == lb - EXT2_NDIR_BLOCKS
        d == s - PTRS
    IN  IF lb < EXT2_NDIR_BLOCKS THEN n.blk[lb + 1]
        ELSE IF s < PTRS THEN Entry(m, n.blk[IND], s)
        ELSE Entry(m, Entry(m, n.blk[DIND], d \div PTRS), d % PTRS)

\* The table at word i of block b, made when there is none; b = 0 stands for the
\* inode's own slot i.
Table(m, ino, b, i) ==
    LET have == IF b = 0 THEN m.inode[ino].blk[i] ELSE m.word[b][i]
        a == ext2_alloc_block(m)
    IN  IF have # 0 THEN [m |-> m, b |-> have]
        ELSE IF a.b = 0 THEN [m |-> m, b |-> 0]
        ELSE [m |-> IF b = 0 THEN [a.m EXCEPT !.inode[ino].blk[i] = a.b] ELSE [a.m EXCEPT !.word[b][i] = a.b],
              b |-> a.b]

\* ok = FALSE when a table could not be made; one that was made stays.
ext2_inode_set_block(m, ino, lb, pb) ==
    LET s == lb - EXT2_NDIR_BLOCKS
        d == s - PTRS
        one == Table(m, ino, 0, IND)
        top == Table(m, ino, 0, DIND)
        two == Table(top.m, ino, top.b, (d \div PTRS) + 1)
    IN  IF lb < EXT2_NDIR_BLOCKS THEN [m |-> [m EXCEPT !.inode[ino].blk[lb + 1] = pb], ok |-> TRUE]
        ELSE IF s < PTRS
             THEN IF one.b = 0 THEN [m |-> one.m, ok |-> FALSE]
                  ELSE [m |-> [one.m EXCEPT !.word[one.b][s + 1] = pb], ok |-> TRUE]
        ELSE IF top.b = 0 THEN [m |-> top.m, ok |-> FALSE]
        ELSE IF two.b = 0 THEN [m |-> two.m, ok |-> FALSE]
        ELSE [m |-> [two.m EXCEPT !.word[two.b][(d % PTRS) + 1] = pb], ok |-> TRUE]

(***************************************************************************)
(* Directories                                                              *)
(***************************************************************************)
\* Places <<block, record>> of a directory, in the order they are scanned.
Places(m, dir) ==
    FlattenSeq([k \in 1 .. m.inode[dir].size |->
                  LET b == file_block_to_phys(m, dir, k - 1)
                  IN  IF b = 0 THEN <<>> ELSE [i \in DOMAIN m.recs[b] |-> <<b, i>>]])


\* A deleted record is taken whole, a live one gives the rest of its length.
Fits(r, need) == IF r.ino = 0 THEN r.len >= need ELSE r.len - Need[r.name] >= need

ext2_dir_add_entry(m, dir, ino, name) ==
    LET at == SelectSeq(Places(m, dir), LAMBDA p : Fits(m.recs[p[1]][p[2]], Need[name]))
        r == m.recs[at[1][1]][at[1][2]]
        a == ext2_alloc_block(m)
        s == ext2_inode_set_block(a.m, dir, m.inode[dir].size, a.b)
    IN  IF at # <<>>
        THEN [ok |-> TRUE,
              m |-> IF r.ino = 0
                    THEN [m EXCEPT !.recs[at[1][1]][at[1][2]] = [@ EXCEPT !.ino = ino, !.name = name]]
                    ELSE [m EXCEPT !.recs[at[1][1]] =
                            InsertAt([@ EXCEPT ![at[1][2]].len = Need[r.name]], at[1][2] + 1,
                                     [ino |-> ino, len |-> r.len - Need[r.name], name |-> name])]]
        ELSE IF a.b = 0 THEN [ok |-> FALSE, m |-> m]
        ELSE IF ~s.ok THEN [ok |-> FALSE, m |-> ext2_free_block(s.m, a.b)]
        ELSE [ok |-> TRUE,
              m |-> [s.m EXCEPT !.inode[dir].size = @ + 1,
                                !.recs[a.b] = <<[ino |-> ino, len |-> DIRLEN, name |-> name]>>]]

\* The first live record of that name, as a set of at most one place.
ext2_finddir(m, dir, name) ==
    LET at == SelectSeq(Places(m, dir), LAMBDA p : m.recs[p[1]][p[2]].ino # 0 /\ m.recs[p[1]][p[2]].name = name)
    IN  IF at = <<>> THEN {} ELSE {at[1]}

(***************************************************************************)
(* Operations.  Only the two allocators set the dirty flag.                 *)
(***************************************************************************)
Becomes(m) == img' = m

\* Directories a path leads to: the root and what it lists.
Dirs == {ROOTINO} \cup
        {img.recs[p[1]][p[2]].ino : p \in {q \in Range(Places(img, ROOTINO)) :
             LET r == img.recs[q[1]][q[2]] IN r.ino # 0 /\ img.inode[r.ino].kind = "dir"}}

\* The records "." and ".." of a new directory.
Dots(new, parent) ==
    <<[ino |-> new, len |-> Need["."], name |-> "."],
      [ino |-> parent, len |-> DIRLEN - Need["."], name |-> ".."]>>

\* Nothing looks whether the name is there already.
ext2_create_op(dir, name) ==
    LET a == ext2_alloc_inode(img)
        m == [a.m EXCEPT !.inode[a.i] = [NOINODE EXCEPT !.kind = "file", !.links = 1]]
        r == ext2_dir_add_entry(m, dir, a.i, name)
    IN  /\ a.i # 0
        /\ Becomes(IF r.ok THEN r.m ELSE ext2_free_inode(r.m, a.i))
        /\ UNCHANGED opened

\* What mkdir gives back when the parent has no room: the new block and inode.
Undone(m, b, i) == ext2_free_inode(ext2_free_block(m, b), i)

ext2_mkdir_op(dir, name) ==
    LET a == ext2_alloc_inode(img)
        d == ext2_alloc_block(a.m)
        m == [d.m EXCEPT !.inode[a.i] = [NOINODE EXCEPT !.kind = "dir", !.links = 2, !.size = 1, !.blk[1] = d.b],
                         !.recs[d.b] = Dots(a.i, dir)]
        r == ext2_dir_add_entry(m, dir, a.i, name)
    IN  /\ a.i # 0
        /\ Becomes(IF d.b = 0 THEN ext2_free_inode(d.m, a.i)
                   ELSE IF r.ok THEN [r.m EXCEPT !.inode[dir].links = @ + 1]
                   ELSE Undone(r.m, d.b, a.i))
        /\ UNCHANGED opened

\* What unlink frees with the last link: the data blocks up to the size, the
\* indirect block, the tables of the double indirect block and that block itself.
BlocksOf(m, i) ==
    LET top == m.inode[i].blk[DIND]
    IN  [k \in 1 .. m.inode[i].size |-> file_block_to_phys(m, i, k - 1)]
        \o <<m.inode[i].blk[IND]>> \o (IF top = 0 THEN <<>> ELSE m.word[top]) \o <<top>>

\* A directory starts with two links and loses one here, so it is never freed.
ext2_unlink_op(dir, name) ==
    \E p \in ext2_finddir(img, dir, name) :
        LET i == img.recs[p[1]][p[2]].ino
            m == [img EXCEPT !.recs[p[1]][p[2]].ino = 0, !.inode[i].links = @ - 1]
        IN  /\ Becomes(IF img.inode[i].links = 0 THEN [img EXCEPT !.recs[p[1]][p[2]].ino = 0]
                       ELSE IF m.inode[i].links > 0 THEN m
                       ELSE ext2_free_inode(
                              [FoldLeft(LAMBDA n, b : ext2_free_block(n, b), m, BlocksOf(m, i))
                                 EXCEPT !.inode[i] = NOINODE], i))
            /\ UNCHANGED opened

\* One block of a write; it stops where no block or no table can be had, and a
\* block that was taken for it by then stays taken.
WriteBlock(w, ino, lb, v) ==
    LET have == file_block_to_phys(w.m, ino, lb)
        a == ext2_alloc_block(w.m)
        s == ext2_inode_set_block(a.m, ino, lb, a.b)
    IN  IF ~w.ok THEN w
        ELSE IF have # 0 THEN [w EXCEPT !.m.word[have] = [i \in 1 .. PTRS |-> v], !.end = lb + 1]
        ELSE IF a.b = 0 THEN [w EXCEPT !.ok = FALSE]
        ELSE IF ~s.ok THEN [w EXCEPT !.ok = FALSE, !.m = s.m]
        ELSE [w EXCEPT !.m = [s.m EXCEPT !.word[a.b] = [i \in 1 .. PTRS |-> v]], !.end = lb + 1]

\* Through a node, whatever has become of its inode meanwhile.
ext2_write(ino, lb, n, v) ==
    LET w == FoldLeft(LAMBDA x, k : WriteBlock(x, ino, lb + k - 1, v),
                      [m |-> img, ok |-> TRUE, end |-> lb], [k \in 1 .. n |-> k])
    IN  /\ ino \in opened /\ img.inode[ino].kind # "dir"
        /\ Becomes([w.m EXCEPT !.inode[ino].size = Max({@, w.end})])
        /\ UNCHANGED opened

open_file(dir, name) ==
    /\ \E p \in ext2_finddir(img, dir, name) :
         LET i == img.recs[p[1]][p[2]].ino
         IN  /\ i \notin opened /\ img.inode[i].kind = "file"
             /\ opened' = opened \cup {i}
    /\ UNCHANGED img

close_file(ino) ==
    /\ ino \in opened
    /\ opened' = opened \ {ino}
    /\ UNCHANGED img

\* ext2_flush_all: an image that is not marked is not written.
ext2_flush ==
    /\ img.dirty
    /\ img' = [img EXCEPT !.dirty = FALSE]
    /\ UNCHANGED opened

\* ext2_mount reads a volume as it was left: an empty one, or one with an empty
\* file in it.
EmptyImage ==
    [ibm |-> {ROOTINO}, bbm |-> {1}, nb |-> NBlocks - 1, ni |-> NInodes - 1, dirty |-> FALSE,
     inode |-> [i \in Inodes |-> IF i # ROOTINO THEN NOINODE
                 ELSE [NOINODE EXCEPT !.kind = "dir", !.links = 2, !.size = 1, !.blk[1] = 1]],
     word |-> [b \in ExtBlocks |-> Zeros],
     recs |-> [b \in ExtBlocks |-> IF b = 1 THEN Dots(ROOTINO, ROOTINO) ELSE <<>>]]

ImageWith(name) ==
    [ext2_dir_add_entry([ext2_alloc_inode(EmptyImage).m EXCEPT
                            !.inode[2] = [NOINODE EXCEPT !.kind = "file", !.links = 1]],
                        ROOTINO, 2, name).m EXCEPT !.dirty = FALSE]

ExtInit ==
    /\ img \in {EmptyImage} \cup {ImageWith(name) : name \in ExtNames}
    /\ opened = {}

ExtNext ==
    \/ \E dir \in Dirs, name \in ExtNames :
         \/ ext2_create_op(dir, name) \/ ext2_mkdir_op(dir, name)
         \/ ext2_unlink_op(dir, name) \/ open_file(dir, name)
    \/ \E ino \in Inodes :
         \/ close_file(ino)
         \/ \E lb \in 0 .. MaxBlocks - 1, n \in 1 .. MaxBlocks, v \in ExtData :
              lb + n <= MaxBlocks /\ ext2_write(ino, lb, n, v)
    \/ ext2_flush

ExtSpec == ExtInit /\ [][ExtNext]_ext_vars

(***************************************************************************)
(* Properties                                                               *)
(***************************************************************************)
\* Blocks an inode holds, with repetition: data, tables, tables of tables.
Held(i) == SelectSeq(BlocksOf(img, i), LAMBDA b : b # 0)

\* After every call, the failed ones included: a block belongs to one place of one
\* taken inode and is marked itself, and the free counts are those of the bitmaps.
VolumeSound ==
    /\ img.nb = NBlocks - Cardinality(img.bbm) /\ img.ni = NInodes - Cardinality(img.ibm)
    /\ \A i \in img.ibm : \A k \in DOMAIN Held(i) :
         /\ Held(i)[k] \in img.bbm
         /\ \A j \in img.ibm : \A l \in DOMAIN Held(j) : Held(j)[l] = Held(i)[k] => j = i /\ l = k

=============================================================================
