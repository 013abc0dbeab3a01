-------------------------------- MODULE Vfs --------------------------------
(***************************************************************************)
(* Files: path resolution and mounts (fs/vfs.c), the memory file system     *)
(* (fs/ramfs.c), and the descriptors of processes (process/process.c) with  *)
(* the file calls of syscall/syscall.c.                                     *)
(*                                                                          *)
(* A node is a block of kernel memory: unlink gives it back at once, and    *)
(* the next node may take its place while descriptors still point there.    *)
(* What a descriptor does on a block that is nothing at the moment is not   *)
(* followed.  The reference counts of nodes and files and the working       *)
(* directory are left out: the kernel writes them and never reads them.     *)
(***************************************************************************)
EXTENDS Naturals, Sequences, FiniteSets, SequencesExt

CONSTANTS
    NNodes,              \* node blocks; 1 and 2 are the roots of two file systems
    Paths,               \* paths programs use: sequences of names, ".", ".."
    MountPaths,          \* where the second file system may be mounted
    RAMFS_MAX_CHILDREN,  \* 64
    MIN_CAP,             \* smallest capacity of a file's data (64)
    MaxFileSize,         \* bound on the offsets programs use
    MaxData,             \* heap bytes there are for the data of all files
    Bytes,               \* values programs write, without 0
    FdProcs,             \* processes
    MAX_FDS,
    MaxOpen,             \* bound: descriptors in use at a time
    MaxOpenNodes,        \* bound: nodes they point at
    CONSOLE_IN,          \* descriptors sys_read answers from the keyboard ({0})
    CONSOLE_OUT          \* descriptors sys_write sends to the screen ({1, 2})

ASSUME VfsConstants ==
    /\ NNodes \in Nat /\ NNodes >= 2
    /\ RAMFS_MAX_CHILDREN \in Nat /\ MIN_CAP \in Nat /\ MaxFileSize \in Nat /\ MaxData \in Nat
    /\ MAX_FDS \in Nat \ {0} /\ MaxOpen \in Nat
    /\ Bytes \subseteq 1 .. 255

VARIABLES
    node,        \* block -> its vfs_node_t and ramfs_node_t, NoNode when free
    mount,       \* block -> root of the file system mounted there, or 0
    fds,         \* process -> descriptor -> open file, NoFile when unused
    procs_up,    \* processes that exist
    written,     \* ghost: block -> what the file should read as
    cut          \* ghost: files that were opened with O_TRUNC

vfs_vars == <<node, mount, fds, procs_up, written, cut>>

Blocks == 1 .. NNodes
ROOT == 1
OTHER_ROOT == 2
GARBAGE == 257   \* heap memory nobody has written to
HOLE == 256      \* a byte of a file that a write has skipped
NoNode == [kind |-> "free", name |-> "", kids |-> <<>>, data |-> <<>>, size |-> 0]
NoFile == [node |-> 0, offset |-> 0]
Fds == 0 .. MAX_FDS - 1

(***************************************************************************)
(* Paths                                                                    *)
(***************************************************************************)
\* "." stays, ".." goes up one level, at the root it stays too.
vfs_canonicalize(path) ==
    FoldLeft(LAMBDA up, c : IF c = "." THEN up
                            ELSE IF c = ".." THEN (IF up = <<>> THEN up ELSE Front(up))
                            ELSE Append(up, c),
             <<>>, path)

\* The child of that name, as a set of at most one block.
ramfs_finddir(d, name) ==
    LET k == {i \in DOMAIN node[d].kids : node[node[d].kids[i]].name = name}
    IN  {node[d].kids[i] : i \in {j \in k : \A h \in k : j <= h}}

\* A directory with a file system mounted on it stands for that one's root.
vfs_finddir(d, name) ==
    LET at == IF mount[d] # 0 THEN mount[d] ELSE d
    IN  IF node[at].kind = "dir" THEN ramfs_finddir(at, name) ELSE {}

vfs_resolve_path(path) ==
    FoldLeft(LAMBDA at, c : UNION {IF node[d].kind = "dir" THEN vfs_finddir(d, c) ELSE {} : d \in at},
             {ROOT}, vfs_canonicalize(path))

\* The directory a new name would go to, split off the path as it is written.
ParentOf(path) == IF Len(path) = 1 THEN {ROOT} ELSE vfs_resolve_path(Front(path))

(***************************************************************************)
(* ramfs.  Memory may run out wherever it is asked for.                     *)
(***************************************************************************)
FreeBlock == {b \in Blocks : node[b].kind = "free" /\ \A c \in Blocks : node[c].kind = "free" => b <= c}

Unnamed(d, name) == ramfs_finddir(d, name) = {}

\* ramfs_mkdir and ramfs_create, where they make something: they differ in the kind.
Added(d, name, kind, b) ==
    /\ Unnamed(d, name) /\ Len(node[d].kids) < RAMFS_MAX_CHILDREN
    /\ b \in FreeBlock
    /\ node' = [node EXCEPT ![b] = [NoNode EXCEPT !.kind = kind, !.name = name],
                            ![d].kids = Append(@, b)]
    /\ UNCHANGED <<written, cut>>

\* Bytes 1 .. n of a sequence, filler where it is shorter.
Padded(s, n, filler) == [i \in 1 .. n |-> IF i <= Len(s) THEN s[i] ELSE filler]


\* The buffer of a file that has to hold end bytes: at least doubled, the added
\* part cleared.
Grown(data, end) ==
    IF end <= Len(data) THEN data
    ELSE Padded(data, Max({MIN_CAP, end, 2 * Len(data)}), 0)

InUse(n) == FoldFunction(LAMBDA one, sum : Len(one.data) + sum, 0, n)

\* A write for which there is no memory fails and leaves the file alone.
ramfs_write(b, offset, byte) ==
    /\ InUse([node EXCEPT ![b].data = Grown(@, offset + 1)]) <= MaxData
    /\ node' = [node EXCEPT ![b].data = [Grown(@, offset + 1) EXCEPT ![offset + 1] = byte],
                            ![b].size = Max({@, offset + 1})]
    /\ written' = [written EXCEPT ![b] =
                     [Padded(@, Max({Len(@), offset + 1}), HOLE) EXCEPT ![offset + 1] = byte]]

\* Mutant of ramfs_unlink: the last child leaves the list, not the one freed.
ramfs_unlink_last(d, b) ==
    /\ node' = [node EXCEPT ![b] = NoNode, ![d].kids = Front(@)]
    /\ mount' = [mount EXCEPT ![b] = 0]
    /\ written' = [written EXCEPT ![b] = <<>>]
    /\ cut' = cut \ {b}

\* The block is freed whether it is open, a directory with children, or covered
\* by a mount; the children of a directory stay allocated.
ramfs_unlink(d, b) ==
    /\ node' = [node EXCEPT ![b] = NoNode, ![d].kids = SelectSeq(@, LAMBDA c : c # b)]
    /\ mount' = [mount EXCEPT ![b] = 0]
    /\ written' = [written EXCEPT ![b] = <<>>]
    /\ cut' = cut \ {b}

(***************************************************************************)
(* System calls of a process                                                *)
(***************************************************************************)
\* vfs_mkdir and vfs_create: the parent may be anything that resolves, and one
\* that a file system is mounted on gets the new child itself.
make(p, path, kind) ==
    /\ p \in procs_up
    /\ \E d \in ParentOf(path), b \in Blocks : Added(d, Last(path), kind, b)
    /\ UNCHANGED <<mount, fds, procs_up>>

sys_mkdir(p, path) == make(p, path, "dir")
vfs_create(p, path) == make(p, path, "file")

Free(p, fd) == fds[p][fd] = NoFile
fd_alloc(p, fd) == Free(p, fd) /\ \A e \in Fds : Free(p, e) => fd <= e

\* sys_open of an existing path.  Truncation comes first; then permission, a
\* descriptor and memory for the file_t are looked for, and one may be missing.
sys_open(p, path, trunc) ==
    /\ p \in procs_up
    /\ \E b \in vfs_resolve_path(path) :
         LET shrinks == trunc /\ node[b].kind = "file"
         IN  /\ node' = IF shrinks THEN [node EXCEPT ![b].size = 0] ELSE node
             /\ written' = IF shrinks THEN [written EXCEPT ![b] = <<>>] ELSE written
             /\ cut' = IF shrinks THEN cut \cup {b} ELSE cut
             /\ \/ UNCHANGED fds
                \/ \E fd \in Fds : /\ fd_alloc(p, fd)
                                   /\ fds' = [fds EXCEPT ![p][fd] = [node |-> b, offset |-> 0]]
    /\ UNCHANGED <<mount, procs_up>>

\* sys_open with O_CREAT of a name that is not there.  It is looked up again
\* after it was made, and not found where a file system is mounted on the parent.
sys_open_creat(p, path) ==
    /\ p \in procs_up
    /\ vfs_resolve_path(path) = {}
    /\ \E d \in ParentOf(path), b \in Blocks :
         /\ node[d].kind = "dir"
         /\ Added(d, Last(path), "file", b)
         /\ \/ UNCHANGED fds
            \/ \E fd \in Fds : /\ mount[d] = 0 /\ fd_alloc(p, fd)
                               /\ fds' = [fds EXCEPT ![p][fd] = [node |-> b, offset |-> 0]]
    /\ UNCHANGED <<mount, procs_up>>

IsOpen(p, fd) == p \in procs_up /\ fds[p][fd] # NoFile
OnNode(p, fd) == IsOpen(p, fd) /\ node[fds[p][fd].node].kind # "free"

\* Only descriptors that are not the console's reach the node.  A directory takes
\* data as a file does.
sys_write(p, fd, byte) ==
    /\ OnNode(p, fd) /\ fd \notin CONSOLE_OUT
    /\ fds[p][fd].offset < MaxFileSize
    /\ ramfs_write(fds[p][fd].node, fds[p][fd].offset, byte)
    /\ fds' = [fds EXCEPT ![p][fd].offset = @ + 1]
    /\ UNCHANGED <<mount, procs_up, cut>>

sys_read(p, fd) ==
    /\ OnNode(p, fd) /\ fd \notin CONSOLE_IN
    /\ fds[p][fd].offset < node[fds[p][fd].node].size
    /\ fds' = [fds EXCEPT ![p][fd].offset = @ + 1]
    /\ UNCHANGED <<node, mount, procs_up, written, cut>>

\* One entry of a directory: ".", "..", then the children.
sys_readdir(p, fd) ==
    /\ IsOpen(p, fd) /\ node[fds[p][fd].node].kind = "dir"
    /\ fds[p][fd].offset < MaxFileSize
    /\ LET d == fds[p][fd].node
           at == IF mount[d] # 0 THEN mount[d] ELSE d
       IN  fds[p][fd].offset < 2 + Len(node[at].kids)
    /\ fds' = [fds EXCEPT ![p][fd].offset = @ + 1]
    /\ UNCHANGED <<node, mount, procs_up, written, cut>>

\* SEEK_SET, SEEK_CUR and SEEK_END: nothing is checked against the size.
sys_lseek(p, fd, n) ==
    /\ IsOpen(p, fd)
    /\ \E base \in {0, fds[p][fd].offset, node[fds[p][fd].node].size} :
         /\ base + n <= MaxFileSize
         /\ fds' = [fds EXCEPT ![p][fd].offset = base + n]
    /\ UNCHANGED <<node, mount, procs_up, written, cut>>

sys_close(p, fd) ==
    /\ IsOpen(p, fd)
    /\ fds' = [fds EXCEPT ![p][fd] = NoFile]
    /\ UNCHANGED <<node, mount, procs_up, written, cut>>

fd_dup(p, fd) ==
    /\ IsOpen(p, fd)
    /\ \E new \in Fds : fd_alloc(p, new) /\ fds' = [fds EXCEPT ![p][new] = fds[p][fd]]
    /\ UNCHANGED <<node, mount, procs_up, written, cut>>

fd_dup2(p, fd, new) ==
    /\ IsOpen(p, fd) /\ new # fd
    /\ fds' = [fds EXCEPT ![p][new] = fds[p][fd]]
    /\ UNCHANGED <<node, mount, procs_up, written, cut>>

\* vfs_unlink, and vfs_rmdir, which calls it.
sys_unlink(p, path) ==
    /\ p \in procs_up
    /\ \E d \in ParentOf(path) :
         /\ node[d].kind = "dir"
         /\ \E b \in ramfs_finddir(d, Last(path)) : ramfs_unlink(d, b)
    /\ UNCHANGED <<fds, procs_up>>

\* process_fork copies the table, offsets included; process_exit closes it.
fork_fds(p, child) ==
    /\ p \in procs_up /\ child \notin procs_up
    /\ procs_up' = procs_up \cup {child}
    /\ fds' = [fds EXCEPT ![child] = fds[p]]
    /\ UNCHANGED <<node, mount, written, cut>>

exit_fds(p) ==
    /\ p \in procs_up /\ procs_up # {p}
    /\ procs_up' = procs_up \ {p}
    /\ fds' = [fds EXCEPT ![p] = [fd \in Fds |-> NoFile]]
    /\ UNCHANGED <<node, mount, written, cut>>

\* The second file system is mounted once, on a directory that is there or that
\* vfs_mkdir makes first.
vfs_mount(path) ==
    /\ OTHER_ROOT \notin {mount[b] : b \in Blocks}
    /\ \/ \E b \in vfs_resolve_path(path) :
            /\ node[b].kind = "dir"
            /\ mount' = [mount EXCEPT ![b] = OTHER_ROOT]
            /\ UNCHANGED <<node, written, cut>>
       \/ /\ vfs_resolve_path(path) = {}
          /\ \E d \in ParentOf(path), b \in Blocks :
               /\ Added(d, Last(path), "dir", b)
               /\ mount' = [mount EXCEPT ![b] = OTHER_ROOT]
    /\ UNCHANGED <<fds, procs_up>>

VfsInit ==
    /\ node = [b \in Blocks |-> IF b \in {ROOT, OTHER_ROOT} THEN [NoNode EXCEPT !.kind = "dir", !.name = "/"]
                                ELSE NoNode]
    /\ mount = [b \in Blocks |-> 0]
    /\ fds = [p \in FdProcs |-> [fd \in Fds |-> NoFile]]
    /\ \E p \in FdProcs : procs_up = {p}
    /\ written = [b \in Blocks |-> <<>>]
    /\ cut = {}

VfsStep ==
    \/ \E p \in FdProcs, path \in Paths :
         \/ sys_mkdir(p, path) \/ vfs_create(p, path) \/ sys_open_creat(p, path) \/ sys_unlink(p, path)
         \/ \E trunc \in BOOLEAN : sys_open(p, path, trunc)
    \/ \E p \in FdProcs, fd \in Fds :
         \/ \E byte \in Bytes : sys_write(p, fd, byte)
         \/ sys_read(p, fd) \/ sys_readdir(p, fd) \/ sys_close(p, fd) \/ fd_dup(p, fd)
         \/ \E n \in 0 .. MaxFileSize : sys_lseek(p, fd, n)
         \/ \E new \in Fds : fd_dup2(p, fd, new)
    \/ \E p, child \in FdProcs : fork_fds(p, child)
    \/ \E p \in FdProcs : exit_fds(p)
    \/ \E path \in MountPaths : vfs_mount(path)

\* The descriptors in use.
Used == {d \in FdProcs \X Fds : fds[d[1]][d[2]] # NoFile}

VfsNext ==
    /\ VfsStep
    /\ Cardinality(Used') <= MaxOpen
    /\ Cardinality({fds'[d[1]][d[2]].node : d \in Used'}) <= MaxOpenNodes

VfsSpec == VfsInit /\ [][VfsNext]_vfs_vars

(***************************************************************************)
(* Properties                                                               *)
(***************************************************************************)
\* The tree stays a tree through every order of create, mkdir, unlink and mount:
\* what a directory lists is allocated, is listed once in the whole system, and
\* has a name no other child of the directory has.
TreeSound ==
    \A d \in Blocks :
        /\ Len(node[d].kids) <= RAMFS_MAX_CHILDREN
        /\ \A i \in DOMAIN node[d].kids :
             LET b == node[d].kids[i]
             IN  /\ node[b].kind # "free"
                 /\ \A e \in Blocks : \A j \in DOMAIN node[e].kids :
                      node[e].kids[j] = b => e = d /\ j = i
                 /\ \A j \in DOMAIN node[d].kids :
                      node[node[d].kids[j]].name = node[b].name => j = i

=============================================================================
