---------------------------- MODULE AddressSpace ----------------------------
(***************************************************************************)
(* User memory: the frame allocator with its reference counts               *)
(* (memory/pmm.c), page tables, copy-on-write fork and the page fault       *)
(* handler (memory/vmm.c), and the calls that change an address space:      *)
(* process_create, process_fork, process_exec and process_exit              *)
(* (process/process.c), sys_brk, sys_mmap and sys_munmap (syscall.c) and    *)
(* elf_load.                                                                *)
(*                                                                          *)
(* System calls run with interrupts enabled, so fork and exec are loops     *)
(* here too: other processes run between two pages.  A frame holds          *)
(* one value.  The frames of page tables and kernel stacks are left out;    *)
(* that one of them cannot be had is a choice of the step that needs it.    *)
(* heap_start and heap_end only select the pages a brk or an mmap without   *)
(* an address works on; an mmap with an address moves heap_end anywhere, so *)
(* the pages of a call are its input.                                       *)
(***************************************************************************)
EXTENDS Naturals, FiniteSets

CONSTANTS
    Spaces,       \* user processes that can exist at a time
    NFrames,      \* frames of the data pages
    NPages,       \* pages of an address space, the user stack the last one
    Values,       \* contents of a frame; ZERO is one of them
    ZERO,
    REF_MAX,      \* where the 8-bit reference count saturates (255)
    Buffers,      \* pages programs hand to system calls as buffers
    Observed,     \* pages whose contents PrivateMemory speaks of
    MaxCalls,     \* bound: processes preempted inside fork or exec at a time
    NIL

ASSUME AddressSpaceConstants ==
    /\ NFrames \in Nat \ {0} /\ NPages \in Nat \ {0}
    /\ ZERO \in Values /\ NIL \notin Values \cup Spaces
    /\ IsFiniteSet(Spaces)
    /\ MaxCalls \in Nat
    /\ REF_MAX \in Nat /\ REF_MAX >= Cardinality(Spaces)
    /\ Buffers \subseteq 1 .. NPages /\ Observed \subseteq 1 .. NPages

Frames == 1 .. NFrames
Pages == 1 .. NPages
STACK == NPages
PTE(f, w, c) == [frame |-> f, writable |-> w, cow |-> c]

VARIABLES
    pmm,          \* used: set bits of the bitmap; refs: pmm_refcounts
    content,      \* frame -> value
    pte,          \* space -> page -> PTE, NIL where not present
    call          \* space -> the system call it is in, "user" or "none"

vars == <<pmm, content, pte, call>>

NoPages == [p \in Pages |-> NIL]
User == [op |-> "user", at |-> 1, to |-> 0, child |-> NIL, ref |-> NIL]
Unused == [User EXCEPT !.op = "none"]
InCall(op, at, to) == [User EXCEPT !.op = op, !.at = at, !.to = to]

Running == {s \in Spaces : call[s].op \notin {"none", "cloned"}}
InUser(s) == call[s].op = "user"
MayCall(s) ==
    /\ InUser(s)
    /\ Cardinality({t \in Running : ~InUser(t)}) < MaxCalls

(***************************************************************************)
(* memory/pmm.c                                                             *)
(***************************************************************************)
FreeFrames == Frames \ pmm.used
IsFirstFree(f) == f \in FreeFrames /\ \A g \in FreeFrames : f <= g

\* pmm_alloc_frame returns the first free frame, with one reference.
pmm_alloc_frame(m, f) == [used |-> m.used \cup {f}, refs |-> [m.refs EXCEPT ![f] = 1]]

\* Mutant of pmm_ref_frame: the counter stops one early.
pmm_ref_frame_short(m, f) ==
    [m EXCEPT !.refs[f] = IF @ < REF_MAX - 1 THEN @ + 1 ELSE @]

pmm_ref_frame(m, f) == [m EXCEPT !.refs[f] = IF @ < REF_MAX THEN @ + 1 ELSE @]

\* pmm_free_frame for every page of P that table maps: a frame is released when
\* its last reference goes, one that is already free is left alone.
Drops(table, P, f) == Cardinality({p \in P : table[p] # NIL /\ table[p].frame = f})

pmm_free_frame(m, table, P) ==
    LET kept(f) == f \in m.used /\ m.refs[f] > Drops(table, P, f)
    IN  [used |-> {f \in m.used : Drops(table, P, f) = 0 \/ kept(f)},
         refs |-> [f \in Frames |->
                     IF Drops(table, P, f) = 0 THEN m.refs[f]
                     ELSE IF kept(f) THEN m.refs[f] - Drops(table, P, f) ELSE 0]]

(***************************************************************************)
(* Creating and ending address spaces                                       *)
(***************************************************************************)
process_create(s) ==
    /\ call[s] = Unused
    /\ call' = [call EXCEPT ![s] = User]
    /\ UNCHANGED <<pmm, content, pte>>

\* vmm_destroy_address_space: every present page is given back.
Destroy(s) ==
    /\ pmm' = pmm_free_frame(pmm, pte[s], Pages)
    /\ pte' = [pte EXCEPT ![s] = NoPages]

Exited(s) ==
    /\ Destroy(s)
    /\ call' = [call EXCEPT ![s] = Unused]
    /\ UNCHANGED content

process_exit(s) == InUser(s) /\ Exited(s)

(***************************************************************************)
(* process_fork and vmm_clone_address_space: page by page, the child maps   *)
(* the frame read-only and marked copy-on-write, the parent's own mapping   *)
(* is demoted to the same, and then the frame gets its second reference.    *)
(***************************************************************************)
Shared(e) == PTE(e.frame, FALSE, TRUE)

process_fork(s, child) ==
    /\ MayCall(s) /\ call[child] = Unused
    /\ call' = [call EXCEPT ![s] = [InCall("fork", 1, NPages) EXCEPT !.child = child],
                            ![child].op = "cloned"]
    /\ UNCHANGED <<pmm, content, pte>>

Cloning(s) == call[s].op = "fork" /\ call[s].ref = NIL
NextPresent(s, p) ==
    /\ p \in call[s].at .. call[s].to /\ pte[s][p] # NIL
    /\ \A q \in call[s].at .. p - 1 : pte[s][q] = NIL


clone_page(s) ==
    /\ Cloning(s)
    /\ \E p \in Pages :
         /\ NextPresent(s, p)
         /\ pte' = [pte EXCEPT ![call[s].child][p] = Shared(pte[s][p]),
                               ![s][p] = Shared(pte[s][p])]
         /\ call' = [call EXCEPT ![s].at = p + 1, ![s].ref = pte[s][p].frame]
    /\ UNCHANGED <<pmm, content>>

clone_ref(s) ==
    /\ call[s].op = "fork" /\ call[s].ref # NIL
    /\ pmm' = pmm_ref_frame(pmm, call[s].ref)
    /\ call' = [call EXCEPT ![s].ref = NIL]
    /\ UNCHANGED <<content, pte>>

\* No memory for a page table of the child, or for its kernel stack: the child
\* is taken down again.  What was demoted in the parent stays demoted.
fork_failed(s) ==
    /\ Cloning(s)
    /\ Destroy(call[s].child)
    /\ call' = [call EXCEPT ![s] = User, ![call[s].child] = Unused]
    /\ UNCHANGED content

fork_done(s) ==
    /\ Cloning(s)
    /\ \A p \in Pages : ~NextPresent(s, p)
    /\ call' = [call EXCEPT ![s] = User, ![call[s].child] = User]
    /\ UNCHANGED <<pmm, content, pte>>

(***************************************************************************)
(* Memory accesses and vmm_handle_page_fault, which runs with interrupts    *)
(* disabled.  A frame with one reference is made writable again, any other  *)
(* is replaced by a copy.                                                   *)
(***************************************************************************)
user_write(s, p, v) ==
    /\ InUser(s) /\ pte[s][p] # NIL
    /\ pte[s][p].writable
    /\ content' = [content EXCEPT ![pte[s][p].frame] = v]
    /\ UNCHANGED <<pmm, pte, call>>

\* sys_read writes to the caller's buffer in ring 0.  boot.asm leaves CR0.WP
\* clear, so a page that is read-only for the program does not stop it.
sys_read(s, p, v) ==
    /\ InUser(s) /\ p \in Buffers /\ pte[s][p] # NIL
    /\ content' = [content EXCEPT ![pte[s][p].frame] = v]
    /\ UNCHANGED <<pmm, pte, call>>

Faults(s, p) == InUser(s) /\ (pte[s][p] # NIL => ~pte[s][p].writable)
IsCow(s, p) == pte[s][p] # NIL /\ pte[s][p].cow

SoleOwner(e) == pmm.refs[e.frame] = 1

fault_sole_owner(s, p) ==
    /\ Faults(s, p) /\ IsCow(s, p) /\ SoleOwner(pte[s][p])
    /\ pte' = [pte EXCEPT ![s][p].writable = TRUE, ![s][p].cow = FALSE]
    /\ UNCHANGED <<pmm, content, call>>

fault_copy(s, p) ==
    /\ Faults(s, p) /\ IsCow(s, p) /\ ~SoleOwner(pte[s][p])
    /\ \E f \in Frames :
         /\ IsFirstFree(f)
         /\ content' = [content EXCEPT ![f] = content[pte[s][p].frame]]
         /\ pte' = [pte EXCEPT ![s][p] = PTE(f, TRUE, FALSE)]
         /\ pmm' = pmm_free_frame(pmm_alloc_frame(pmm, f), pte[s], {p})
    /\ UNCHANGED call

\* Out of frames, or nothing the handler could repair: the process is killed.
fault_kill(s, p) ==
    /\ Faults(s, p)
    /\ IsCow(s, p) => ~SoleOwner(pte[s][p]) /\ FreeFrames = {}
    /\ Exited(s)

(***************************************************************************)
(* sys_brk, sys_mmap and sys_munmap, one page at a time: their loops keep   *)
(* nothing from one page to the next, and give up where there is no frame.  *)
(* Neither brk nor mmap looks at what vmm_map_page returns, or at the entry *)
(* it overwrites.                                                           *)
(***************************************************************************)
Fresh(f, w) == PTE(f, w, FALSE)

\* The frame is mapped, or vmm_map_page failed for want of a page table.
MapOrLose(s, p, f) ==
    /\ pmm' = pmm_alloc_frame(pmm, f)
    /\ \/ pte' = [pte EXCEPT ![s][p] = Fresh(f, TRUE)]
       \/ UNCHANGED pte

sys_brk(s, p) ==
    /\ InUser(s)
    /\ \E f \in Frames : IsFirstFree(f) /\ MapOrLose(s, p, f)
    /\ UNCHANGED <<content, call>>

\* Other than brk, mmap clears the frame.
sys_mmap(s, p) ==
    /\ InUser(s)
    /\ \E f \in Frames : /\ IsFirstFree(f) /\ MapOrLose(s, p, f)
                        /\ content' = [content EXCEPT ![f] = ZERO]
    /\ UNCHANGED call

vmm_get_physical(s, p) == pte[s][p]

vmm_unmap_page(s, p) == [pte EXCEPT ![s][p] = NIL]

sys_munmap(s, p) ==
    /\ InUser(s) /\ vmm_get_physical(s, p) # NIL
    /\ pmm' = pmm_free_frame(pmm, pte[s], {p})
    /\ pte' = vmm_unmap_page(s, p)
    /\ UNCHANGED <<content, call>>

(***************************************************************************)
(* process_exec: the old space is destroyed before anything is loaded, so a *)
(* load that fails returns to a program that is gone.  elf_load maps one    *)
(* segment of the first pages, then a page of user stack follows.           *)
(***************************************************************************)
process_exec(s, last) ==
    /\ MayCall(s) /\ last < STACK
    /\ Destroy(s)
    /\ call' = [call EXCEPT ![s] = InCall("elf", 1, last)]
    /\ UNCHANGED content

elf_load_page(s, w, v) ==
    /\ call[s].op = "elf" /\ call[s].at <= call[s].to
    /\ \E f \in Frames :
         /\ IsFirstFree(f)
         /\ pmm' = pmm_alloc_frame(pmm, f)
         /\ content' = [content EXCEPT ![f] = v]
         /\ pte' = [pte EXCEPT ![s][call[s].at] = Fresh(f, w)]
    /\ call' = [call EXCEPT ![s].at = @ + 1]

\* No frame, or no page table: elf_load gives the frame back and returns.
elf_load_failed(s) ==
    /\ call[s].op = "elf" /\ call[s].at <= call[s].to
    /\ call' = [call EXCEPT ![s] = User]
    /\ UNCHANGED <<pmm, content, pte>>

elf_load_done(s) ==
    /\ call[s].op = "elf" /\ call[s].at > call[s].to
    /\ call' = [call EXCEPT ![s].op = "stack"]
    /\ UNCHANGED <<pmm, content, pte>>

exec_stack(s) ==
    /\ call[s].op = "stack"
    /\ \/ /\ FreeFrames = {}
          /\ UNCHANGED <<pmm, pte>>
       \/ \E f \in Frames : IsFirstFree(f) /\ MapOrLose(s, STACK, f)
    /\ call' = [call EXCEPT ![s] = User]
    /\ UNCHANGED content

Init == \* init has been created with an empty user half; the kernel holds some frames itself
    /\ \E own \in SUBSET Frames : pmm = [used |-> own, refs |-> [f \in Frames |-> IF f \in own THEN 1 ELSE 0]]
    /\ content = [f \in Frames |-> ZERO]
    /\ pte = [s \in Spaces |-> NoPages]
    /\ \E init \in Spaces : call = [s \in Spaces |-> IF s = init THEN User ELSE Unused]

Step(s) ==
    \/ process_create(s) \/ process_exit(s)
    \/ \E child \in Spaces : process_fork(s, child)
    \/ clone_page(s) \/ clone_ref(s) \/ fork_failed(s) \/ fork_done(s)
    \/ \E p \in Pages :
         \/ \E v \in Values : user_write(s, p, v) \/ sys_read(s, p, v)
         \/ fault_sole_owner(s, p) \/ fault_copy(s, p) \/ fault_kill(s, p)
         \/ sys_brk(s, p) \/ sys_mmap(s, p) \/ sys_munmap(s, p)
         \/ process_exec(s, p)
    \/ \E w \in BOOLEAN, v \in Values : elf_load_page(s, w, v)
    \/ elf_load_failed(s) \/ elf_load_done(s) \/ exec_stack(s)

Next == \E s \in Spaces : Step(s)

Spec == Init /\ [][Next]_vars

(***************************************************************************)
(* Properties                                                               *)
(***************************************************************************)
Mappers(f) == {m \in Spaces \X Pages : pte[m[1]][m[2]] # NIL /\ pte[m[1]][m[2]].frame = f}
PendingRefs(f) == {s \in Spaces : call[s].op = "fork" /\ call[s].ref = f}

\* No frame is given away while it is mapped: every mapping is backed by a
\* reference, but for the one a fork has made and not yet counted, and a frame
\* is free exactly when its count is zero.  Forks of several processes, faults
\* and exits may run between a clone's mapping and its pmm_ref_frame.
FramesHeld ==
    \A f \in Frames :
        /\ Cardinality(Mappers(f)) <= pmm.refs[f] + Cardinality(PendingRefs(f))
        /\ Mappers(f) # {} => f \in pmm.used
        /\ f \in pmm.used <=> pmm.refs[f] > 0

\* Fork, faults and the memory calls implement a private memory per process:
\* vmm.c, "On a subsequent write fault, vmm_handle_page_fault() breaks the
\* sharing by giving the writing process a private copy".
Private == INSTANCE PrivateMemory WITH
    Pages <- Observed,
    running <- Running,
    mem <- [s \in Spaces |-> [p \in Observed |->
              IF s \in Running /\ pte[s][p] # NIL THEN content[pte[s][p].frame] ELSE NIL]]

MemoryIsPrivate == Private!Spec
=============================================================================
