----------------------------------- MODULE Pmm -----------------------------------
(***************************************************************************)
(* The physical memory manager (memory/pmm.c): the bitmap built from the   *)
(* Multiboot2 memory map, single frames, contiguous runs (kernel stacks)   *)
(* and the two counters. Reference counts above one belong to AddressSpace *)
(* (pmm_ref_frame); here a frame has the one its allocation gives it.      *)
(*                                                                         *)
(* An allocation is a scan that ends at a free frame or run, and the       *)
(* marking of what it found. Kernel code is preempted with no lock held,   *)
(* so another caller may run in between.                                   *)
(***************************************************************************)
EXTENDS Integers, FiniteSets, Sequences, SequencesExt

CONSTANTS MAX_FRAMES,
          PMM_FRAME_SIZE,
          Maps,         \* memory maps: sequences of [base, length, available]
          LOW,          \* end of the low memory (1 MB)
          KSTART, KEND, \* the kernel image
          BITMAP, BITMAP_SIZE,
          Callers,
          Counts        \* lengths of runs that are asked for

VARIABLES
  bitmap,  \* [bits, refs, used, total]
  map,     \* the memory map of the machine
  found,   \* caller -> the frames its scan found, {} outside an allocation
  held,    \* caller -> the runs it was given and has not freed
  raced    \* two allocations overlapped

pmmvars == <<bitmap, map, found, held, raced>>

All == 0 .. MAX_FRAMES - 1

ALIGN_DOWN(a) == a \div PMM_FRAME_SIZE
ALIGN_UP(a) == (a + PMM_FRAME_SIZE - 1) \div PMM_FRAME_SIZE

\* Frames touched by the range are marked ...
pmm_mark_used(m, addr, size) ==
  LET range == (ALIGN_DOWN(addr) .. ALIGN_UP(addr + size) - 1) \cap All
  IN  [m EXCEPT !.bits = @ \cup range, !.used = @ + Cardinality(range \ m.bits)]

\* ... and only frames inside it are released.
pmm_mark_free(m, addr, size) ==
  LET range == (ALIGN_UP(addr) .. ALIGN_DOWN(addr + size) - 1) \cap All
  IN  [m EXCEPT !.bits = @ \ range, !.used = @ - Cardinality(range \cap m.bits)]

\* Steps 3a to 3c: low memory, the kernel image, the bitmap.
Reserved(m) ==
  pmm_mark_used(pmm_mark_used(pmm_mark_used(m, 0, LOW), KSTART, KEND - KSTART), BITMAP, BITMAP_SIZE)

pmm_init(entries) ==
  LET everything == [bits |-> All, refs |-> [f \in All |-> 0], used |-> MAX_FRAMES, total |-> 0]
      free(m, e) == IF ~e.available THEN m
                    ELSE [pmm_mark_free(m, e.base, e.length) EXCEPT !.total = @ + ALIGN_DOWN(e.length)]
  IN  Reserved(FoldLeft(free, everything, entries))

\* The first frame or run that is free: what the scans of pmm_alloc_frame and
\* pmm_alloc_frames stop at.
FirstRun(n) ==
  {r \in {s .. s + n - 1 : s \in 0 .. MAX_FRAMES - n} :
     /\ r \cap bitmap.bits = {}
     /\ \A s \in 0 .. MAX_FRAMES - n : (s .. s + n - 1) \cap bitmap.bits = {} => \A f \in r : s <= f}

pmm_alloc_scan(c, n) ==
  /\ found[c] = {}
  /\ ~raced   \* bound: no further allocations once two have overlapped
  /\ \E r \in FirstRun(n) : found' = [found EXCEPT ![c] = r]
  /\ raced' = (raced \/ \E d \in Callers : found[d] # {})
  /\ UNCHANGED <<bitmap, map, held>>


pmm_alloc_mark(c) ==
  /\ found[c] # {}
  /\ bitmap' = [bitmap EXCEPT !.bits = @ \cup found[c], !.used = @ + Cardinality(found[c]),
                              !.refs = [f \in All |-> IF f \in found[c] THEN 1 ELSE @[f]]]
  /\ held' = [held EXCEPT ![c] = @ \cup {found[c]}]
  /\ found' = [found EXCEPT ![c] = {}]
  /\ UNCHANGED <<map, raced>>

\* pmm_free_frame on every frame of the run: one that is free already is left alone.
pmm_free_frames(c, r) ==
  /\ found[c] = {} /\ r \in held[c]
  /\ LET dropped == {f \in r \cap bitmap.bits : bitmap.refs[f] <= 1}
     IN  bitmap' = [bitmap EXCEPT !.bits = @ \ dropped, !.used = @ - Cardinality(dropped),
                                  !.refs = [f \in All |-> IF f \in dropped THEN 0
                                                          ELSE IF f \in r \cap bitmap.bits THEN @[f] - 1
                                                          ELSE @[f]]]
  /\ held' = [held EXCEPT ![c] = @ \ {r}]
  /\ UNCHANGED <<map, found, raced>>

PmmInit ==
  /\ map \in Maps /\ bitmap = pmm_init(map)
  /\ found = [c \in Callers |-> {}] /\ held = [c \in Callers |-> {}] /\ raced = FALSE

PmmNext ==
  \E c \in Callers :
    \/ \E n \in Counts : pmm_alloc_scan(c, n)
    \/ pmm_alloc_mark(c)
    \/ \E r \in held[c] : pmm_free_frames(c, r)

PmmSpec == PmmInit /\ [][PmmNext]_pmmvars

(***************************************************************************)
(* Properties                                                              *)
(***************************************************************************)
InRange(f, lo, hi) == \E b \in lo .. hi - 1 : ALIGN_DOWN(b) = f

================================================================================
