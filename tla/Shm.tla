----------------------------------- MODULE Shm -----------------------------------
(***************************************************************************)
(* Named shared memory (kernel/shm.c) and what it shares with the rest of  *)
(* memory: the frames come from the frame allocator, are mapped without a  *)
(* frame reference, and an address space that ends gives back every frame  *)
(* it maps (vmm_destroy_address_space).                                    *)
(*                                                                         *)
(* sys_shm_map passes no address, so every region lands at the same one: a *)
(* process has one window, and mapping a second region replaces the first. *)
(***************************************************************************)
EXTENDS Integers, FiniteSets

CONSTANTS SHM_MAX_REGIONS,  \* slots of shm_table
          ShmNames,         \* names of regions
          ShmFrames,        \* physical frames
          ShmProcs,         \* processes
          ShmSizes          \* pages a region may have

VARIABLES
  reg,     \* shm_table: valid, name, refcount, frames (phys_pages)
  free,    \* frames the allocator can hand out
  window,  \* process -> frames mapped at the shared address, {} if none
  busy     \* frames other parts of the system hold

shmvars == <<reg, free, window, busy>>

Regions == 1 .. SHM_MAX_REGIONS
NoRegion == [valid |-> FALSE, name |-> "none", refcount |-> 0, frames |-> {}]

shm_find_by_name(n) == {i \in Regions : reg[i].valid /\ reg[i].name = n}
shm_alloc_slot == {i \in Regions : ~reg[i].valid /\ \A j \in Regions : ~reg[j].valid => i <= j}

\* pmm_free_frame on every frame of a region.
Destroyed(i) == reg' = [reg EXCEPT ![i] = NoRegion] /\ free' = free \cup reg[i].frames

(***************************************************************************)
(* System calls                                                            *)
(***************************************************************************)
\* sys_shm_open on a name that is not there: all its frames or none (those
\* already taken are given back).
shm_create(n, size) ==
  /\ shm_find_by_name(n) = {}
  /\ \E i \in shm_alloc_slot, fs \in SUBSET free :
       /\ Cardinality(fs) = size
       /\ reg' = [reg EXCEPT ![i] = [valid |-> TRUE, name |-> n, refcount |-> 0, frames |-> fs]]
       /\ free' = free \ fs
  /\ UNCHANGED <<window, busy>>

sys_shm_map(p, i) ==
  /\ reg[i].valid
  /\ window' = [window EXCEPT ![p] = reg[i].frames]
  /\ reg' = [reg EXCEPT ![i].refcount = @ + 1]
  /\ UNCHANGED <<free, busy>>

\* The region is found by the frame at the address; the last reference destroys it.
sys_shm_unmap(p) ==
  /\ window[p] # {}
  /\ \E i \in Regions :
       /\ reg[i].valid /\ reg[i].frames = window[p]
       /\ window' = [window EXCEPT ![p] = {}]
       /\ IF reg[i].refcount <= 1 THEN Destroyed(i)
          ELSE reg' = [reg EXCEPT ![i].refcount = @ - 1] /\ UNCHANGED free
  /\ UNCHANGED busy

\* Closing drops a reference that opening did not take.
sys_shm_close(i) ==
  /\ reg[i].valid
  /\ IF reg[i].refcount <= 1 THEN Destroyed(i)
     ELSE reg' = [reg EXCEPT ![i].refcount = @ - 1] /\ UNCHANGED free
  /\ UNCHANGED <<window, busy>>

\* vmm_destroy_address_space gives the mapped frames back to the allocator.
shm_exit(p) ==
  /\ window[p] # {}
  /\ free' = free \cup (window[p] \ busy)
  /\ busy' = busy \ window[p]
  /\ window' = [window EXCEPT ![p] = {}]
  /\ UNCHANGED reg

\* External: another part of the system takes a frame.
pmm_alloc_frame ==
  /\ \E f \in free : free' = free \ {f} /\ busy' = busy \cup {f}
  /\ UNCHANGED <<reg, window>>

shm_init ==
  /\ reg = [i \in Regions |-> NoRegion]
  /\ free = ShmFrames /\ window = [p \in ShmProcs |-> {}] /\ busy = {}

ShmNext ==
  \/ \E n \in ShmNames, size \in ShmSizes : shm_create(n, size)
  \/ \E p \in ShmProcs, i \in Regions : sys_shm_map(p, i)
  \/ \E p \in ShmProcs : sys_shm_unmap(p) \/ shm_exit(p)
  \/ \E i \in Regions : sys_shm_close(i)
  \/ pmm_alloc_frame

ShmSpec == shm_init /\ [][ShmNext]_shmvars

(***************************************************************************)
(* Property                                                                *)
(***************************************************************************)
\* include/kernel/shm.h:15 says a region is "Reference-counted; destroyed when
\* last mapper unmaps it": while a process maps frames of a region, they are
\* neither free nor in other hands (shm.c:115-185, 250-263, vmm.c:307-313).
MappedStays == \A p \in ShmProcs : window[p] \cap (free \cup busy) = {}
================================================================================
