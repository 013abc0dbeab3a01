-------------------------------- MODULE Heap --------------------------------
(***************************************************************************)
(* The kernel heap of memory/heap.c.  Memory is an array of granules; a     *)
(* block is a header, which takes one granule, and its data.  The headers   *)
(* are the only links there are: the free list threads through them, and    *)
(* what a client writes to the data of its block overwrites any header that *)
(* used to be there.  Each turn of the loops of kmalloc and kfree is a step.*)
(***************************************************************************)
EXTENDS Naturals

CONSTANTS
    HeapSize,          \* granules between heap_start_addr and heap_end_addr
    PageGranules,      \* PAGE_SIZE
    Sizes,             \* the data sizes, in granules, kmalloc is asked for
    NIL                \* the NULL pointer, and no pointer at all

VARIABLES
    heap_current, free_list, heap_used_bytes,
    hdr,               \* granule -> the header stored there, GARBAGE if none is
    call,              \* the kmalloc or kfree in progress
    held               \* ghost: block -> size, of what clients hold

heap_vars == <<heap_current, free_list, heap_used_bytes, hdr, call, held>>

HDR == 1
MIN_ALLOC == 1
Granules == 0 .. HeapSize - 1
GARBAGE == [magic |-> FALSE, free |-> FALSE, last |-> FALSE, size |-> 0, next |-> NIL]

\* IDLE: no call in progress.  PANIC: kpanic was called.  WILD: a loop that
\* does not look at magic read a header that a client has overwritten.
IDLE == [op |-> "idle"]
PANIC == [op |-> "panic"]
WILD == [op |-> "wild"]

next_block(b) == b + HDR + hdr[b].size
AlignUp(n) == ((n + PageGranules - 1) \div PageGranules) * PageGranules

HeapInit ==
    LET needed == AlignUp(PageGranules)
    IN  /\ heap_current = needed
        /\ free_list = 0
        /\ heap_used_bytes = 0
        /\ hdr = [g \in Granules |-> IF g = 0
             THEN [magic |-> TRUE, free |-> TRUE, last |-> TRUE, size |-> needed - HDR, next |-> NIL]
             ELSE GARBAGE]
        /\ call = IDLE
        /\ held = [b \in {} |-> 0]

kmalloc(size) ==
    /\ call = IDLE
    /\ call' = [op |-> "malloc", size |-> size, prev |-> NIL, curr |-> free_list]
    /\ UNCHANGED <<heap_current, free_list, heap_used_bytes, hdr, held>>

\* Fits: what the loop of kmalloc stops at.
Searching == call.op = "malloc" /\ call.curr # NIL
Fits(b) == hdr[b].magic /\ hdr[b].free /\ hdr[b].size >= call.size

kmalloc_next ==
    /\ Searching /\ hdr[call.curr].magic /\ ~Fits(call.curr)
    /\ call' = [call EXCEPT !.prev = call.curr, !.curr = hdr[call.curr].next]
    /\ UNCHANGED <<heap_current, free_list, heap_used_bytes, hdr, held>>

kmalloc_panic ==
    /\ Searching /\ ~hdr[call.curr].magic
    /\ call' = PANIC
    /\ UNCHANGED <<heap_current, free_list, heap_used_bytes, hdr, held>>

Splits(b) == hdr[b].size - call.size >= HDR + MIN_ALLOC
Rest(b) == b + HDR + call.size
\* What kmalloc leaves in the headers when it takes block b.
Take(b) ==
    IF Splits(b)
    THEN [hdr EXCEPT ![Rest(b)] = [magic |-> TRUE, free |-> TRUE, last |-> hdr[b].last,
                                   size |-> hdr[b].size - call.size - HDR, next |-> hdr[b].next],
                     ![b].size = call.size, ![b].last = FALSE,
                     ![b].next = Rest(b), ![b].free = FALSE]
    ELSE [hdr EXCEPT ![b].free = FALSE]

\* *prev = to, prev being the link that led to the block.
Relink(h, to) == IF call.prev = NIL THEN h ELSE [h EXCEPT ![call.prev].next = to]

\* The caller fills the data it was given.
kmalloc_take ==
    /\ Searching /\ Fits(call.curr)
    /\ LET b == call.curr
           to == IF Splits(b) THEN Rest(b) ELSE hdr[b].next
           h == Relink(Take(b), to)
       IN  /\ hdr' = [g \in Granules |-> IF g \in b + HDR .. b + h[b].size THEN GARBAGE ELSE h[g]]
           /\ free_list' = IF call.prev = NIL THEN to ELSE free_list
           /\ heap_used_bytes' = heap_used_bytes + h[b].size
           /\ held' = [x \in DOMAIN held \cup {b} |-> IF x = b THEN h[b].size ELSE held[x]]
    /\ call' = IDLE
    /\ UNCHANGED heap_current

\* expand_heap and the second call of kmalloc.
kmalloc_expand ==
    /\ call.op = "malloc" /\ call.curr = NIL
    /\ LET needed == AlignUp(call.size + HDR)
       IN  IF heap_current + needed > HeapSize
           THEN /\ call' = IDLE
                /\ UNCHANGED <<heap_current, free_list, hdr>>
           ELSE /\ hdr' = [hdr EXCEPT ![heap_current] =
                     [magic |-> TRUE, free |-> TRUE, last |-> TRUE, size |-> needed - HDR, next |-> free_list]]
                /\ free_list' = heap_current
                /\ heap_current' = heap_current + needed
                /\ call' = [call EXCEPT !.prev = NIL, !.curr = heap_current]
    /\ UNCHANGED <<heap_used_bytes, held>>

\* kfree up to the loop, by the client that holds block b.
kfree(b) ==
    /\ call = IDLE /\ b \in DOMAIN held
    /\ IF ~hdr[b].magic \/ hdr[b].free
       THEN /\ call' = PANIC
            /\ UNCHANGED <<free_list, heap_used_bytes, hdr, held>>
       ELSE /\ heap_used_bytes' = heap_used_bytes - hdr[b].size
            /\ hdr' = [hdr EXCEPT ![b].free = TRUE, ![b].next = free_list]
            /\ free_list' = b
            /\ call' = [op |-> "free", curr |-> b]
            /\ held' = [x \in DOMAIN held \ {b} |-> held[x]]
    /\ UNCHANGED heap_current

Coalescing == call.op = "free" /\ call.curr # NIL

\* Absorbs(c): what makes the loop of kfree merge c with the block behind it.
Absorbs(c) == hdr[next_block(c)].magic /\ hdr[next_block(c)].free

kfree_merge ==
    /\ Coalescing /\ hdr[call.curr] # GARBAGE /\ ~hdr[call.curr].last /\ Absorbs(call.curr)
    /\ LET c == call.curr
           n == next_block(c)
       IN  hdr' = [hdr EXCEPT ![c].size = @ + HDR + hdr[n].size, ![c].last = hdr[n].last,
                              ![c].next = hdr[n].next, ![n].magic = FALSE]
    /\ UNCHANGED <<heap_current, free_list, heap_used_bytes, call, held>>

kfree_next ==
    /\ Coalescing /\ hdr[call.curr] # GARBAGE /\ ~hdr[call.curr].last /\ ~Absorbs(call.curr)
    /\ call' = [call EXCEPT !.curr = hdr[call.curr].next]
    /\ UNCHANGED <<heap_current, free_list, heap_used_bytes, hdr, held>>

kfree_wild ==
    /\ Coalescing /\ hdr[call.curr] = GARBAGE
    /\ call' = WILD
    /\ UNCHANGED <<heap_current, free_list, heap_used_bytes, hdr, held>>

kfree_return ==
    /\ call.op = "free" /\ (call.curr # NIL => hdr[call.curr] # GARBAGE /\ hdr[call.curr].last)
    /\ call' = IDLE
    /\ UNCHANGED <<heap_current, free_list, heap_used_bytes, hdr, held>>

HeapNext ==
    \/ \E size \in Sizes : kmalloc(size)
    \/ kmalloc_next \/ kmalloc_panic \/ kmalloc_take \/ kmalloc_expand
    \/ \E b \in DOMAIN held : kfree(b)
    \/ kfree_merge \/ kfree_next \/ kfree_wild \/ kfree_return

HeapSpec == HeapInit /\ [][HeapNext]_heap_vars

(***************************************************************************)
(* Properties                                                               *)
(***************************************************************************)
\* "Free blocks are stored in a singly-linked free list": between two calls every
\* free block is the first of the list or the next of another free block.  A block
\* that is neither is lost to kmalloc.
IsFree(b) == hdr[b].magic /\ hdr[b].free
FreeBlocksListed ==
    call = IDLE =>
        \A b \in Granules : IsFree(b) =>
            b = free_list \/ \E c \in Granules : IsFree(c) /\ hdr[c].next = b
=============================================================================
