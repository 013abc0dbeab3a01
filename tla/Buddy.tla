------------------------------- MODULE Buddy -------------------------------
(***************************************************************************)
(* The buddy allocator of mm/buddy.c.  Blocks are named by the index of     *)
(* their first page.  The list of an order is last-in first-out; order_map  *)
(* says of a page which list it heads a block of, and is what buddy_free    *)
(* looks at.  free_pages only feeds the statistics and is left out.         *)
(***************************************************************************)
EXTENDS Naturals, Sequences, FiniteSets

CONSTANTS
    BUDDY_MAX_ORDER,   \* 10
    total_pages,       \* pages of the region
    map_pages          \* pages at its start that hold order_map

ASSUME BuddyConstants ==
    /\ BUDDY_MAX_ORDER \in Nat
    /\ total_pages \in Nat /\ map_pages \in 1 .. total_pages

VARIABLES
    free,              \* order -> its free list
    order_map,         \* page -> order, ALLOCATED when it heads no free block
    allocated          \* ghost: <<page, order>> of the blocks clients hold

buddy_vars == <<free, order_map, allocated>>

Orders == 0 .. BUDDY_MAX_ORDER
BPages == 0 .. total_pages - 1
ALLOCATED == 255
Entries(q) == {q[k] : k \in DOMAIN q}
Without(q, x) == SelectSeq(q, LAMBDA y : y # x)

\* The block of order o that page p lies in, and its buddy: p ^ (1 << o).
Base(p, o) == p - (p % 2^o)
buddy_idx(p, o) == IF (p \div 2^o) % 2 = 0 THEN p + 2^o ELSE p - 2^o

is_free(p, o) == p < total_pages /\ order_map[p] = o

\* The smallest order from o up that has a free block, as a set of at most one.
Avail(o) == {a \in Orders : /\ a >= o /\ free[a] # <<>>
                            /\ \A b \in o .. a - 1 : free[b] = <<>>}

\* Mutant of Split: the lower half of each split goes to the list as well.
Split_low(p, o, a) == [b \in Orders |-> IF b \in o .. a - 1 THEN <<p>> ELSE <<>>]

\* The upper halves that splitting block p of order a down to o sets free.
Split(p, o, a) == [b \in Orders |-> IF b \in o .. a - 1 THEN <<p + 2^b>> ELSE <<>>]

buddy_alloc(o) ==
    \E a \in Avail(o) :
        LET p == Head(free[a])
            halves == Split(p, o, a)
        IN  /\ free' = [b \in Orders |-> halves[b] \o (IF b = a THEN Tail(free[b]) ELSE free[b])]
            /\ order_map' = [q \in BPages |->
                 IF \E b \in Orders : halves[b] = <<q>>
                 THEN CHOOSE b \in Orders : halves[b] = <<q>>
                 ELSE IF q = p THEN ALLOCATED ELSE order_map[q]]
            /\ allocated' = allocated \cup {<<p, o>>}

\* The order at which a freed block stops finding its buddy free.
Merged(p, o) ==
    CHOOSE m \in o .. BUDDY_MAX_ORDER :
        /\ \A b \in o .. m - 1 : is_free(buddy_idx(Base(p, b), b), b)
        /\ m < BUDDY_MAX_ORDER => ~is_free(buddy_idx(Base(p, m), m), m)

\* A client gives back a block it holds.
buddy_free(p, o) ==
    /\ <<p, o>> \in allocated
    /\ LET m == Merged(p, o)
           gone == [b \in Orders |-> buddy_idx(Base(p, b), b)]
       IN  /\ free' = [b \in Orders |->
                 IF b \in o .. m - 1 THEN Without(free[b], gone[b])
                 ELSE IF b = m THEN <<Base(p, m)>> \o free[b] ELSE free[b]]
           /\ order_map' = [q \in BPages |->
                 IF q = Base(p, m) THEN m
                 ELSE IF \E b \in o .. m - 1 : q = gone[b] THEN ALLOCATED ELSE order_map[q]]
    /\ allocated' = allocated \ {<<p, o>>}

\* buddy_init: from the highest order down, the aligned blocks that fit behind
\* what is already seeded.  seeded[o] is where order o has seeded up to.
Up(p, o) == ((p + 2^o - 1) \div 2^o) * 2^o
seeded[o \in 0 .. BUDDY_MAX_ORDER + 1] ==
    IF o > BUDDY_MAX_ORDER THEN map_pages
    ELSE LET p == seeded[o + 1]
         IN  IF p < total_pages /\ Up(p, o) + 2^o <= total_pages
             THEN Up(p, o) + ((total_pages - Up(p, o)) \div 2^o) * 2^o
             ELSE p
Seeds(o) ==
    LET from == Up(seeded[o + 1], o)
        n == IF seeded[o] = seeded[o + 1] THEN 0 ELSE (seeded[o] - from) \div 2^o
    IN  [k \in 1 .. n |-> from + (n - k) * 2^o]

BuddyInit ==
    /\ free = [o \in Orders |-> Seeds(o)]
    /\ order_map = [p \in BPages |->
         IF \E o \in Orders : p \in Entries(Seeds(o))
         THEN CHOOSE o \in Orders : p \in Entries(Seeds(o)) ELSE ALLOCATED]
    /\ allocated = {}

BuddyNext ==
    \/ \E o \in Orders : buddy_alloc(o)
    \/ \E b \in allocated : buddy_free(b[1], b[2])

(***************************************************************************)
(* Properties                                                               *)
(***************************************************************************)
FreeBlocks == {<<p, o>> \in BPages \X Orders : p \in Entries(free[o])}
Extent(b) == b[1] .. b[1] + 2^b[2] - 1
Seeded == UNION {Extent(<<p, o>>) : <<p, o>> \in {<<p, o>> \in BPages \X Orders : p \in Entries(Seeds(o))}}

\* Every page the allocator was given is in exactly one block, free or held by a
\* client, every block is aligned to its size, and order_map names exactly the
\* heads of the free lists, each listed once: no page is handed out twice and
\* none is lost by any order of splits and merges.  And "coalesce with buddy while
\* possible" (buddy.c:196): two free blocks that are buddies never stay apart.
PagesPartitioned ==
    LET blocks == FreeBlocks \cup allocated
    IN  /\ UNION {Extent(b) : b \in blocks} = Seeded
        /\ \A b, c \in blocks : b # c => Extent(b) \cap Extent(c) = {}
        /\ FreeBlocks \cap allocated = {}
        /\ \A b \in blocks : b[1] % 2^b[2] = 0
        /\ \A o \in Orders : Cardinality(Entries(free[o])) = Len(free[o])
        /\ \A p \in BPages, o \in Orders : order_map[p] = o <=> p \in Entries(free[o])
        /\ \A b \in FreeBlocks : b[2] < BUDDY_MAX_ORDER =>
               <<buddy_idx(b[1], b[2]), b[2]>> \notin FreeBlocks
=============================================================================
