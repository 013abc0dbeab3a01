----------------------------- MODULE BlockCache -----------------------------
(***************************************************************************)
(* The write-back sector cache of fs/blockcache.c over the disks of         *)
(* drivers/ata.c.  A transfer may fail: ata_read and ata_write then return  *)
(* -1 and the sector is unchanged.  g_lru_clock is abstracted to the order  *)
(* of use it gives the slots.  Sectors stand for (drive, lba) pairs of      *)
(* drives that are present.                                                 *)
(***************************************************************************)
EXTENDS Naturals, Sequences, FiniteSets

CONSTANTS
    Sectors,           \* <<drive, lba>> pairs
    BCACHE_SLOTS,      \* 128
    Contents512,       \* what a sector can hold
    BLANK,             \* what the disks hold at first
    MaxFailures        \* bound on the transfers that fail

ASSUME BlockCacheConstants ==
    /\ BCACHE_SLOTS \in Nat \ {0} /\ MaxFailures \in Nat
    /\ BLANK \in Contents512

VARIABLES
    g_slots,           \* slot -> [valid, sector, data, dirty]
    lru,               \* the slots, least recently used first
    disk,              \* sector -> contents
    stored,            \* ghost: sector -> what clients have last stored there
    failed,            \* ghost: sectors whose write has failed since
    failures           \* ghost: number of failed transfers

bcache_vars == <<g_slots, lru, disk, stored, failed, failures>>

Slots128 == 1 .. BCACHE_SLOTS
Position(i) == CHOOSE k \in DOMAIN lru : lru[k] = i
Touch(i) == lru' = Append(SelectSeq(lru, LAMBDA j : j # i), i)
Oldest(S) == CHOOSE i \in S : \A j \in S : Position(i) <= Position(j)

find_slot(x) == {i \in Slots128 : g_slots[i].valid /\ g_slots[i].sector = x}

BlockCacheInit ==
    /\ g_slots = [i \in Slots128 |-> [valid |-> FALSE, sector |-> CHOOSE x \in Sectors : TRUE,
                                      data |-> BLANK, dirty |-> FALSE]]
    /\ lru = [k \in Slots128 |-> k]
    /\ disk = [x \in Sectors |-> BLANK]
    /\ stored = disk /\ failed = {} /\ failures = 0

\* Mutant of evict_slot: the oldest slot goes, dirty or not, and is not written.
evict_slot_unwritten == [slot |-> Oldest(Slots128), dirty |-> FALSE]

\* The slot to reuse: the first free one, else the oldest clean one, else the
\* oldest one, which has to be written back first.
evict_slot ==
    LET free == {i \in Slots128 : ~g_slots[i].valid}
        clean == {i \in Slots128 : ~g_slots[i].dirty}
    IN  IF free # {} THEN [slot |-> CHOOSE i \in free : \A j \in free : i <= j, dirty |-> FALSE]
        ELSE IF clean # {} THEN [slot |-> Oldest(clean), dirty |-> FALSE]
        ELSE [slot |-> Oldest(Slots128), dirty |-> TRUE]

\* One-sector transfers: before the data is moved the drive reports an error or
\* does not answer in time (not ok), or the sector is transferred.
ata_read(x) == disk[x]
ata_write(contents, x, v, ok) == IF ok THEN [contents EXCEPT ![x] = v] ELSE contents

\* What the eviction e leaves on disk.
Written(e, ok) ==
    ata_write(disk, g_slots[e.slot].sector, g_slots[e.slot].data, ok /\ e.dirty)
Fails(ok) == failures' = (IF ok THEN failures ELSE failures + 1) /\ failures' <= MaxFailures

\* bcache_get that finds the sector.
get_hit(x) ==
    \E i \in find_slot(x) :
        /\ Touch(i)
        /\ UNCHANGED <<g_slots, disk, stored, failed, failures>>

\* bcache_get that has to load it: the result of the write-back is not looked at.
get_miss(x) ==
    /\ find_slot(x) = {}
    /\ LET e == evict_slot
       IN  \E wrote, read \in BOOLEAN :
            /\ e.dirty \/ wrote
            /\ Fails(wrote /\ read)
            /\ disk' = Written(e, wrote)
            /\ failed' = IF e.dirty /\ ~wrote THEN failed \cup {g_slots[e.slot].sector} ELSE failed
            /\ \/ /\ read
                  /\ g_slots' = [g_slots EXCEPT ![e.slot] =
                                   [valid |-> TRUE, sector |-> x, data |-> ata_read(x), dirty |-> FALSE]]
                  /\ Touch(e.slot)
               \/ /\ ~read
                  /\ g_slots' = [g_slots EXCEPT ![e.slot].valid = FALSE, ![e.slot].dirty = @ /\ ~e.dirty]
                  /\ UNCHANGED lru
    /\ UNCHANGED stored

\* A client changes the sector in the buffer bcache_get has returned and calls
\* bcache_dirty, with no cache operation in between.
change_and_dirty(x, v) ==
    \E i \in find_slot(x) :
        /\ g_slots' = [g_slots EXCEPT ![i].data = v, ![i].dirty = TRUE]
        /\ stored' = [stored EXCEPT ![x] = v]
        /\ failed' = failed \ {x}
        /\ UNCHANGED <<lru, disk, failures>>

bcache_write_through(x, v) ==
    LET hit == find_slot(x)
        e == IF hit # {} THEN [slot |-> CHOOSE i \in hit : TRUE, dirty |-> FALSE] ELSE evict_slot
    IN  \E evicted, wrote \in BOOLEAN :
         /\ e.dirty \/ evicted
         /\ Fails(evicted /\ wrote)
         /\ g_slots' = [g_slots EXCEPT ![e.slot] =
                          [valid |-> TRUE, sector |-> x, data |-> v, dirty |-> FALSE]]
         /\ Touch(e.slot)
         /\ disk' = ata_write(Written(e, evicted), x, v, wrote)
         /\ stored' = [stored EXCEPT ![x] = v]
         /\ failed' = (IF wrote THEN failed \ {x} ELSE failed \cup {x})
                      \cup (IF e.dirty /\ ~evicted THEN {g_slots[e.slot].sector} ELSE {})

Drive(d) == {i \in Slots128 : g_slots[i].valid /\ g_slots[i].sector[1] = d}
Dirty(S) == {i \in S : g_slots[i].dirty}

\* bcache_flush: a slot whose write fails stays dirty and the others go on.
bcache_flush(d) ==
    \E lost \in SUBSET Dirty(Drive(d)) :
        /\ disk' = [x \in Sectors |->
             IF \E i \in Dirty(Drive(d)) \ lost : g_slots[i].sector = x
             THEN g_slots[CHOOSE i \in find_slot(x) : TRUE].data ELSE disk[x]]
        /\ g_slots' = [i \in Slots128 |->
             IF i \in Dirty(Drive(d)) \ lost THEN [g_slots[i] EXCEPT !.dirty = FALSE] ELSE g_slots[i]]
        /\ failures' = failures + Cardinality(lost) /\ failures' <= MaxFailures
        /\ UNCHANGED <<lru, stored, failed>>

\* bcache_invalidate: what was not written is given up.
bcache_invalidate(d) ==
    /\ g_slots' = [i \in Slots128 |-> IF i \in Drive(d) THEN [g_slots[i] EXCEPT !.valid = FALSE] ELSE g_slots[i]]
    /\ stored' = [x \in Sectors |-> IF x[1] = d THEN disk[x] ELSE stored[x]]
    /\ failed' = {x \in failed : x[1] # d}
    /\ UNCHANGED <<lru, disk, failures>>

Drives == {x[1] : x \in Sectors}
BlockCacheNext ==
    \/ \E x \in Sectors : get_hit(x) \/ get_miss(x)
    \/ \E x \in Sectors, v \in Contents512 : change_and_dirty(x, v) \/ bcache_write_through(x, v)
    \/ \E d \in Drives : bcache_flush(d) \/ bcache_invalidate(d)

(***************************************************************************)
(* Properties                                                               *)
(***************************************************************************)
\* The cache and the disk are one store: no sector is cached twice, and for every
\* sector whose last write did not fail the cached copy is what was last stored,
\* and so is the disk's unless a dirty copy is still to be written.  Eviction of
\* dirty slots, write-through over them and flushes that partly fail never lose
\* the last store or bring an old one back.
CacheCoherent ==
    \A x \in Sectors :
        /\ Cardinality(find_slot(x)) <= 1
        /\ x \notin failed =>
            /\ \A i \in find_slot(x) : g_slots[i].data = stored[x]
            /\ (\A i \in find_slot(x) : ~g_slots[i].dirty) => disk[x] = stored[x]
=============================================================================
