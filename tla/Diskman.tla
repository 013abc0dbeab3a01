------------------------------ MODULE Diskman ------------------------------
(***************************************************************************)
(* The boot-time disk manager (kernel/diskman.c) on top of the sector      *)
(* cache: for every drive it reads the master boot record through the      *)
(* cache and keeps the pointer bcache_get returned, a slot of the cache,   *)
(* while mounting one partition after the other.                           *)
(*                                                                         *)
(* A sector's contents are the answers the code takes from it: sig and     *)
(* parts when read as a boot record, ext2 and fat when read as the first   *)
(* sector of a file system. FAT32 reads its sectors from the drive, not    *)
(* through the cache; what happens inside a mounted file system is in      *)
(* Ext2 and Fat32.                                                         *)
(***************************************************************************)
EXTENDS BlockCache, FiniteSetsExt

CONSTANTS
    DISKMAN_MAX_PARTS,   \* 16
    DISKMAN_MAX_DRIVES,  \* 4
    NParts,              \* entries of a boot record (4)
    EXT2_MAX_SECTORS,    \* sectors of an image, at most
    SUPERBLOCK,          \* sector of a partition with the superblock (2)
    Disks                \* the contents the disks can have at boot

VARIABLES
    g_parts,  \* the partitions found: drive, part, start, size, type, mounted
    dm        \* where scan_drive is: at, d, pi, mbr (the slot), i

diskvars == <<bcache_vars, g_parts, dm>>

FAT == 12      \* partition types 0x0B and 0x0C
LINUX == 131   \* 0x83

Present(d) == d \in Drives
bcache_get(x) == get_hit(x) \/ get_miss(x)
Got(x) == {i \in Slots128 : g_slots'[i].valid /\ g_slots'[i].sector = x}

NextDrive == [dm EXCEPT !.at = IF dm.d + 1 = DISKMAN_MAX_DRIVES THEN "done" ELSE "drive", !.d = @ + 1]
NextPart == [dm EXCEPT !.at = "part", !.pi = @ + 1]

\* A drive that is absent, unreadable or without the signature is passed over.
scan_drive ==
    /\ dm.at = "drive"
    /\ \/ /\ ~Present(dm.d)
          /\ dm' = NextDrive
          /\ UNCHANGED bcache_vars
       \/ /\ Present(dm.d)
          /\ bcache_get(<<dm.d, 0>>)
          /\ dm' = IF \E s \in Got(<<dm.d, 0>>) : g_slots'[s].data.sig
                   THEN [dm EXCEPT !.at = "part", !.pi = 1, !.mbr = CHOOSE s \in Got(<<dm.d, 0>>) : TRUE]
                   ELSE NextDrive
    /\ UNCHANGED g_parts

\* The entry is read where the record was when it was fetched.
Part == g_slots[dm.mbr].data.parts[dm.pi]
Unused == Part.type = 0 \/ Part.size = 0

scan_part_skip ==
    /\ dm.at = "part"
    /\ \/ /\ dm.pi > NParts \/ Len(g_parts) >= DISKMAN_MAX_PARTS
          /\ dm' = NextDrive
       \/ /\ dm.pi <= NParts /\ Len(g_parts) < DISKMAN_MAX_PARTS /\ Unused
          /\ dm' = NextPart
    /\ UNCHANGED <<bcache_vars, g_parts>>

Record(mounted) == [drive |-> dm.d, part |-> dm.pi, start |-> Part.start, size |-> Part.size,
                    type |-> Part.type, mounted |-> mounted]

scan_part ==
    /\ dm.at = "part" /\ dm.pi <= NParts /\ Len(g_parts) < DISKMAN_MAX_PARTS /\ ~Unused
    /\ \E mounted \in BOOLEAN :
        /\ mounted => Part.type = FAT /\ disk[<<dm.d, Part.start>>].fat   \* try_mount_fat32
        /\ g_parts' = Append(g_parts, Record(mounted))
    /\ dm' = IF Part.type = LINUX THEN [dm EXCEPT !.at = "magic"] ELSE NextPart
    /\ UNCHANGED bcache_vars

Cur == g_parts[Len(g_parts)]

\* try_mount_ext2: the superblock's magic number, then the memory for the image.
try_mount_ext2 ==
    /\ dm.at = "magic"
    /\ LET x == <<dm.d, Cur.start + SUPERBLOCK>>
       IN  /\ bcache_get(x)
           /\ \E mem \in BOOLEAN :
                dm' = IF mem /\ \E s \in Got(x) : g_slots'[s].data.ext2
                      THEN [dm EXCEPT !.at = "copy", !.i = 0] ELSE NextPart
    /\ UNCHANGED g_parts

\* One sector of the partition goes into the image; an unreadable one is zeroed.
copy_sector ==
    /\ dm.at = "copy" /\ dm.i < Min({Cur.size, EXT2_MAX_SECTORS})
    /\ bcache_get(<<dm.d, Cur.start + dm.i>>)
    /\ dm' = [dm EXCEPT !.i = @ + 1]
    /\ UNCHANGED g_parts

\* ext2_init accepts the image or not.
mount_image ==
    /\ dm.at = "copy" /\ dm.i = Min({Cur.size, EXT2_MAX_SECTORS})
    /\ \E mounted \in BOOLEAN : g_parts' = [g_parts EXCEPT ![Len(g_parts)].mounted = mounted]
    /\ dm' = NextPart
    /\ UNCHANGED bcache_vars

diskman_init ==
    /\ g_slots = [i \in Slots128 |-> [valid |-> FALSE, sector |-> CHOOSE x \in Sectors : TRUE,
                                      data |-> BLANK, dirty |-> FALSE]]
    /\ lru = [k \in Slots128 |-> k]
    /\ disk \in Disks /\ stored = disk /\ failed = {} /\ failures = 0
    /\ g_parts = <<>>
    /\ dm = [at |-> "drive", d |-> 0, pi |-> 1, mbr |-> 1, i |-> 0]

DiskNext == scan_drive \/ scan_part_skip \/ scan_part \/ try_mount_ext2 \/ copy_sector \/ mount_image

DiskSpec == diskman_init /\ [][DiskNext]_diskvars

(***************************************************************************)
(* Properties                                                              *)
(***************************************************************************)
\* "For each ATA drive found: reads MBR, parses partition table"
\* (kernel/diskman.c:4): when the scan is over and no transfer has failed, the
\* partitions recorded are the used entries of the boot records on the drives.
PartitionsFound ==
    dm.at = "done" /\ failures = 0 /\ Len(g_parts) < DISKMAN_MAX_PARTS =>
        {<<g_parts[k].drive, g_parts[k].part, g_parts[k].start, g_parts[k].size>> : k \in DOMAIN g_parts} =
        {<<d, k, disk[<<d, 0>>].parts[k].start, disk[<<d, 0>>].parts[k].size>> :
            <<d, k>> \in {<<d, k>> \in (Drives \X (1 .. NParts)) :
                            /\ disk[<<d, 0>>].sig
                            /\ disk[<<d, 0>>].parts[k].type # 0 /\ disk[<<d, 0>>].parts[k].size # 0}}
=============================================================================
