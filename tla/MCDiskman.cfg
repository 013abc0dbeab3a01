SPECIFICATION DiskSpec
CONSTANTS
    Sectors <- MCSectors
    BCACHE_SLOTS = 3
    Contents512 <- MCContents
    BLANK <- Plain
    MaxFailures = 0
    DISKMAN_MAX_PARTS = 16
    DISKMAN_MAX_DRIVES = 2
    NParts = 2
    EXT2_MAX_SECTORS = 8
    SUPERBLOCK = 2
    Disks <- MCDisks
INVARIANTS PartitionsFound
CHECK_DEADLOCK FALSE
