SPECIFICATION PartsSpec
CONSTANTS
    BUDDY_MAX_ORDER = 3
    total_pages = 16
    map_pages = 1
    Sigs = {2, 3, 9, 19, 20}
    Changeable = {2, 20}
    MaxFrames = 2
    TTY_BUF_SIZE = 4
    Letters = {"a"}
    MaxTyped = 5
    Sectors <- MCSectors
    BCACHE_SLOTS = 2
    Contents512 = {0, 1}
    BLANK = 0
    MaxFailures = 1
    NNodes = 4
    Paths <- MCPaths
    MountPaths <- MCMountPaths
    RAMFS_MAX_CHILDREN = 2
    MIN_CAP = 1
    MaxFileSize = 2
    MaxData = 2
    Bytes = {1}
    FdProcs = {p1, p2}
    MAX_FDS = 2
    MaxOpen = 3
    MaxOpenNodes = 1
    CONSOLE_IN = {0}
    CONSOLE_OUT = {1}
    NClusters = 3
    PerSector = 2
    EPC = 2
    FatNames = {"a", "A"}
    Upper <- MCUpper
    HINT = 3
    FatHandles = {h1}
    FatData = {1}
    MaxClusters = 2
    SharedOpen = FALSE
    NBlocks = 4
    NInodes = 3
    EXT2_NDIR_BLOCKS = 1
    PTRS = 1
    ExtNames = {"s", "long"}
    Need <- MCNeed
    DIRLEN = 3
    ExtData = {1}
    MaxBlocks = 3
    MAX_FRAMES = 10
    PMM_FRAME_SIZE = 2
    Maps <- MCMaps
    LOW = 2
    KSTART = 4
    KEND = 7
    BITMAP = 9
    BITMAP_SIZE = 1
    Callers = {1, 2}
    Counts = {1, 2}
INVARIANTS
    PagesPartitioned
    ReadsWhatWasTyped
    CacheCoherent
    TreeSound
    
    
    WritesSurvive
    VolumeSound
    
    
PROPERTY SignalsTakeEffect
CHECK_DEADLOCK FALSE
