SPECIFICATION DesktopSpec
CONSTANTS
    KBD_RAW_SZ = 2
    KBD_BUFFER_SIZE = 2
    EVT_QUEUE_SIZE = 2
    INPUT_QUEUE_SZ = 2
    LINE_MAX = 2
    MAX_X = 2
    Keys = {"LALT", "CAPSLOCK", "a", "up"}
    Moves = {0, 1}
    MaxKeys = 4
    MaxPackets = 3
    SURFACE_MAX = 4
    FLOAT_MAX = 2
    OVERLAYS = 2
    CTX_TRANSITION_FRAMES = 2
    CoreApps <- MCCore
    FloatApps = {"clock", "calc"}
    MaxSessions = 2
    WM_MAX_WINDOWS = 2
    TASKBAR_MAX = 1
    WS_COUNT = 2
    WS_MAX_WINDOWS = 1
    WinApps = {"terminal", "settings"}
    Raises = {"terminal"}
    MaxWid = 3
    LAUNCHER_MAX_WINS = 2
    Listing <- MCListing
    Images <- MCImages
    APKG_CATALOG_MAX = 2
    APKG_DB_MAX = 2
    APKG_CAP_MAX = 2
    PROC_MAX_CAPS = 1
    LOAD_MAX = 12
    Archives <- MCArchives
    TreePaths <- MCTree
    PKG_MAX_INSTALLED = 1
    MaxLaunches = 1
    Glyphs = {"a", "b"}
    LINE_CAP = 2
    TERM_HIST_MAX = 2
    OLD_HIST = 2
    CommandOf <- MCCommands
    TermPaths <- MCTermPaths
    HOME_PATH <- MCHome
    MaxDepth = 1
    COMP_MAX_SURFACES = 2
    INPUT_MAX_SUBSCRIBERS = 1
    RAW_MAX = 2
    Masks = {{"key"}}
    Decorations = {TRUE}
    MaxSurfaces = 3
    MaxEvents = 2
    MaxPort = 1
    USERS_MAX = 3
    FIELD_MAX = 1
    Letters = {"a"}
    Hash <- MCHash
    SYSTEM <- MCSystem
    USER <- MCUser
    AETHEROS <- MCAetheros
    NewNames <- MCNewNames
    NewPasswords <- MCPasswords
    SECMON_LOG_SIZE = 2
    Tasks = {1, 2}
    MaxAudits = 4
    MaxTyped = 4
    MaxPending = 1
    FileNames <- MCFileNames
    MaxTreeDepth = 2
    FM_MAX_HIST = 1
    SidebarPaths <- MCSide
    COLS = 2
    MaxChanges = 2
    TE_MAX_LINES = 4
    LINE_LEN = 2
    VISIBLE = 2
    EdLetters = {"a", "b"}
    Welcome <- MCWelcome
INVARIANTS
    NothingStale
    StackExact
    
    FocusFollowed
    
    AuditListed
    
    TextFollowed
PROPERTIES
    KeysInOrder
    HistoryBrowsed
CHECK_DEADLOCK FALSE
