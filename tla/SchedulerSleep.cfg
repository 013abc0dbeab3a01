SPECIFICATION FairSpec
CONSTANTS
    Procs = {idle, p1, p2}
    IDLE = idle
    BOOT = boot
    NULL = NULL
    MAX_READY = 3
    QUANTUM = 2
    MaxSleep = 2
    Sleeps = {boot, p1, p2}
    Exits = {}
    Kernel = {idle, p2}
    Kills = {}
PROPERTIES SleeperWakes
CHECK_DEADLOCK FALSE
