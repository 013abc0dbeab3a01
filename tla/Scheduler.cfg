SPECIFICATION FairSpec
CONSTANTS
    Procs = {idle, p1, p2}
    IDLE = idle
    BOOT = boot
    NULL = NULL
    MAX_READY = 3
    QUANTUM = 2
    MaxSleep = 2
    Sleeps = {p1, p2}
    Exits = {p1, p2}
    Kernel = {idle, p2}
    Kills = {p1}
INVARIANTS QueueExact NoThreadTwice
 
CHECK_DEADLOCK FALSE
