SPECIFICATION RwFairSpec
CONSTANTS
    Threads = {r1, r2, w1, w2}
    Writers = {w1, w2}
    Interruptible = {w2}
    Rounds = 2
    RDWR_LOCK_WRITE = 4
INVARIANTS NoStrandedWaiter ReadersShare
PROPERTIES RwImplementsLock AllComplete
CHECK_DEADLOCK FALSE
