SPECIFICATION FairSpec
CONSTANTS
    r1 = r1
    w1 = w1
    w2 = w2
    Threads = {r1, w1, w2}
    Writers = {w1, w2}
    LenOf <- Mixed
    Calls = 1
    BufSize = 2
    PIPE_BUF = 2
    Signalled = {r1, w2}
    MayBreak = TRUE
    Nobody = Nobody
INVARIANTS StreamIntact SmallWritesAtomic NoStrandedSleeper
PROPERTY AllComplete
CHECK_DEADLOCK FALSE
