SPECIFICATION FairSpec
CONSTANTS
    w1 = w1  w2 = w2  s1 = s1
    Threads = {w1, w2, s1}
    Waiters = {w1, w2}
    Timed = {w2}
    Addrs <- CondAddrs
    Bucket <- MCBucket
    Nobody = Nobody
INVARIANTS ListsExact QueueInUse NodesInUse
CHECK_DEADLOCK FALSE
PROPERTY AllReturn
