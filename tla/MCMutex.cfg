SPECIFICATION FairSpec
CONSTANTS
    Threads = {t1, t2, t3}
    Interruptible = {t3}
    Rounds = 2
    ReschedAtUnlock = TRUE
    Nobody = Nobody
INVARIANTS OwnerIsOwner WaitListExact
PROPERTIES ImplementsLock UndisturbedComplete
CHECK_DEADLOCK FALSE
