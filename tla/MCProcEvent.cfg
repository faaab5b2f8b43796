SPECIFICATION FairSpec
CONSTANTS
    s1 = s1  s2 = s2  s3 = s3
    Target = target
    Threads = {target}
    Subs = {s1, s2, s3, s4}
    Initially <- Three
    Closers = {s3, s4}
    Syscalls = 4
    Nobody = Nobody
INVARIANTS HeldUntilAcked EventsDelivered
PROPERTY AcksLetProceed
CHECK_DEADLOCK FALSE
