SPECIFICATION FairSpec
CONSTANTS
    low = low
    Worker = worker
    Threads = {worker}
    Signallers = {a, b, low}
    Prio <- MCPrio
    Waits = 3
    Signals = 1
    Nobody = Nobody
INVARIANTS WorkOnce FifoWithinPriority UnitsHaveTakers
PROPERTY WorkGetsDone
CHECK_DEADLOCK FALSE
