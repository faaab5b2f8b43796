SPECIFICATION FairSpec
CONSTANTS
    idle0 = idle0  idle1 = idle1  ta = ta  tb = tb  td = td
    NoThread = NoThread
    Threads = {idle0, ta, tb}
    Cpus = {0}
    IdleOf <- MCIdle1
    Priority <- MCPriority
    NumPrio = 3
    Quantum = 2
    QuantumMod = 8
    MaxQuantum = 3
    MaxPreempt = 1
    MaxDeaths = 1
    InitCpu <- MCCpu1
    InitQueue <- MCQueue1
    SleepStates = {"INTERRUPTIBLE", "UNINTERRUPTIBLE", "STOPPED"}
    NestedTicks = FALSE
INVARIANTS PreemptionKeepsSleepers LockHolderRuns QuantumNeverWraps
PROPERTY RoundRobin
CHECK_DEADLOCK FALSE
