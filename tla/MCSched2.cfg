SPECIFICATION Spec
CONSTANTS
    idle0 = idle0  idle1 = idle1  ta = ta  tb = tb  td = td
    NoThread = NoThread
    Threads = {idle0, idle1, ta, td}
    Cpus = {0, 1}
    IdleOf <- MCIdle2
    Priority <- MCPriority
    NumPrio = 3
    Quantum = 1
    QuantumMod = 8
    MaxQuantum = 2
    MaxPreempt = 1
    MaxDeaths = 0
    InitCpu <- MCCpu2
    InitQueue <- MCQueue2
    SleepStates = {"UNINTERRUPTIBLE"}
    NestedTicks = FALSE
INVARIANTS QueuesSound NoThreadLost
PROPERTY ContractKept
