SPECIFICATION Spec
CONSTANTS
    init = init  par = par  kid = kid
    i1 = i1  p1 = p1  k1 = k1  k2 = k2
    Procs = {init, par, kid}
    InitProc = init
    Elders <- MCElders
    Threads = {i1, p1, k1, k2}
    Owner <- MCOwner
    Main <- MCMain
    Ops <- MCOpsFamily
    Signals = {"STOP", "CONT", "KILL"}
    MaxKills = 2
    MaxWaits = 1
    Nobody = Nobody
INVARIANTS  TreeConsistent VforkFrameInUse SleeperMissesNothing
CHECK_DEADLOCK FALSE
