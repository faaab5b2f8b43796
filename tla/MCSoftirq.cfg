SPECIFICATION SoftirqFairSpec
CONSTANTS
    tick = tick  rto = rto  alarm = alarm
    Events = {tick, rto, alarm}
    Atomic = {tick}
    Pulse = {tick, rto}
    MaxDelay = 2
    MaxPackets = 2
    None = None
INVARIANTS EventsArmed CancelledSilent
CHECK_DEADLOCK FALSE
PROPERTIES TimersFire PacketsReceived
