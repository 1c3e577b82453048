SPECIFICATION FairSpec
CONSTANTS
    Conns = {c1, c2}
    NoFd = NoFd
    auto_failback = TRUE
    detect_times = 1
    DeadTicks = 1
    AtomicStatus = TRUE
    Faults = {"cut", "crash", "late", "manual"}
    MaxEvents = 1
    MaxQueue = 2
INVARIANT Lockstep
PROPERTIES Failover Converge Reconnect
CHECK_DEADLOCK FALSE
