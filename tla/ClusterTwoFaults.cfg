SPECIFICATION Spec
CONSTANTS
    Conns = {c1, c2}
    NoFd = NoFd
    auto_failback = TRUE
    detect_times = 1
    DeadTicks = 1
    AtomicStatus = TRUE
    Faults = {"crash", "late", "health", "manual"}
    MaxEvents = 2
    MaxQueue = 2
SYMMETRY ConnSymmetry
INVARIANT Exclusive
PROPERTY ServiceSpec
CHECK_DEADLOCK FALSE
