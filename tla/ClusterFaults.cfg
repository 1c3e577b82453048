SPECIFICATION Spec
CONSTANTS
    Conns = {c1, c2}
    NoFd = NoFd
    auto_failback = TRUE
    detect_times = 2
    DeadTicks = 1
    AtomicStatus = FALSE
    Faults = {"crash", "late", "health", "manual"}
    MaxEvents = 1
    MaxQueue = 2
SYMMETRY ConnSymmetry
INVARIANTS TypeOK Exclusive
PROPERTIES HandoverAnnounced ParkedKeepsVip ServiceSpec
CHECK_DEADLOCK FALSE
