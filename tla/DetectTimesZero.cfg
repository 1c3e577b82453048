SPECIFICATION Spec
CONSTANTS
    Conns = {c1, c2}
    NoFd = NoFd
    auto_failback = FALSE
    detect_times = 0
    DeadTicks = 1
    AtomicStatus = TRUE
    Faults = {"health"}
    MaxEvents = 1
    MaxQueue = 2
SYMMETRY ConnSymmetry
PROPERTY HandoverAnnounced
CHECK_DEADLOCK FALSE
